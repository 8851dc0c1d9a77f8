------------------------ MODULE SimpleLogBufferProofs ------------------------
(***************************************************************************)
(* The simple buffer, for any number of logs, readers, messages and          *)
(* commands: the element a reader writes without the lock stays in the list, *)
(* oldest_ points into it, the statistics count it, no wakeup is lost and a  *)
(* client gets elements in order; without deadlines, and until Init() runs   *)
(* again, it misses only what its thread was told to skip.                  *)
(***************************************************************************)
EXTENDS SimpleLogBuffer, SequenceTheorems, FiniteSetTheorems, TLAPS

-----------------------------------------------------------------------------
(***************************************************************************)
(* The inductive invariant: types                                           *)
(***************************************************************************)

ReaderPcs == {"idle", "start", "woken", "timed_out", "flush", "write", "wait", "wait_until",
              "exit", "gone"}
ReaderValues == [pc : ReaderPcs, start : Nat, it : Nat, mask : SUBSET Logs, uid : Int,
                 deadline : BOOLEAN, non_block : BOOLEAN, release : BOOLEAN, skip : [Logs -> Int],
                 last_tid : [Logs -> Int], drop_chatty : BOOLEAN]

PruneValues ==
    [pc : {"none", "return"}, result : BOOLEAN]
    \cup [pc : {"begin"}, id : Logs, rows : Int, uid : Int, result : BOOLEAN]
    \cup [pc : {"loop"}, id : Logs, rows : Int, uid : Int, result : BOOLEAN,
          reader : Readers \cup {NOBODY}, it : Nat]

ClearValues == [pc : {"none"}, retry : Int]
               \cup [pc : {"try", "probe", "kick", "last"}, id : Logs, uid : Int, retry : Int]

\* The statistics by log; of what is in the tables only the elements matter here.
Counters == [Logs -> Int]
Statistics(table) ==
    [sizes : Counters, elements : Counters, droppedElements : Counters,
     sizesTotal : Counters, elementsTotal : Counters, oldest : Counters,
     newest : Counters, newestDropped : Counters, table : {table}]
CountersAreNumbers(s) == s \in Statistics(s.table)

SimpleTypeOK ==
    /\ logs \in Seq(Element) /\ oldest \in [Logs -> Nat] /\ CountersAreNumbers(stats)
    /\ sequence \in Nat \ {0} /\ max_size \in [Logs -> Nat]
    /\ reader \in [Readers -> ReaderValues]
    /\ lock \in Readers \cup {NOBODY, "log", "clear"}
    /\ todo \in Seq(Element) /\ prune \in PruneValues /\ clear \in ClearValues
    /\ delivered \in [Readers -> Seq(Nat)]

-----------------------------------------------------------------------------
(***************************************************************************)
(* The inductive invariant: who holds the lock                              *)
(***************************************************************************)

\* LogListener and CommandListener prune with the lock, a reader flushes with it.
LockIsHeld ==
    /\ todo = << >> \/ Len(todo) = 1
    /\ lock = "log" <=> todo # << >>
    /\ prune.pc # "none" => lock \in {"log", "clear"}
    /\ lock = "clear" => prune.pc # "none" /\ clear.pc \in {"try", "probe", "last"}
    /\ \A r \in Readers : lock = r <=> reader[r].pc \in {"flush", "exit"}

-----------------------------------------------------------------------------
(***************************************************************************)
(* The inductive invariant: the list                                        *)
(***************************************************************************)

Listed == ToSet(logs)

Ascends(list) == \A j, k \in DOMAIN list : j < k => list[j].seq < list[k].seq

\* The sequence numbers rise, from 1, and that of a message on its way is above them.
ListAscends ==
    /\ Ascends(logs)
    /\ \A e \in Listed : 0 < e.seq /\ e.seq < sequence
    /\ todo # << >> => 0 < Head(todo).seq /\ Head(todo).seq < sequence
    /\ todo # << >> /\ prune.pc = "none" => \A e \in Listed : e.seq < Head(todo).seq

\* An iterator that may be followed
IsLive(it, listed) == it = END \/ \E e \in listed : e.seq = it

\* oldest_, by the elements and not by their places
IsFirst(it, i, listed) ==
    it # END => IsLive(it, listed) /\ \A e \in listed : e.id = i => it <= e.seq

OldestIsFirst == \A i \in Logs : IsFirst(oldest[i], i, Listed)

-----------------------------------------------------------------------------
(***************************************************************************)
(* The inductive invariant: pruning                                         *)
(***************************************************************************)

Watchers(id) == {r \in Connected : IsWatching(r, id)}

\* The reader Prune() has found stays the one furthest back, as it keeps the lock.
PruneRespects ==
    prune.pc = "loop" =>
        /\ IsLive(prune.it, Listed)
        /\ prune.reader = NOBODY => Watchers(prune.id) = {}
        /\ prune.reader # NOBODY =>
              \A q \in Watchers(prune.id) : reader[prune.reader].start <= reader[q].start

-----------------------------------------------------------------------------
(***************************************************************************)
(* The inductive invariant: a reader x that was sent a sequence of numbers,  *)
(* with the elements of the list and the message that is coming             *)
(***************************************************************************)

\* "We never prune logs equal to or newer than any LogReaderThreads' `start` value"
WritesItsStart(x, listed) ==
    x.pc = "write" => x.start = x.it /\ \E e \in listed : e.seq = x.it /\ MayRead(x, e)

\* FlushTo() has come to it: what is before it is not above the start, but what is left
\* when the reader is to stop.
HasFlushed(x, listed) ==
    x.pc = "flush" =>
        /\ IsLive(x.it, listed)
        /\ \A e \in listed : (x.it = END \/ e.seq < x.it) /\ MayRead(x, e)
                                => x.release \/ e.seq <= x.start

\* Who waits is past everything, but for the message of which it is to be notified.
WaitsAbove(x, listed, coming) ==
    x.pc = "wait" =>
        /\ ~x.deadline
        /\ \A e \in listed : MayRead(x, e) => e.seq < x.start \/ (coming # << >> /\ e = Head(coming))

\* What was sent is in order and behind the start.
SentInOrder(x, sent) ==
    /\ \A j, k \in DOMAIN sent : j < k => sent[j] < sent[k]
    /\ x.pc = "idle" => sent = << >>
    /\ x.pc # "idle" => 0 < x.start
    /\ \A k \in DOMAIN sent :
          /\ x.pc \in {"start", "woken", "timed_out", "wait", "wait_until"} => sent[k] < x.start
          /\ x.pc = "flush" => sent[k] <= x.start /\ (x.it # END => sent[k] < x.it)
          /\ x.pc = "write" => sent[k] < x.it

IsServed(x, sent, listed, coming) ==
    /\ WritesItsStart(x, listed) /\ HasFlushed(x, listed) /\ WaitsAbove(x, listed, coming)
    /\ SentInOrder(x, sent)

ReadersServed == \A r \in Readers : IsServed(reader[r], delivered[r], Listed, todo)

SimpleInv ==
    /\ SimpleTypeOK /\ LockIsHeld /\ ListAscends /\ OldestIsFirst /\ PruneRespects
    /\ ReadersServed /\ StatsMatchList

-----------------------------------------------------------------------------
(***************************************************************************)
(* Numbers                                                                  *)
(***************************************************************************)

LEMMA LeastOf ==
    ASSUME NEW T, T \subseteq Nat, T # {}
    PROVE  Min(T) \in T /\ \A y \in T : Min(T) <= y
  <1>1. IsWellFoundedOn(OpToRel(<, Nat), Nat)
    BY NatLessThanWellFounded
  <1>2. PICK x \in T : \A y \in T : ~(<<y, x>> \in OpToRel(<, Nat))
    BY <1>1, WFMin
  <1>3. \A y \in T : ~(y < x)
    BY <1>2 DEF OpToRel
  <1>4. \A y \in T : x <= y
    BY <1>3
  <1> QED BY <1>4 DEF Min

LEMMA GreatestOf ==
    ASSUME NEW n \in Nat, NEW S, S \subseteq 1 .. n, S # {}
    PROVE  Max(S) \in S /\ \A y \in S : Max(S) >= y
  <1> DEFINE T == {n - k : k \in S}
  <1>1. T \subseteq Nat /\ T # {}
    <2>1. PICK k : k \in S
      OBVIOUS
    <2>2. n - k \in T
      BY <2>1
    <2>3. \A m \in S : n - m \in Nat
      OBVIOUS
    <2> QED BY <2>2, <2>3
  <1>2. Min(T) \in T /\ \A y \in T : Min(T) <= y
    BY <1>1, LeastOf
  <1>3. PICK x \in S : Min(T) = n - x
    BY <1>2
  <1>4. \A y \in S : n - x <= n - y
    BY <1>2, <1>3
  <1>5. \A y \in S : x >= y
    BY <1>4
  <1> QED BY <1>5 DEF Max

-----------------------------------------------------------------------------
(***************************************************************************)
(* Lists of elements                                                        *)
(***************************************************************************)

LEMMA ListDomain ==
    ASSUME NEW list \in Seq(Element)
    PROVE  /\ Len(list) \in Nat /\ DOMAIN list = 1 .. Len(list)
           /\ \A k \in DOMAIN list : list[k] \in Element /\ list[k] \in ToSet(list)
           /\ \A e \in ToSet(list) : \E k \in DOMAIN list : e = list[k]
  <1>1. Len(list) \in Nat /\ DOMAIN list = 1 .. Len(list)
    BY LenProperties
  <1>2. \A k \in 1 .. Len(list) : list[k] \in Element
    BY ElementOfSeq
  <1> QED BY <1>1, <1>2 DEF ToSet

\* A sequence number names one place of the list.
LEMMA PlaceOf ==
    ASSUME logs \in Seq(Element), Ascends(logs), NEW k \in DOMAIN logs
    PROVE  Pos(logs[k].seq) = k
  <1>1. DOMAIN logs = 1 .. Len(logs) /\ Len(logs) \in Nat /\ \A j \in DOMAIN logs : logs[j] \in Element
    BY ListDomain
  <1>2. ASSUME NEW j \in DOMAIN logs, logs[j].seq = logs[k].seq PROVE j = k
    <2>1. logs[j].seq \in Nat /\ logs[k].seq \in Nat
      BY <1>1 DEF Element
    <2>2. ~(j < k) /\ ~(k < j)
      BY <1>2, <2>1 DEF Ascends
    <2> QED BY <1>1, <2>2
  <1> QED BY <1>2 DEF Pos

\* it is the first element from number s on.
IsFirstFrom(it, s) ==
    IF it = END THEN \A e \in Listed : e.seq < s
    ELSE s <= it /\ IsLive(it, Listed) /\ \A e \in Listed : e.seq < s \/ it <= e.seq

LEMMA AfterIsNext ==
    ASSUME logs \in Seq(Element), Ascends(logs), \A e \in Listed : 0 < e.seq, NEW e \in Listed
    PROVE  After(e.seq) \in Nat /\ IsFirstFrom(After(e.seq), e.seq + 1)
  <1>1. /\ Len(logs) \in Nat /\ DOMAIN logs = 1 .. Len(logs)
        /\ \A k \in DOMAIN logs : logs[k] \in Element /\ logs[k] \in Listed
        /\ \A f \in Listed : \E k \in DOMAIN logs : f = logs[k]
    BY ListDomain DEF Listed
  <1>2. PICK k \in DOMAIN logs : e = logs[k]
    BY <1>1
  <1>3. Pos(e.seq) = k
    BY <1>2, PlaceOf
  <1>4. \A j \in DOMAIN logs : logs[j].seq \in Nat
    BY <1>1 DEF Element
  <1>5. CASE k = Len(logs)
    <2>1. After(e.seq) = END
      BY <1>3, <1>5 DEF After
    <2>2. ASSUME NEW f \in Listed PROVE f.seq < e.seq + 1
      <3>1. PICK j \in DOMAIN logs : f = logs[j]
        BY <1>1
      <3>2. j = k \/ logs[j].seq < logs[k].seq
        BY <1>1, <1>5 DEF Ascends
      <3> QED BY <1>2, <1>4, <3>1, <3>2
    <2> QED BY <2>1, <2>2 DEF IsFirstFrom, END
  <1>6. CASE k # Len(logs)
    <2>1. k + 1 \in DOMAIN logs
      BY <1>1, <1>6
    <2>2. After(e.seq) = logs[k + 1].seq
      BY <1>3, <1>6 DEF After
    <2>3. logs[k].seq < logs[k + 1].seq
      BY <1>1, <2>1 DEF Ascends
    <2>4. ASSUME NEW f \in Listed PROVE f.seq < e.seq + 1 \/ After(e.seq) <= f.seq
      <3>1. PICK j \in DOMAIN logs : f = logs[j]
        BY <1>1
      <3>2. j < k \/ j = k \/ j = k + 1 \/ k + 1 < j
        BY <1>1
      <3>3. logs[j].seq < logs[k].seq \/ j = k \/ j = k + 1 \/ logs[k + 1].seq < logs[j].seq
        BY <3>2, <2>1 DEF Ascends
      <3> QED BY <1>2, <1>4, <2>1, <2>2, <3>1, <3>3
    <2>5. IsLive(After(e.seq), Listed) /\ After(e.seq) # END
      BY <1>1, <1>4, <2>1, <2>2 DEF IsLive, END
    <2> QED BY <1>2, <1>4, <2>1, <2>2, <2>3, <2>4, <2>5 DEF IsFirstFrom
  <1> QED BY <1>5, <1>6

\* Where FlushTo() begins
LEMMA FlushStartIsFirst ==
    ASSUME logs \in Seq(Element), Ascends(logs), \A e \in Listed : 0 < e.seq,
           NEW start \in Nat, 0 < start
    PROVE  FlushStart(start) \in Nat /\ IsFirstFrom(FlushStart(start), start)
  <1> DEFINE upto == {k \in DOMAIN logs : logs[k].seq <= start}
             last == Max(upto)
  <1>1. /\ Len(logs) \in Nat /\ DOMAIN logs = 1 .. Len(logs)
        /\ \A k \in DOMAIN logs : logs[k] \in Element /\ logs[k] \in Listed
        /\ \A f \in Listed : \E k \in DOMAIN logs : f = logs[k]
    BY ListDomain DEF Listed
  <1>2. \A j \in DOMAIN logs : logs[j].seq \in Nat /\ 0 < logs[j].seq
    BY <1>1 DEF Element
  <1>3. CASE logs = << >>
    <2>1. Len(logs) = 0
      BY <1>3
    <2>2. Listed = {}
      BY <1>1, <2>1
    <2>3. FlushStart(start) = END
      BY <1>3 DEF FlushStart
    <2> QED BY <2>2, <2>3 DEF IsFirstFrom, END
  <1>4. CASE logs # << >> /\ (start <= 1 \/ upto = {})
    <2>1. 1 \in DOMAIN logs
      BY <1>1, <1>4, EmptySeq
    <2>2. FlushStart(start) = logs[1].seq
      BY <1>4 DEF FlushStart
    <2>3. ASSUME NEW f \in Listed PROVE logs[1].seq <= f.seq
      <3>1. PICK j \in DOMAIN logs : f = logs[j]
        BY <1>1
      <3>2. j = 1 \/ logs[1].seq < logs[j].seq
        BY <1>1, <2>1 DEF Ascends
      <3> QED BY <1>2, <2>1, <3>1, <3>2
    <2>4. start <= logs[1].seq
      BY <1>2, <1>4, <2>1
    <2> QED BY <1>1, <1>2, <2>1, <2>2, <2>3, <2>4 DEF IsFirstFrom, IsLive, END
  <1>5. CASE logs # << >> /\ ~(start <= 1 \/ upto = {})
    <2>1. last \in upto /\ \A k \in upto : last >= k
      <3>1. upto \subseteq 1 .. Len(logs)
        BY <1>1
      <3> QED BY <1>1, <1>5, <3>1, GreatestOf
    <2>2. FlushStart(start) = IF logs[last].seq = start THEN start ELSE After(logs[last].seq)
      BY <1>5 DEF FlushStart
    <2> HIDE DEF last
    <2>3. ASSUME NEW f \in Listed PROVE f.seq <= logs[last].seq \/ start < f.seq
      <3>1. PICK j \in DOMAIN logs : f = logs[j]
        BY <1>1
      <3>2. j = last \/ j < last \/ j \notin upto
        BY <1>1, <2>1
      <3>3. j = last \/ logs[j].seq < logs[last].seq \/ j \notin upto
        BY <2>1, <3>2 DEF Ascends
      <3> QED BY <1>2, <2>1, <3>1, <3>3
    <2>4. CASE logs[last].seq = start
      <3>1. IsLive(start, Listed)
        BY <1>1, <2>1, <2>4 DEF IsLive
      <3>2. \A f \in Listed : f.seq < start \/ start <= f.seq
        BY <1>1, <1>2
      <3> QED BY <2>2, <2>4, <3>1, <3>2 DEF IsFirstFrom, END
    <2>5. CASE logs[last].seq # start
      <3> DEFINE a == logs[last].seq
      <3>1. a \in Nat /\ a < start
        BY <1>2, <2>1, <2>5
      <3>2. After(a) \in Nat /\ IsFirstFrom(After(a), a + 1)
        BY <1>1, <2>1, AfterIsNext
      <3>3. FlushStart(start) = After(a)
        BY <2>2, <2>5
      <3>4. \A f \in Listed : f.seq \in Nat /\ (f.seq <= a \/ start < f.seq)
        BY <1>1, <1>2, <2>3
      <3>5. CASE After(a) = END
        <4>1. \A f \in Listed : f.seq < a + 1
          BY <3>2, <3>5 DEF IsFirstFrom
        <4>2. \A f \in Listed : f.seq < start
          BY <3>1, <3>4, <4>1
        <4> QED BY <3>2, <3>3, <3>5, <4>2 DEF IsFirstFrom
      <3>6. CASE After(a) # END
        <4>1. /\ a + 1 <= After(a) /\ IsLive(After(a), Listed)
              /\ \A f \in Listed : f.seq < a + 1 \/ After(a) <= f.seq
          BY <3>2, <3>6 DEF IsFirstFrom
        <4>2. PICK f \in Listed : f.seq = After(a)
          BY <3>6, <4>1 DEF IsLive
        <4>3. start <= After(a)
          BY <3>1, <3>4, <4>1, <4>2
        <4>4. \A g \in Listed : g.seq < start \/ After(a) <= g.seq
          BY <3>1, <3>2, <3>4, <4>1
        <4> QED BY <3>2, <3>3, <3>6, <4>1, <4>3, <4>4 DEF IsFirstFrom
      <3> QED BY <3>5, <3>6
    <2> QED BY <2>4, <2>5
  <1> QED BY <1>3, <1>4, <1>5

\* it is the oldest element of a log, END if there is none.
IsOldest(it, id) ==
    IF it = END THEN \A e \in Listed : e.id # id
    ELSE IsLive(it, Listed) /\ \A e \in Listed : e.id = id => it <= e.seq

LEMMA GetOldestIsOldest ==
    ASSUME logs \in Seq(Element), Ascends(logs), \A e \in Listed : 0 < e.seq,
           NEW id \in Logs, oldest[id] \in Nat, IsFirst(oldest[id], id, Listed)
    PROVE  GetOldest(id) \in Nat /\ IsOldest(GetOldest(id), id)
  <1> DEFINE from == IF oldest[id] = END THEN 1 ELSE Pos(oldest[id])
             found == {k \in from .. Len(logs) : logs[k].id = id}
  <1>1. /\ Len(logs) \in Nat /\ DOMAIN logs = 1 .. Len(logs)
        /\ \A k \in DOMAIN logs : logs[k] \in Element /\ logs[k] \in Listed
        /\ \A f \in Listed : \E k \in DOMAIN logs : f = logs[k]
    BY ListDomain DEF Listed
  <1>2. \A j \in DOMAIN logs : logs[j].seq \in Nat /\ 0 < logs[j].seq
    BY <1>1 DEF Element
  <1>3. /\ from \in Nat /\ 1 <= from
        /\ \A k \in DOMAIN logs : logs[k].id = id => from <= k
    <2>1. CASE oldest[id] = END
      BY <1>1, <2>1
    <2>2. CASE oldest[id] # END
      <3>1. PICK p \in DOMAIN logs : logs[p].seq = oldest[id]
        BY <1>1, <2>2 DEF IsLive, IsFirst
      <3>2. from = p
        BY <2>2, <3>1, PlaceOf
      <3>3. ASSUME NEW k \in DOMAIN logs, logs[k].id = id, k < p PROVE FALSE
        <4>1. logs[k].seq < logs[p].seq
          BY <3>3 DEF Ascends
        <4>2. oldest[id] <= logs[k].seq
          BY <1>1, <2>2, <3>3 DEF IsFirst
        <4> QED BY <1>2, <3>1, <4>1, <4>2
      <3> QED BY <1>1, <3>2, <3>3
    <2> QED BY <2>1, <2>2
  <1> HIDE DEF from
  <1>4. \A k : k \in found <=> k \in DOMAIN logs /\ logs[k].id = id
    BY <1>1, <1>3
  <1>5. GetOldest(id) = IF found = {} THEN END ELSE logs[Min(found)].seq
    BY DEF GetOldest, from
  <1> HIDE DEF found
  <1>6. CASE found = {}
    BY <1>1, <1>4, <1>5, <1>6 DEF IsOldest, END
  <1>7. CASE found # {}
    <2> DEFINE m == Min(found)
    <2>1. m \in found /\ \A k \in found : m <= k
      <3>1. found \subseteq Nat
        BY <1>1, <1>4
      <3> QED BY <1>7, <3>1, LeastOf
    <2> HIDE DEF m
    <2>2. m \in DOMAIN logs /\ GetOldest(id) = logs[m].seq
      BY <1>4, <1>5, <1>7, <2>1 DEF m
    <2>3. ASSUME NEW e \in Listed, e.id = id PROVE logs[m].seq <= e.seq
      <3>1. PICK k \in DOMAIN logs : e = logs[k]
        BY <1>1
      <3>2. m <= k
        BY <1>4, <2>1, <2>3, <3>1
      <3>3. m = k \/ logs[m].seq < logs[k].seq
        BY <1>1, <2>2, <3>2 DEF Ascends
      <3> QED BY <1>2, <2>2, <3>1, <3>3
    <2>4. IsLive(logs[m].seq, Listed) /\ logs[m].seq # END
      BY <1>1, <1>2, <2>2 DEF IsLive, END
    <2> QED BY <1>2, <2>2, <2>3, <2>4 DEF IsOldest
  <1> QED BY <1>6, <1>7

\* Erase() takes out one element.
LEMMA EraseTakesOne ==
    ASSUME logs \in Seq(Element), Ascends(logs), NEW e \in Listed
    PROVE  /\ RemoveAt(logs, Pos(e.seq)) \in Seq(Element)
           /\ Ascends(RemoveAt(logs, Pos(e.seq)))
           /\ ToSet(RemoveAt(logs, Pos(e.seq))) = Listed \ {e}
  <1>1. /\ Len(logs) \in Nat /\ DOMAIN logs = 1 .. Len(logs)
        /\ \A k \in DOMAIN logs : logs[k] \in Element /\ logs[k] \in Listed
        /\ \A f \in Listed : \E k \in DOMAIN logs : f = logs[k]
    BY ListDomain DEF Listed
  <1>2. PICK p \in DOMAIN logs : e = logs[p]
    BY <1>1
  <1>3. Pos(e.seq) = p
    BY <1>2, PlaceOf
  <1> DEFINE n == Len(logs)
             front == SubSeq(logs, 1, p - 1)
             back == SubSeq(logs, p + 1, n)
             rest == front \o back
  <1>4. RemoveAt(logs, Pos(e.seq)) = rest
    BY <1>3 DEF RemoveAt
  <1>5. p \in 1 .. n /\ n \in Nat
    BY <1>1
  <1>6. /\ front \in Seq(Element) /\ Len(front) = p - 1
        /\ \A k \in 1 .. p - 1 : front[k] = logs[k]
    BY <1>1, <1>5, SubSeqProperties
  <1>7. /\ back \in Seq(Element) /\ Len(back) = n - p
        /\ \A k \in 1 .. n - p : back[k] = logs[p + k]
    <2>1. \A k \in p + 1 .. n : logs[k] \in Element
      BY <1>1, <1>5
    <2>2. /\ back \in Seq(Element)
          /\ Len(back) = IF p + 1 <= n THEN n - (p + 1) + 1 ELSE 0
          /\ \A k \in 1 .. n - (p + 1) + 1 : back[k] = logs[(p + 1) + k - 1]
      BY <1>5, <2>1, SubSeqProperties
    <2>3. \A k \in 1 .. n - p : k \in 1 .. n - (p + 1) + 1 /\ (p + 1) + k - 1 = p + k
      BY <1>5
    <2> QED BY <1>5, <2>2, <2>3
  <1> HIDE DEF front, back
  <1>8. /\ rest \in Seq(Element) /\ Len(rest) = n - 1
        /\ \A k \in 1 .. n - 1 : rest[k] = IF k < p THEN logs[k] ELSE logs[k + 1]
    <2>0. /\ rest \in Seq(Element) /\ Len(rest) = Len(front) + Len(back)
          /\ \A k \in 1 .. Len(front) + Len(back) :
                rest[k] = IF k <= Len(front) THEN front[k] ELSE back[k - Len(front)]
      BY <1>6, <1>7, ConcatProperties, Zenon
    <2>1. /\ rest \in Seq(Element) /\ Len(rest) = (p - 1) + (n - p)
          /\ \A k \in 1 .. (p - 1) + (n - p) : rest[k] = IF k <= p - 1 THEN front[k] ELSE back[k - (p - 1)]
      BY <1>6, <1>7, <2>0
    <2>2. ASSUME NEW k \in 1 .. n - 1 PROVE rest[k] = IF k < p THEN logs[k] ELSE logs[k + 1]
      <3>1. rest[k] = IF k <= p - 1 THEN front[k] ELSE back[k - (p - 1)]
        BY <1>5, <2>1
      <3>2. CASE k < p
        <4>1. k <= p - 1 /\ k \in 1 .. p - 1
          BY <1>5, <3>2
        <4> QED BY <1>6, <3>1, <3>2, <4>1
      <3>3. CASE ~(k < p)
        <4>1. ~(k <= p - 1) /\ k - (p - 1) \in 1 .. n - p /\ p + (k - (p - 1)) = k + 1
          BY <1>5, <3>3
        <4> QED BY <1>7, <3>1, <3>3, <4>1
      <3> QED BY <3>2, <3>3
    <2> QED BY <1>5, <2>1, <2>2
  <1> HIDE DEF rest
  <1>9. DOMAIN rest = 1 .. n - 1
    BY <1>8, ListDomain
  <1>10. Ascends(rest)
    <2> SUFFICES ASSUME NEW j \in 1 .. n - 1, NEW k \in 1 .. n - 1, j < k
                 PROVE  rest[j].seq < rest[k].seq
      BY <1>9 DEF Ascends
    <2> DEFINE at(m) == IF m < p THEN m ELSE m + 1
    <2>1. at(j) \in 1 .. n /\ at(k) \in 1 .. n /\ at(j) < at(k)
      BY <1>5
    <2>2. rest[j] = logs[at(j)] /\ rest[k] = logs[at(k)]
      BY <1>8
    <2> QED BY <1>1, <2>1, <2>2 DEF Ascends
  <1>11. ASSUME NEW f PROVE f \in ToSet(rest) <=> f \in Listed \ {e}
    <2>1. ASSUME f \in ToSet(rest) PROVE f \in Listed \ {e}
      <3>1. PICK k \in 1 .. n - 1 : f = rest[k]
        BY <1>9, <2>1 DEF ToSet
      <3>2. PICK m \in 1 .. n : f = logs[m] /\ m # p
        BY <1>5, <1>8, <3>1
      <3>3. Pos(logs[m].seq) = m
        BY <1>1, <3>2, PlaceOf
      <3> QED BY <1>1, <1>2, <1>3, <3>2, <3>3
    <2>2. ASSUME f \in Listed \ {e} PROVE f \in ToSet(rest)
      <3>1. PICK m \in 1 .. n : f = logs[m]
        BY <1>1, <2>2
      <3>2. m # p
        BY <1>2, <2>2, <3>1
      <3>3. PICK k \in 1 .. n - 1 : m = IF k < p THEN k ELSE k + 1
        <4>1. CASE m < p
          BY <1>5, <4>1
        <4>2. CASE m > p
          <5>1. m - 1 \in 1 .. n - 1 /\ ~(m - 1 < p) /\ m = (m - 1) + 1
            BY <1>5, <4>2
          <5> QED BY <5>1
        <4> QED BY <1>5, <3>2, <4>1, <4>2
      <3> QED BY <1>8, <1>9, <3>1, <3>3 DEF ToSet
    <2> QED BY <2>1, <2>2
  <1> QED BY <1>4, <1>8, <1>10, <1>11

\* LogInternal() puts a message behind all others.
LEMMA AppendAddsOne ==
    ASSUME logs \in Seq(Element), Ascends(logs), NEW e \in Element,
           \A f \in Listed : f.seq < e.seq
    PROVE  /\ Append(logs, e) \in Seq(Element)
           /\ Ascends(Append(logs, e))
           /\ ToSet(Append(logs, e)) = Listed \cup {e}
  <1> DEFINE n == Len(logs)
             more == Append(logs, e)
  <1>1. /\ n \in Nat /\ DOMAIN logs = 1 .. n
        /\ \A k \in DOMAIN logs : logs[k] \in Element /\ logs[k] \in Listed
        /\ \A f \in Listed : \E k \in DOMAIN logs : f = logs[k]
    BY ListDomain DEF Listed
  <1>2. /\ more \in Seq(Element) /\ Len(more) = n + 1
        /\ \A k \in 1 .. n : more[k] = logs[k]
        /\ more[n + 1] = e
    BY AppendProperties
  <1>3. DOMAIN more = 1 .. n + 1
    BY <1>2, ListDomain
  <1> HIDE DEF more
  <1>4. Ascends(more)
    <2> SUFFICES ASSUME NEW j \in 1 .. n + 1, NEW k \in 1 .. n + 1, j < k
                 PROVE  more[j].seq < more[k].seq
      BY <1>3 DEF Ascends
    <2>1. j \in 1 .. n /\ (k \in 1 .. n \/ k = n + 1)
      BY <1>1
    <2> QED BY <1>1, <1>2, <2>1 DEF Ascends
  <1>5. ASSUME NEW f PROVE f \in ToSet(more) <=> f \in Listed \cup {e}
    <2>1. f \in ToSet(more) <=> \E k \in 1 .. n + 1 : f = more[k]
      BY <1>3 DEF ToSet
    <2>2. f \in Listed <=> \E k \in 1 .. n : f = logs[k]
      BY <1>1
    <2>3. \A k : k \in 1 .. n + 1 <=> k \in 1 .. n \/ k = n + 1
      BY <1>1
    <2> QED BY <1>2, <2>1, <2>2, <2>3
  <1> QED BY <1>2, <1>4, <1>5 DEF more

\* The elements of a log can be counted by their places.
LEMMA CountByPlace ==
    ASSUME NEW list \in Seq(Element), Ascends(list), NEW i
    PROVE  /\ IsFiniteSet({e \in ToSet(list) : e.id = i})
           /\ Cardinality({k \in DOMAIN list : list[k].id = i})
                = Cardinality({e \in ToSet(list) : e.id = i})
  <1> DEFINE places == {k \in DOMAIN list : list[k].id = i}
             those == {e \in ToSet(list) : e.id = i}
             f == [k \in places |-> list[k]]
  <1>1. /\ Len(list) \in Nat /\ DOMAIN list = 1 .. Len(list)
        /\ \A k \in DOMAIN list : list[k] \in Element /\ list[k] \in ToSet(list)
        /\ \A e \in ToSet(list) : \E k \in DOMAIN list : e = list[k]
    BY ListDomain
  <1>2. IsFiniteSet(places)
    <2>1. IsFiniteSet(1 .. Len(list))
      BY <1>1, FS_Interval
    <2>2. places \subseteq 1 .. Len(list)
      BY <1>1
    <2> QED BY <2>1, <2>2, FS_Subset
  <1>3. f \in Bijection(places, those)
    <2>1. f \in [places -> those]
      BY <1>1
    <2>2. ASSUME NEW j \in places, NEW k \in places, f[j] = f[k] PROVE j = k
      <3>1. list[j] = list[k] /\ list[j].seq \in Nat
        BY <1>1, <2>2 DEF Element
      <3>2. ~(list[j].seq < list[k].seq) /\ ~(list[k].seq < list[j].seq)
        BY <3>1
      <3>3. ~(j < k) /\ ~(k < j)
        BY <3>2 DEF Ascends
      <3> QED BY <1>1, <3>3
    <2>3. ASSUME NEW e \in those PROVE \E k \in places : f[k] = e
      BY <1>1
    <2>4. f \in Injection(places, those)
      BY <2>1, <2>2 DEF Injection, IsInjective
    <2>5. f \in Surjection(places, those)
      BY <2>1, <2>3 DEF Surjection
    <2> QED BY <2>4, <2>5 DEF Bijection
  <1>4. ExistsBijection(places, those)
    BY <1>3 DEF ExistsBijection
  <1> HIDE DEF places, those
  <1>5. IsFiniteSet(those) /\ Cardinality(those) = Cardinality(places)
    BY <1>2, <1>4, FS_Bijection
  <1> QED BY <1>5 DEF places, those

-----------------------------------------------------------------------------
(***************************************************************************)
(* The statistics                                                           *)
(***************************************************************************)

LEMMA WrapIsNumber ==
    ASSUME SimpleConstants, NEW n \in Int
    PROVE  Wrap(n) \in Int
  BY DEF SimpleConstants, Wrap

LEMMA CountersOf ==
    ASSUME NEW t, NEW s \in Statistics(t)
    PROVE  /\ s.table = t /\ CountersAreNumbers(s)
           /\ s.sizes \in Counters /\ s.elements \in Counters /\ s.droppedElements \in Counters
           /\ s.sizesTotal \in Counters /\ s.elementsTotal \in Counters /\ s.oldest \in Counters
           /\ s.newest \in Counters /\ s.newestDropped \in Counters
  <1>1. s.table = t
    BY DEF Statistics
  <1>2. CountersAreNumbers(s)
    BY <1>1 DEF CountersAreNumbers
  <1> QED BY <1>1, <1>2 DEF Statistics

LEMMA CounterSet ==
    ASSUME NEW f \in Counters, NEW i \in Logs, NEW n \in Int
    PROVE  [f EXCEPT ![i] = n] \in Counters /\ f[i] \in Int
  BY DEF Counters

\* What Stamped() does to the times
LEMMA StampedCounts ==
    ASSUME NEW t, NEW s \in Statistics(t), NEW e, e.id \in Logs, e.time \in Int
    PROVE  Stamped(s, e) \in Statistics(t) /\ Stamped(s, e).elements = s.elements
  <1> DEFINE diff == e.time - s.newest[e.id]
             moved == Clamped(diff + s.oldest[e.id], e.time)
             newest == [s.newest EXCEPT ![e.id] = e.time]
             moved_oldest == [s.oldest EXCEPT ![e.id] = moved]
             dropped == [s.newestDropped EXCEPT ![e.id] = IF @ < moved THEN moved ELSE @]
             later == [s EXCEPT !.newest = newest]
             much == [later EXCEPT !.oldest = moved_oldest, !.newestDropped = dropped]
  <1>1. s.newest \in Counters /\ s.oldest \in Counters /\ s.newestDropped \in Counters
    BY CountersOf
  <1>2. s.newest[e.id] \in Int /\ s.oldest[e.id] \in Int /\ s.newestDropped[e.id] \in Int
    BY <1>1, CounterSet
  <1>3. moved \in Int
    BY <1>2 DEF Clamped
  <1>4. newest \in Counters
    BY <1>1, CounterSet
  <1>5. moved_oldest \in Counters
    BY <1>1, <1>3, CounterSet
  <1>6. dropped \in Counters
    BY <1>1, <1>2, <1>3, CounterSet
  <1>7. Stamped(s, e) \in {s, later, much}
    <2>1. [s EXCEPT !.newest[e.id] = e.time] = later
      BY DEF Statistics
    <2>2. later.oldest = s.oldest /\ later.newestDropped = s.newestDropped
      BY DEF Statistics
    <2>3. [later EXCEPT !.oldest[e.id] = moved, !.newestDropped[e.id] = IF @ < moved THEN moved ELSE @]
            = much
      BY <2>2
    <2> QED BY <2>1, <2>3 DEF Stamped
  <1> HIDE DEF newest, moved_oldest, dropped
  <1>8. later \in Statistics(t) /\ later.elements = s.elements
    BY <1>4 DEF Statistics
  <1> HIDE DEF later
  <1>9. much \in Statistics(t) /\ much.elements = later.elements
    BY <1>5, <1>6, <1>8 DEF Statistics
  <1> QED BY <1>7, <1>8, <1>9

\* Add() counts one element more of its log.
LEMMA AddCounts ==
    ASSUME SimpleConstants, NEW s, CountersAreNumbers(s), NEW e \in Element
    PROVE  /\ CountersAreNumbers(Add(s, ToLogStatisticsElement(e)))
           /\ Add(s, ToLogStatisticsElement(e)).elements = [s.elements EXCEPT ![e.id] = @ + 1]
  <1> DEFINE x == Tracked(ToLogStatisticsElement(e))
             sizes == [s.sizes EXCEPT ![x.id] = Wrap(@ + x.total_len)]
             elements == [s.elements EXCEPT ![x.id] = @ + 1]
             table == TableAdd(s.table, Keys(x) \cup TagNameKeys(x), x)
             c == [s EXCEPT !.sizes = sizes, !.elements = elements, !.table = table]
             chatty == [c.droppedElements EXCEPT ![x.id] = @ + 1]
             sizesTotal == [c.sizesTotal EXCEPT ![x.id] = @ + x.total_len]
             elementsTotal == [c.elementsTotal EXCEPT ![x.id] = @ + 1]
             d == IF x.dropped > 0 THEN [c EXCEPT !.droppedElements = chatty]
                  ELSE [c EXCEPT !.sizesTotal = sizesTotal, !.elementsTotal = elementsTotal]
  <1>1. x.id = e.id /\ e.id \in Logs /\ x.total_len \in Int /\ x.time \in Int
    BY DEF SimpleConstants, Element, Tracked, ToLogStatisticsElement, msg_len
  <1>2. s \in Statistics(s.table) /\ s.sizes \in Counters /\ s.elements \in Counters
    BY CountersOf DEF CountersAreNumbers
  <1>3. Add(s, ToLogStatisticsElement(e)) = Stamped(d, x)
    <2>1. c = [s EXCEPT !.sizes[x.id] = Wrap(@ + x.total_len), !.elements[x.id] = @ + 1,
                        !.table = TableAdd(@, Keys(x) \cup TagNameKeys(x), x)]
      BY <1>2 DEF Statistics
    <2> HIDE DEF x
    <2>2. AddTotal(c, x.id, x.total_len)
            = [c EXCEPT !.sizesTotal = sizesTotal, !.elementsTotal = elementsTotal]
      BY DEF AddTotal
    <2>3. [c EXCEPT !.droppedElements[x.id] = @ + 1] = [c EXCEPT !.droppedElements = chatty]
      OBVIOUS
    <2> HIDE DEF c
    <2> QED BY <2>1, <2>2, <2>3 DEF Add, x
  <1> HIDE DEF x
  <1>4. sizes \in Counters
    <2>1. s.sizes[x.id] \in Int
      BY <1>1, <1>2, CounterSet
    <2>2. Wrap(s.sizes[x.id] + x.total_len) \in Int
      BY <1>1, <2>1, WrapIsNumber
    <2> QED BY <1>1, <1>2, <2>2, CounterSet
  <1>5. elements \in Counters
    <2>1. s.elements[x.id] \in Int
      BY <1>1, <1>2, CounterSet
    <2> QED BY <1>1, <1>2, <2>1, CounterSet
  <1> HIDE DEF sizes, elements, table
  <1>6. c \in Statistics(table) /\ c.elements = elements
    BY <1>2, <1>4, <1>5 DEF Statistics
  <1> HIDE DEF c
  <1>7. /\ c.droppedElements \in Counters /\ c.sizesTotal \in Counters
        /\ c.elementsTotal \in Counters
    BY <1>6, CountersOf
  <1>8. chatty \in Counters /\ sizesTotal \in Counters /\ elementsTotal \in Counters
    <2>1. /\ c.droppedElements[x.id] \in Int /\ c.sizesTotal[x.id] \in Int
          /\ c.elementsTotal[x.id] \in Int
      BY <1>1, <1>7, CounterSet
    <2> QED BY <1>1, <1>7, <2>1, CounterSet
  <1> HIDE DEF chatty, sizesTotal, elementsTotal
  <1>9. d \in Statistics(table) /\ d.elements = elements
    BY <1>6, <1>8 DEF Statistics
  <1> HIDE DEF d
  <1>10. Stamped(d, x) \in Statistics(table) /\ Stamped(d, x).elements = elements
    BY <1>1, <1>9, StampedCounts
  <1> QED BY <1>1, <1>3, <1>10, CountersOf DEF elements

\* Subtract() counts one less.
LEMMA SubtractCounts ==
    ASSUME SimpleConstants, NEW s, CountersAreNumbers(s), NEW e \in Element
    PROVE  /\ CountersAreNumbers(Subtract(s, ToLogStatisticsElement(e)))
           /\ Subtract(s, ToLogStatisticsElement(e)).elements = [s.elements EXCEPT ![e.id] = @ - 1]
  <1> DEFINE x == Tracked(ToLogStatisticsElement(e))
             sizes == [s.sizes EXCEPT ![x.id] = Wrap(@ - x.total_len)]
             elements == [s.elements EXCEPT ![x.id] = @ - 1]
             chatty == [s.droppedElements EXCEPT ![x.id] = IF x.dropped > 0 THEN @ - 1 ELSE @]
             first == [s.oldest EXCEPT ![x.id] = IF @ < x.time THEN x.time ELSE @]
             table == TableSubtract(s.table, Keys(x) \cup TagNameKeys(x), x)
             d == [s EXCEPT !.sizes = sizes, !.elements = elements, !.droppedElements = chatty,
                            !.oldest = first, !.table = table]
  <1>1. x.id = e.id /\ e.id \in Logs /\ x.total_len \in Int /\ x.time \in Int
    BY DEF SimpleConstants, Element, Tracked, ToLogStatisticsElement, msg_len
  <1>2. /\ s \in Statistics(s.table) /\ s.sizes \in Counters /\ s.elements \in Counters
        /\ s.droppedElements \in Counters /\ s.oldest \in Counters
    BY CountersOf DEF CountersAreNumbers
  <1>3. Subtract(s, ToLogStatisticsElement(e)) = d
    <2> HIDE DEF x
    <2>1. d = [s EXCEPT !.sizes[x.id] = Wrap(@ - x.total_len), !.elements[x.id] = @ - 1,
                        !.droppedElements[x.id] = IF x.dropped > 0 THEN @ - 1 ELSE @,
                        !.oldest[x.id] = IF @ < x.time THEN x.time ELSE @,
                        !.table = TableSubtract(@, Keys(x) \cup TagNameKeys(x), x)]
      OBVIOUS
    <2> HIDE DEF d
    <2> QED BY <2>1 DEF Subtract, x
  <1> HIDE DEF x
  <1>4. /\ s.sizes[x.id] \in Int /\ s.elements[x.id] \in Int
        /\ s.droppedElements[x.id] \in Int /\ s.oldest[x.id] \in Int
    BY <1>1, <1>2, CounterSet
  <1>5. sizes \in Counters
    <2>1. Wrap(s.sizes[x.id] - x.total_len) \in Int
      BY <1>1, <1>4, WrapIsNumber
    <2> QED BY <1>1, <1>2, <2>1, CounterSet
  <1>6. elements \in Counters
    BY <1>1, <1>2, <1>4, CounterSet
  <1>7. chatty \in Counters
    BY <1>1, <1>2, <1>4, CounterSet
  <1>8. first \in Counters
    BY <1>1, <1>2, <1>4, CounterSet
  <1> HIDE DEF sizes, elements, chatty, first, table
  <1>9. d \in Statistics(table) /\ d.elements = elements
    BY <1>2, <1>5, <1>6, <1>7, <1>8 DEF Statistics
  <1> QED BY <1>1, <1>3, <1>9, CountersOf DEF elements

LEMMA LimitIsNumber ==
    ASSUME NEW a \in Int, NEW b \in Int
    PROVE  Min({a, b}) \in Int /\ Max({a, b}) \in Int
  <1>1. \E x \in {a, b} : \A y \in {a, b} : x <= y
    BY SMT
  <1>2. \E x \in {a, b} : \A y \in {a, b} : x >= y
    BY SMT
  <1>3. Min({a, b}) \in {a, b}
    BY <1>1, Zenon DEF Min
  <1>4. Max({a, b}) \in {a, b}
    BY <1>2, Zenon DEF Max
  <1> QED BY <1>3, <1>4

LEMMA PruneRowsIsNumber ==
    ASSUME SimpleConstants, NEW s, CountersAreNumbers(s), NEW id \in Logs, NEW size \in Nat
    PROVE  PruneRows(s, id, size) \in Int
  <1> DEFINE sizes == s.sizes[id]
             size_over == sizes - (size * 9) \div 10
             elements == s.elements[id] - s.droppedElements[id]
             least == Max({elements \div 100, KMinPrune})
             over == (elements * size_over) \div sizes
  <1>1. sizes \in Int /\ elements \in Int
    BY DEF CountersAreNumbers, Statistics, Counters
  <1>2. size_over \in Int
    <2>1. size * 9 \in Int
      OBVIOUS
    <2> QED BY <1>1, <2>1
  <1> HIDE DEF sizes, elements
  <1>3. KMinPrune \in Int /\ KMaxPrune \in Int
    BY DEF SimpleConstants
  <1>4. elements \div 100 \in Int
    BY <1>1
  <1>5. least \in Int
    BY <1>3, <1>4, LimitIsNumber
  <1> HIDE DEF size_over, least
  <1>6. elements * size_over \in Int
    BY <1>1, <1>2
  <1>7. PruneRows(s, id, size) = IF sizes <= size THEN 0 ELSE Between(least, over, KMaxPrune)
    BY DEF PruneRows, sizes, size_over, elements, least
  <1>8. ASSUME ~(sizes <= size) PROVE Between(least, over, KMaxPrune) \in Int
    <2>1. sizes > 0
      BY <1>1, <1>8
    <2>2. over \in Int
      BY <1>1, <1>6, <2>1
    <2> HIDE DEF over
    <2>3. Max({least, over}) \in Int
      BY <1>5, <2>2, LimitIsNumber
    <2> QED BY <1>3, <2>3, LimitIsNumber DEF Between
  <1> QED BY <1>7, <1>8

-----------------------------------------------------------------------------
(***************************************************************************)
(* Readers                                                                  *)
(***************************************************************************)

\* y is x, woken if it waits, perhaps with rows to skip or told to end.
IsKicked(x, y) ==
    /\ y \in ReaderValues
    /\ y.pc = x.pc \/ (x.pc \in {"wait", "wait_until"} /\ y.pc = "woken")
    /\ y.start = x.start /\ y.it = x.it /\ y.mask = x.mask /\ y.uid = x.uid
    /\ y.deadline = x.deadline /\ (x.release => y.release)

LEMMA TriggerKicks ==
    ASSUME NEW x \in ReaderValues
    PROVE  /\ IsKicked(x, x) /\ IsKicked(x, TriggerReader(x)) /\ IsKicked(x, Release(x))
           /\ TriggerReader(x).pc \notin {"wait", "wait_until"}
           /\ \A id \in Logs, n \in Int : IsKicked(x, TriggerSkip(x, id, n))
  <1>1. IsKicked(x, x)
    BY DEF IsKicked
  <1>2. ASSUME NEW z \in ReaderValues
        PROVE  /\ TriggerReader(z) \in ReaderValues /\ IsKicked(z, TriggerReader(z))
               /\ TriggerReader(z).pc \notin {"wait", "wait_until"}
    <2> DEFINE pc == IF z.pc \in {"wait", "wait_until"} THEN "woken" ELSE z.pc
    <2>1. TriggerReader(z) = [z EXCEPT !.pc = pc]
      BY DEF TriggerReader
    <2>2. pc \in ReaderPcs /\ pc \notin {"wait", "wait_until"}
          /\ (pc = z.pc \/ (z.pc \in {"wait", "wait_until"} /\ pc = "woken"))
      BY DEF ReaderValues, ReaderPcs
    <2> HIDE DEF pc
    <2> QED BY <2>1, <2>2 DEF IsKicked, ReaderValues
  <1>3. IsKicked(x, Release(x))
    <2> DEFINE z == [x EXCEPT !.release = TRUE]
    <2>1. /\ z \in ReaderValues /\ z.release /\ z.pc = x.pc /\ z.start = x.start /\ z.it = x.it
          /\ z.mask = x.mask /\ z.uid = x.uid /\ z.deadline = x.deadline
      BY DEF ReaderValues
    <2>2. Release(x) = TriggerReader(z)
      BY DEF Release
    <2> HIDE DEF z
    <2> QED BY <1>2, <2>1, <2>2 DEF IsKicked
  <1>4. ASSUME NEW id \in Logs, NEW n \in Int PROVE IsKicked(x, TriggerSkip(x, id, n))
    <2> DEFINE skip == [x.skip EXCEPT ![id] = n]
    <2>1. skip \in [Logs -> Int]
      BY DEF ReaderValues
    <2>2. TriggerSkip(x, id, n) = [x EXCEPT !.skip = skip]
      BY DEF TriggerSkip
    <2> HIDE DEF skip
    <2> QED BY <2>1, <2>2 DEF IsKicked, ReaderValues
  <1> QED BY <1>1, <1>2, <1>3, <1>4

LEMMA KickedIsServed ==
    ASSUME NEW x, NEW y, NEW sent, NEW listed, NEW coming,
           x \in ReaderValues, IsKicked(x, y), IsServed(x, sent, listed, coming)
    PROVE  IsServed(y, sent, listed, coming)
  <1>1. \A e : MayRead(y, e) <=> MayRead(x, e)
    BY DEF IsKicked, MayRead
  <1>2. WritesItsStart(y, listed)
    BY <1>1 DEF IsServed, IsKicked, WritesItsStart
  <1>3. HasFlushed(y, listed)
    BY <1>1 DEF IsServed, IsKicked, HasFlushed
  <1>4. WaitsAbove(y, listed, coming)
    BY <1>1 DEF IsServed, IsKicked, WaitsAbove
  <1>5. SentInOrder(y, sent)
    BY DEF IsServed, IsKicked, SentInOrder
  <1> QED BY <1>2, <1>3, <1>4, <1>5 DEF IsServed

\* An element is erased that the reader is not writing.
LEMMA ErasedIsServed ==
    ASSUME NEW x, NEW sent, NEW listed, NEW coming, NEW e,
           IsServed(x, sent, listed, coming), x.pc # "flush", x.pc = "write" => x.it # e.seq
    PROVE  IsServed(x, sent, listed \ {e}, coming)
  BY DEF IsServed, WritesItsStart, HasFlushed, WaitsAbove, SentInOrder

\* The message that is coming comes.
LEMMA LoggedIsServed ==
    ASSUME NEW x, NEW sent, NEW listed, NEW coming,
           IsServed(x, sent, listed, coming), x.pc # "flush", coming # << >>
    PROVE  IsServed(x, sent, listed \cup {Head(coming)}, coming)
  BY DEF IsServed, WritesItsStart, HasFlushed, WaitsAbove, SentInOrder

\* A message sets out.
LEMMA ComingIsServed ==
    ASSUME NEW x, NEW sent, NEW listed, NEW coming, IsServed(x, sent, listed, << >>)
    PROVE  IsServed(x, sent, listed, coming)
  BY DEF IsServed, WritesItsStart, HasFlushed, WaitsAbove, SentInOrder

\* All are notified of the message that want it.
LEMMA NotifiedIsServed ==
    ASSUME NEW x, NEW sent, NEW listed, NEW coming, IsServed(x, sent, listed, coming),
           x.pc = "wait" => coming = << >> \/ ~MayRead(x, Head(coming)),
           NEW later
    PROVE  IsServed(x, sent, listed, later)
  BY DEF IsServed, WritesItsStart, HasFlushed, WaitsAbove, SentInOrder

-----------------------------------------------------------------------------
(***************************************************************************)
(* What steps have in common                                                *)
(***************************************************************************)

LEMMA ListFrame ==
    ASSUME ListAscends, OldestIsFirst, StatsMatchList,
           UNCHANGED <<logs, oldest, todo, sequence>>, stats'.elements = stats.elements,
           prune'.pc = "none" => prune.pc = "none" \/ todo = << >>
    PROVE  ListAscends' /\ OldestIsFirst' /\ StatsMatchList' /\ Listed' = Listed
  <1>1. Listed' = Listed
    BY DEF Listed
  <1>2. ListAscends'
    BY <1>1 DEF ListAscends
  <1>3. OldestIsFirst'
    BY <1>1 DEF OldestIsFirst
  <1>4. StatsMatchList'
    BY DEF StatsMatchList
  <1> QED BY <1>1, <1>2, <1>3, <1>4

\* While Prune() runs, readers keep their logs and their starts.
LEMMA PruneFrame ==
    ASSUME PruneRespects, UNCHANGED <<logs, prune>>, prune \in PruneValues,
           \A r \in Readers : /\ reader'[r].start = reader[r].start
                              /\ reader'[r].mask = reader[r].mask
                              /\ reader'[r].pc \in {"idle", "gone"} <=> reader[r].pc \in {"idle", "gone"}
    PROVE  PruneRespects'
  <1>1. Listed' = Listed
    BY DEF Listed
  <1>2. prune.pc = "loop" => prune.reader \in Readers \cup {NOBODY}
    BY DEF PruneValues
  <1>3. \A id : Watchers(id)' = Watchers(id)
    BY DEF Watchers, Connected, IsWatching
  <1>4. Watchers(prune.id) \subseteq Readers
    BY DEF Watchers, Connected
  <1> QED BY <1>1, <1>2, <1>3, <1>4 DEF PruneRespects

\* A reader r that has the lock, takes it or needs none moves.
LEMMA ReaderMoves ==
    ASSUME SimpleConstants, SimpleInv, UNCHANGED <<bufferVars, sequence, todo, prune, clear>>,
           NEW r \in Readers, NEW y \in ReaderValues, reader' = [reader EXCEPT ![r] = y],
           lock \in {NOBODY, r}, lock' \in {NOBODY, r}, lock' = r <=> y.pc \in {"flush", "exit"},
           delivered' \in [Readers -> Seq(Nat)],
           \A q \in Readers \ {r} : delivered'[q] = delivered[q],
           IsServed(y, delivered'[r], Listed, todo)
    PROVE  SimpleInv'
  <1>1. /\ r \notin {NOBODY, "log", "clear"} /\ NOBODY \notin {"log", "clear"}
        /\ \A q \in Readers : q \notin {NOBODY, "log", "clear"}
    BY DEF SimpleConstants, NOBODY
  <1>2. SimpleTypeOK /\ LockIsHeld /\ ListAscends /\ OldestIsFirst /\ ReadersServed /\ StatsMatchList
    BY DEF SimpleInv
  <1>3. /\ reader \in [Readers -> ReaderValues] /\ reader' \in [Readers -> ReaderValues]
        /\ reader'[r] = y /\ \A q \in Readers \ {r} : reader'[q] = reader[q]
    BY <1>2 DEF SimpleTypeOK
  <1>4. SimpleTypeOK'
    BY <1>2, <1>3 DEF SimpleTypeOK, bufferVars
  <1>5. ListAscends' /\ OldestIsFirst' /\ StatsMatchList' /\ Listed' = Listed
    BY <1>2, ListFrame DEF bufferVars
  <1>6. LockIsHeld'
    BY <1>1, <1>2, <1>3 DEF LockIsHeld
  <1>7. PruneRespects'
    BY <1>1, <1>2 DEF LockIsHeld, PruneRespects
  <1>8. ReadersServed'
    <2> SUFFICES ASSUME NEW q \in Readers PROVE IsServed(reader'[q], delivered'[q], Listed, todo)
      BY <1>5 DEF ReadersServed
    <2>1. CASE q = r
      BY <1>3, <2>1
    <2>2. CASE q # r
      BY <1>2, <1>3, <2>2 DEF ReadersServed
    <2> QED BY <2>1, <2>2
  <1> QED BY <1>4, <1>5, <1>6, <1>7, <1>8 DEF SimpleInv

\* Readers are woken or kicked, and nothing else changes but what the command counts.
LEMMA ReadersKicked ==
    ASSUME SimpleConstants, SimpleInv,
           NEW f, f \in [Readers -> ReaderValues], reader' = f,
           \A r \in Readers : IsKicked(reader[r], f[r])
    PROVE  /\ \A r \in Readers : /\ reader'[r].pc \in {"flush", "exit"} <=> reader[r].pc \in {"flush", "exit"}
                                 /\ reader'[r].pc \in {"idle", "gone"} <=> reader[r].pc \in {"idle", "gone"}
                                 /\ reader'[r].start = reader[r].start
                                 /\ reader'[r].mask = reader[r].mask
           /\ \A r \in Readers : IsServed(reader'[r], delivered[r], Listed, todo)
  <1>1. reader \in [Readers -> ReaderValues] /\ ReadersServed
    BY DEF SimpleInv, SimpleTypeOK
  <1>2. ASSUME NEW r \in Readers PROVE IsServed(f[r], delivered[r], Listed, todo)
    BY <1>1, KickedIsServed DEF ReadersServed
  <1> QED BY <1>2 DEF IsKicked

\* What becomes of prune
LEMMA PruneBecomes ==
    /\ NoPrune \in PruneValues /\ NoPrune.pc = "none"
    /\ \A result \in BOOLEAN : LET p == [NoPrune EXCEPT !.pc = "return", !.result = result]
                               IN  p \in PruneValues /\ p.pc = "return"
    /\ LET p == [NoPrune EXCEPT !.pc = "return"] IN p \in PruneValues /\ p.pc = "return"
  <1> DEFINE Short == [pc : {"none", "return"}, result : BOOLEAN]
  <1>1. NoPrune \in Short /\ NoPrune.pc = "none"
    BY DEF NoPrune
  <1>2. Short \subseteq PruneValues
    BY DEF PruneValues
  <1>3. ASSUME NEW result \in BOOLEAN
        PROVE  LET p == [NoPrune EXCEPT !.pc = "return", !.result = result]
               IN  p \in Short /\ p.pc = "return"
    BY <1>1
  <1>4. LET p == [NoPrune EXCEPT !.pc = "return"] IN p \in Short /\ p.pc = "return"
    BY <1>1
  <1> HIDE DEF Short
  <1> QED BY <1>1, <1>2, <1>3, <1>4

LEMMA NewPruneBegins ==
    ASSUME NEW id \in Logs, NEW rows \in Int, NEW uid \in Int
    PROVE  NewPrune(id, rows, uid) \in PruneValues /\ NewPrune(id, rows, uid).pc = "begin"
  BY DEF NewPrune, PruneValues

-----------------------------------------------------------------------------
(***************************************************************************)
(* Messages                                                                 *)
(***************************************************************************)

LEMMA LogPreserves ==
    ASSUME SimpleConstants, SimpleInv, NEW m \in Messages, Log(m)
    PROVE  SimpleInv'
  <1> DEFINE e == [m EXCEPT !.seq = sequence]
  <1>1. /\ lock = NOBODY /\ lock' = "log" /\ todo' = <<e>> /\ sequence' = sequence + 1
        /\ UNCHANGED <<bufferVars, reader, prune, clear, delivered>>
    BY DEF Log
  <1>2. SimpleTypeOK /\ LockIsHeld /\ ListAscends /\ OldestIsFirst /\ ReadersServed /\ StatsMatchList
    BY DEF SimpleInv
  <1>3. todo = << >> /\ prune.pc = "none" /\ \A r \in Readers : r # NOBODY /\ r # "log"
    BY <1>1, <1>2 DEF LockIsHeld, NOBODY, SimpleConstants
  <1>4. e \in Element /\ e.seq = sequence /\ sequence \in Nat \ {0}
    BY <1>2 DEF SimpleConstants, Element, SimpleTypeOK
  <1> HIDE DEF e
  <1>5. todo' # << >> /\ Head(todo') = e /\ Len(todo') = 1 /\ todo' \in Seq(Element)
    BY <1>1, <1>4
  <1>6. SimpleTypeOK'
    BY <1>1, <1>2, <1>4, <1>5 DEF SimpleTypeOK, bufferVars
  <1>7. LockIsHeld'
    BY <1>1, <1>2, <1>3, <1>5 DEF LockIsHeld, NOBODY
  <1>8. Listed' = Listed /\ logs' = logs
    BY <1>1 DEF Listed, bufferVars
  <1>9. ListAscends'
    <2>1. \A f \in Listed : f.seq \in Nat
      BY <1>2, ListDomain DEF SimpleTypeOK, Listed, Element
    <2> QED BY <1>1, <1>2, <1>4, <1>5, <1>8, <2>1 DEF ListAscends
  <1>10. OldestIsFirst' /\ StatsMatchList'
    BY <1>1, <1>2, <1>8 DEF OldestIsFirst, StatsMatchList, bufferVars
  <1>11. PruneRespects'
    BY <1>1, <1>3 DEF PruneRespects
  <1>12. ReadersServed'
    BY <1>1, <1>2, <1>3, <1>8, ComingIsServed DEF ReadersServed
  <1> QED BY <1>6, <1>7, <1>9, <1>10, <1>11, <1>12 DEF SimpleInv

LEMMA RefusePreserves ==
    ASSUME SimpleConstants, SimpleInv, NEW m \in Messages, Refuse(m)
    PROVE  SimpleInv'
  <1>1. /\ stats' = AddTotal(stats, m.id, m.len)
        /\ UNCHANGED <<logs, oldest, max_size, sequence, reader, lock, todo, prune, clear, delivered>>
    BY DEF Refuse
  <1>2. /\ SimpleTypeOK /\ LockIsHeld /\ ListAscends /\ OldestIsFirst /\ PruneRespects
        /\ ReadersServed /\ StatsMatchList
    BY DEF SimpleInv
  <1>3. CountersAreNumbers(stats') /\ stats'.elements = stats.elements
    <2> DEFINE sizesTotal == [stats.sizesTotal EXCEPT ![m.id] = @ + m.len]
               elementsTotal == [stats.elementsTotal EXCEPT ![m.id] = @ + 1]
               d == [stats EXCEPT !.sizesTotal = sizesTotal, !.elementsTotal = elementsTotal]
    <2>1. m.id \in Logs /\ m.len \in Int
      BY DEF SimpleConstants, Element
    <2>2. /\ stats \in Statistics(stats.table)
          /\ stats.sizesTotal \in Counters /\ stats.elementsTotal \in Counters
      BY <1>2, CountersOf DEF SimpleTypeOK, CountersAreNumbers
    <2>3. stats.sizesTotal[m.id] \in Int /\ stats.elementsTotal[m.id] \in Int
      BY <2>1, <2>2, CounterSet
    <2>4. sizesTotal \in Counters /\ elementsTotal \in Counters
      BY <2>1, <2>2, <2>3, CounterSet
    <2>5. stats' = d
      BY <1>1 DEF AddTotal
    <2> HIDE DEF sizesTotal, elementsTotal
    <2>6. d \in Statistics(stats.table) /\ d.elements = stats.elements
      BY <2>2, <2>4 DEF Statistics
    <2> QED BY <2>5, <2>6, CountersOf
  <1>4. SimpleTypeOK'
    BY <1>1, <1>2, <1>3 DEF SimpleTypeOK
  <1>5. LockIsHeld'
    BY <1>1, <1>2 DEF LockIsHeld
  <1>6. ListAscends' /\ OldestIsFirst' /\ StatsMatchList' /\ Listed' = Listed
    BY <1>1, <1>2, <1>3, ListFrame
  <1>7. PruneRespects'
    BY <1>1, <1>2, PruneFrame DEF SimpleTypeOK
  <1>8. ReadersServed'
    BY <1>1, <1>2, <1>6 DEF ReadersServed
  <1> QED BY <1>4, <1>5, <1>6, <1>7, <1>8 DEF SimpleInv

LEMMA LogInternalPreserves ==
    ASSUME SimpleConstants, SimpleInv, LogInternal
    PROVE  SimpleInv' /\ Listed \subseteq Listed'
  <1> DEFINE e == Head(todo)
             s == Add(stats, ToLogStatisticsElement(e))
             rows == PruneRows(s, e.id, max_size[e.id])
  <1>1. /\ lock = "log" /\ prune.pc = "none" /\ todo # << >>
        /\ logs' = Append(logs, e) /\ stats' = s
        /\ prune' = IF rows = 0 THEN [NoPrune EXCEPT !.pc = "return"] ELSE NewPrune(e.id, rows, 0)
        /\ UNCHANGED <<oldest, max_size, sequence, reader, lock, todo, clear, delivered>>
    BY DEF LogInternal
  <1>2. /\ SimpleTypeOK /\ LockIsHeld /\ ListAscends /\ OldestIsFirst /\ ReadersServed
        /\ StatsMatchList
    BY DEF SimpleInv
  <1>3. e \in Element /\ e.id \in Logs
    <2>1. todo \in Seq(Element) /\ todo # << >>
      BY <1>1, <1>2 DEF SimpleTypeOK
    <2>2. e \in Element
      BY <2>1, HeadTailProperties
    <2> QED BY <2>2 DEF Element
  <1>4. \A f \in Listed : f.seq < e.seq
    BY <1>1, <1>2 DEF ListAscends
  <1>5. CountersAreNumbers(s) /\ s.elements = [stats.elements EXCEPT ![e.id] = @ + 1]
    BY <1>2, <1>3, AddCounts DEF SimpleTypeOK
  <1>6. rows \in Int
    BY <1>2, <1>3, <1>5, PruneRowsIsNumber DEF SimpleTypeOK
  <1>7. logs' \in Seq(Element) /\ Ascends(logs') /\ Listed' = Listed \cup {e}
    BY <1>1, <1>2, <1>3, <1>4, AppendAddsOne DEF SimpleTypeOK, ListAscends, Listed
  <1> HIDE DEF e, s, rows
  <1>8. prune' \in PruneValues /\ prune'.pc \in {"begin", "return"}
    <2>1. CASE rows = 0
      BY <1>1, <2>1, PruneBecomes, Zenon
    <2>2. CASE rows # 0
      <3>1. NewPrune(e.id, rows, 0) \in PruneValues /\ NewPrune(e.id, rows, 0).pc = "begin"
        BY <1>3, <1>6, NewPruneBegins
      <3> QED BY <1>1, <2>2, <3>1
    <2> QED BY <2>1, <2>2
  <1>9. SimpleTypeOK'
    BY <1>1, <1>2, <1>5, <1>7, <1>8 DEF SimpleTypeOK
  <1>10. LockIsHeld'
    BY <1>1, <1>2, <1>8 DEF LockIsHeld
  <1>11. ListAscends'
    BY <1>1, <1>2, <1>7, <1>8 DEF ListAscends, e
  <1>12. OldestIsFirst'
    <2> SUFFICES ASSUME NEW i \in Logs PROVE IsFirst(oldest[i], i, Listed')
      BY <1>1 DEF OldestIsFirst
    <2>1. IsFirst(oldest[i], i, Listed)
      BY <1>2 DEF OldestIsFirst
    <2>2. oldest[i] # END => oldest[i] <= e.seq
      <3>1. ASSUME oldest[i] # END PROVE oldest[i] <= e.seq
        <4>1. PICK f \in Listed : f.seq = oldest[i]
          BY <2>1, <3>1 DEF IsFirst, IsLive
        <4>2. oldest[i] < e.seq /\ oldest[i] \in Nat /\ e.seq \in Nat
          BY <1>2, <1>3, <1>4, <4>1 DEF SimpleTypeOK, Element
        <4> QED BY <4>2
      <3> QED BY <3>1
    <2> QED BY <1>7, <2>1, <2>2 DEF IsFirst, IsLive
  <1>13. PruneRespects'
    BY <1>8 DEF PruneRespects
  <1>14. ReadersServed'
    <2> SUFFICES ASSUME NEW r \in Readers
                 PROVE  IsServed(reader[r], delivered[r], Listed \cup {Head(todo)}, todo)
      BY <1>1, <1>7 DEF ReadersServed, e
    <2>1. reader[r].pc # "flush"
      BY <1>1, <1>2 DEF LockIsHeld, SimpleConstants
    <2> QED BY <1>1, <1>2, <2>1, LoggedIsServed DEF ReadersServed
  <1>15. StatsMatchList'
    <2> DEFINE of(list, i) == {f \in list : f.id = i}
    <2>1. \A f \in Listed : f # e
      <3>1. \A f \in Listed : f.seq \in Nat
        BY <1>2, ListDomain DEF SimpleTypeOK, Listed, Element
      <3> QED BY <1>4, <3>1
    <2> SUFFICES ASSUME NEW i \in Logs
                 PROVE  s.elements[i] = Cardinality({k \in DOMAIN logs' : logs'[k].id = i})
      BY <1>1 DEF StatsMatchList
    <2>2. /\ IsFiniteSet(of(Listed, i))
          /\ stats.elements[i] = Cardinality(of(Listed, i))
      BY <1>2, CountByPlace DEF SimpleTypeOK, ListAscends, StatsMatchList, Listed
    <2>3. Cardinality({k \in DOMAIN logs' : logs'[k].id = i}) = Cardinality(of(Listed', i))
      BY <1>7, CountByPlace DEF Listed
    <2>4. stats.elements \in Counters
      BY <1>2, CountersOf DEF SimpleTypeOK, CountersAreNumbers
    <2>5. CASE i = e.id
      <3>1. of(Listed', i) = of(Listed, i) \cup {e}
        BY <1>7, <2>5
      <3>2. e \notin of(Listed, i)
        BY <2>1
      <3>3. Cardinality(of(Listed', i)) = Cardinality(of(Listed, i)) + 1
        BY <2>2, <3>1, <3>2, FS_AddElement
      <3> QED BY <1>5, <2>2, <2>3, <2>4, <2>5, <3>3 DEF Counters
    <2>6. CASE i # e.id
      <3>1. of(Listed', i) = of(Listed, i)
        BY <1>7, <2>6
      <3> QED BY <1>5, <2>2, <2>3, <2>4, <2>6, <3>1 DEF Counters
    <2> QED BY <2>5, <2>6
  <1> QED BY <1>7, <1>9, <1>10, <1>11, <1>12, <1>13, <1>14, <1>15 DEF SimpleInv

LEMMA NotifyPreserves ==
    ASSUME SimpleConstants, SimpleInv, Notify
    PROVE  SimpleInv'
  <1> DEFINE e == Head(todo)
             f == NotifyNewLog(e.id)
  <1>1. /\ lock = "log" /\ prune.pc = "return" /\ reader' = f /\ todo' = Tail(todo)
        /\ prune' = NoPrune /\ lock' = IF Len(todo) = 1 THEN NOBODY ELSE lock
        /\ UNCHANGED <<bufferVars, sequence, clear, delivered>>
    BY DEF Notify
  <1>2. /\ SimpleTypeOK /\ LockIsHeld /\ ListAscends /\ OldestIsFirst /\ ReadersServed
        /\ StatsMatchList
    BY DEF SimpleInv
  <1>3. todo # << >> /\ Len(todo) = 1 /\ todo' = << >> /\ lock' = NOBODY
    <2>1. todo # << >> /\ Len(todo) = 1 /\ todo \in Seq(Element)
      BY <1>1, <1>2 DEF LockIsHeld, SimpleTypeOK
    <2>2. Tail(todo) \in Seq(Element) /\ Len(Tail(todo)) = 0
      BY <2>1, HeadTailProperties
    <2> QED BY <1>1, <2>1, <2>2, EmptySeq
  <1>4. reader \in [Readers -> ReaderValues]
    BY <1>2 DEF SimpleTypeOK
  <1>5. \A r \in Readers :
          /\ IsKicked(reader[r], f[r]) /\ f[r] \in ReaderValues
          /\ f[r] = reader[r] \/ f[r].pc \notin {"wait", "wait_until"}
          /\ r \in Connected /\ IsWatching(r, e.id) /\ ~reader[r].deadline
                => f[r].pc \notin {"wait", "wait_until"}
    BY <1>4, TriggerKicks DEF NotifyNewLog, IsKicked
  <1>6. f \in [Readers -> ReaderValues]
    BY <1>4, TriggerKicks DEF NotifyNewLog, IsKicked
  <1>7. /\ \A r \in Readers : reader'[r].pc \in {"flush", "exit"} <=> reader[r].pc \in {"flush", "exit"}
        /\ \A r \in Readers : IsServed(reader'[r], delivered[r], Listed, todo)
    <2> HIDE DEF f
    <2> QED BY <1>1, <1>5, <1>6, ReadersKicked
  <1>8. SimpleTypeOK'
    <2>1. prune' \in PruneValues /\ todo' \in Seq(Element)
      <3>1. << >> \in Seq(Element)
        OBVIOUS
      <3> QED BY <1>1, <1>3, <3>1, PruneBecomes, Zenon
    <2> QED BY <1>1, <1>2, <1>3, <1>6, <2>1 DEF SimpleTypeOK, bufferVars
  <1>9. LockIsHeld'
    <2>1. \A r \in Readers : r \notin {NOBODY, "log", "clear"}
      BY DEF SimpleConstants
    <2> QED BY <1>1, <1>2, <1>3, <1>7, <2>1 DEF LockIsHeld, NoPrune, NOBODY
  <1>10. Listed' = Listed
    BY <1>1 DEF Listed, bufferVars
  <1>11. ListAscends'
    BY <1>1, <1>2, <1>3, <1>10 DEF ListAscends, bufferVars
  <1>12. OldestIsFirst' /\ StatsMatchList'
    BY <1>1, <1>2, <1>10 DEF OldestIsFirst, StatsMatchList, bufferVars
  <1>13. PruneRespects'
    BY <1>1 DEF PruneRespects, NoPrune
  <1>14. ReadersServed'
    <2> SUFFICES ASSUME NEW r \in Readers PROVE IsServed(f[r], delivered[r], Listed, << >>)
      BY <1>1, <1>3, <1>10 DEF ReadersServed
    <2>1. f[r].pc = "wait" => ~MayRead(f[r], e)
      <3> SUFFICES ASSUME f[r].pc = "wait", MayRead(f[r], e) PROVE FALSE
        OBVIOUS
      <3>1. f[r] = reader[r]
        BY <1>5
      <3>2. reader[r].pc = "wait" /\ e.id \in reader[r].mask
        BY <3>1 DEF MayRead
      <3>3. ~reader[r].deadline
        BY <1>2, <3>2 DEF ReadersServed, IsServed, WaitsAbove
      <3>4. r \in Connected /\ IsWatching(r, e.id)
        BY <3>2 DEF Connected, IsWatching
      <3> QED BY <1>5, <3>3, <3>4
    <2> HIDE DEF f
    <2> QED BY <1>1, <1>7, <2>1, NotifiedIsServed
  <1> QED BY <1>8, <1>9, <1>11, <1>12, <1>13, <1>14 DEF SimpleInv

-----------------------------------------------------------------------------
(***************************************************************************)
(* Pruning                                                                  *)
(***************************************************************************)

\* The reader that is found
LEMMA OldestReaderIsOldest ==
    ASSUME reader \in [Readers -> ReaderValues], NEW id \in Logs, NEW r \in OldestReaders(id)
    PROVE  /\ r \in Readers \cup {NOBODY}
           /\ r = NOBODY => Watchers(id) = {} \/ NOBODY \in Readers
           /\ r # NOBODY => \A q \in Watchers(id) : reader[r].start <= reader[q].start
  <1> DEFINE back == {q \in Watchers(id) : \A p \in Watchers(id) : reader[q].start <= reader[p].start}
             due == {q \in back : reader[q].deadline}
  <1>1. OldestReaders(id) = IF Watchers(id) = {} THEN {NOBODY} ELSE IF due = {} THEN back ELSE due
    BY DEF OldestReaders, Watchers
  <1>2. Watchers(id) \subseteq Readers
    BY DEF Watchers, Connected
  <1> QED BY <1>1, <1>2

LEMMA PruneBeginPreserves ==
    ASSUME SimpleConstants, SimpleInv, PruneBegin
    PROVE  SimpleInv'
  <1>1. /\ prune.pc = "begin" /\ oldest' = OldestFound(prune.id)
        /\ UNCHANGED <<logs, stats, max_size, sequence, reader, lock, todo, clear, delivered>>
    BY DEF PruneBegin
  <1>2. PICK r \in OldestReaders(prune.id) :
          prune' = [pc |-> "loop", id |-> prune.id, rows |-> prune.rows, uid |-> prune.uid,
                    result |-> FALSE, reader |-> r, it |-> GetOldest(prune.id)]
    BY DEF PruneBegin
  <1>3. /\ SimpleTypeOK /\ LockIsHeld /\ ListAscends /\ OldestIsFirst /\ ReadersServed
        /\ StatsMatchList
    BY DEF SimpleInv
  <1>4. prune.id \in Logs /\ prune.rows \in Int /\ prune.uid \in Int
    BY <1>1, <1>3 DEF SimpleTypeOK, PruneValues
  <1> DEFINE id == prune.id
             it == GetOldest(id)
  <1>5. it \in Nat /\ IsOldest(it, id)
    <2>1. logs \in Seq(Element) /\ Ascends(logs) /\ \A e \in Listed : 0 < e.seq
      BY <1>3 DEF SimpleTypeOK, ListAscends
    <2>2. oldest[id] \in Nat /\ IsFirst(oldest[id], id, Listed)
      BY <1>3, <1>4 DEF SimpleTypeOK, OldestIsFirst
    <2> QED BY <1>4, <2>1, <2>2, GetOldestIsOldest
  <1>6. oldest' = [oldest EXCEPT ![id] = IF it = END THEN @ ELSE it]
    BY <1>1 DEF OldestFound
  <1> HIDE DEF it
  <1>7. /\ r \in Readers \cup {NOBODY}
        /\ r = NOBODY => Watchers(id) = {}
        /\ r # NOBODY => \A q \in Watchers(id) : reader[r].start <= reader[q].start
    BY <1>2, <1>3, <1>4, OldestReaderIsOldest DEF SimpleTypeOK, SimpleConstants
  <1>8. /\ prune' \in PruneValues /\ prune'.pc = "loop" /\ prune'.id = id /\ prune'.it = it
        /\ prune'.reader = r
    BY <1>2, <1>4, <1>5, <1>7 DEF PruneValues, it
  <1>9. oldest' \in [Logs -> Nat]
    BY <1>3, <1>4, <1>5, <1>6 DEF SimpleTypeOK
  <1>10. SimpleTypeOK'
    BY <1>1, <1>3, <1>8, <1>9 DEF SimpleTypeOK
  <1>11. LockIsHeld'
    BY <1>1, <1>3, <1>8 DEF LockIsHeld
  <1>12. Listed' = Listed
    BY <1>1 DEF Listed
  <1>13. ListAscends'
    BY <1>1, <1>3, <1>8, <1>12 DEF ListAscends
  <1>14. OldestIsFirst'
    <2> SUFFICES ASSUME NEW i \in Logs PROVE IsFirst(oldest'[i], i, Listed)
      BY <1>12 DEF OldestIsFirst
    <2>1. IsFirst(oldest[i], i, Listed)
      BY <1>3 DEF OldestIsFirst
    <2>2. oldest'[i] = oldest[i] \/ (i = id /\ oldest'[i] = it)
      BY <1>3, <1>6 DEF SimpleTypeOK
    <2> QED BY <1>5, <2>1, <2>2 DEF IsOldest, IsFirst
  <1>15. PruneRespects'
    <2>1. Watchers(id)' = Watchers(id)
      BY <1>1, <1>8 DEF Watchers, Connected, IsWatching
    <2>2. IsLive(it, Listed)
      BY <1>5 DEF IsOldest, IsLive
    <2> QED BY <1>1, <1>7, <1>8, <1>12, <2>1, <2>2 DEF PruneRespects, Watchers, Connected, IsWatching
  <1>16. ReadersServed' /\ StatsMatchList'
    BY <1>1, <1>3, <1>12 DEF ReadersServed, StatsMatchList
  <1> QED BY <1>10, <1>11, <1>13, <1>14, <1>15, <1>16 DEF SimpleInv

\* Prune() returns, or goes on: what that does to the parts that do not depend on the list
LEMMA PruneGoesOn ==
    ASSUME SimpleConstants, SimpleInv, prune.pc = "loop",
           UNCHANGED <<logs, oldest, stats, max_size, sequence, lock, todo, clear, delivered>>,
           prune' \in PruneValues, prune'.pc \in {"loop", "return"},
           reader' \in [Readers -> ReaderValues], \A r \in Readers : IsKicked(reader[r], reader'[r]),
           prune'.pc = "loop" => /\ reader' = reader /\ IsLive(prune'.it, Listed)
                                 /\ prune'.id = prune.id /\ prune'.reader = prune.reader
    PROVE  SimpleInv'
  <1>1. /\ SimpleTypeOK /\ LockIsHeld /\ ListAscends /\ OldestIsFirst /\ PruneRespects
        /\ ReadersServed /\ StatsMatchList
    BY DEF SimpleInv
  <1>2. /\ \A r \in Readers : reader'[r].pc \in {"flush", "exit"} <=> reader[r].pc \in {"flush", "exit"}
        /\ \A r \in Readers : IsServed(reader'[r], delivered[r], Listed, todo)
    BY ReadersKicked
  <1>3. SimpleTypeOK'
    BY <1>1 DEF SimpleTypeOK
  <1>4. LockIsHeld'
    BY <1>1, <1>2 DEF LockIsHeld
  <1>5. ListAscends' /\ OldestIsFirst' /\ StatsMatchList' /\ Listed' = Listed
    BY <1>1, ListFrame
  <1>6. PruneRespects'
    <2> SUFFICES ASSUME prune'.pc = "loop" PROVE PruneRespects'
      BY DEF PruneRespects
    <2>1. Watchers(prune.id)' = Watchers(prune.id)
      BY DEF Watchers, Connected, IsWatching
    <2> QED BY <1>1, <1>5, <2>1 DEF PruneRespects, Watchers, Connected, IsWatching
  <1>7. ReadersServed'
    BY <1>2, <1>5 DEF ReadersServed
  <1> QED BY <1>3, <1>4, <1>5, <1>6, <1>7 DEF SimpleInv

\* The element that is erased is one no reader needs: the promise FlushTo() relies on.
LEMMA ErasedIsUnread ==
    ASSUME SimpleConstants, SimpleInv, prune.pc = "loop", NEW e \in Listed,
           e.id = prune.id, ~Blocks(prune.reader, e)
    PROVE  \A r \in Readers : /\ reader[r].pc # "flush"
                              /\ reader[r].pc = "write" => reader[r].it # e.seq
  <1>1. SimpleTypeOK /\ LockIsHeld /\ PruneRespects /\ ReadersServed
    BY DEF SimpleInv
  <1> SUFFICES ASSUME NEW r \in Readers
               PROVE  reader[r].pc # "flush" /\ (reader[r].pc = "write" => reader[r].it # e.seq)
    OBVIOUS
  <1>2. reader[r].pc # "flush"
    BY <1>1 DEF LockIsHeld, SimpleConstants
  <1>3. ASSUME reader[r].pc = "write", reader[r].it = e.seq PROVE FALSE
    <2>1. /\ reader[r].start = e.seq
          /\ \E f \in Listed : f.seq = e.seq /\ MayRead(reader[r], f)
      BY <1>1, <1>3 DEF ReadersServed, IsServed, WritesItsStart
    <2>2. PICK f \in Listed : f.seq = e.seq /\ MayRead(reader[r], f)
      BY <2>1
    <2>3. f = e
      <3>1. logs \in Seq(Element) /\ Ascends(logs)
        BY DEF SimpleInv, SimpleTypeOK, ListAscends
      <3>2. PICK j \in DOMAIN logs : f = logs[j]
        BY <3>1, ListDomain DEF Listed
      <3>3. PICK k \in DOMAIN logs : e = logs[k]
        BY <3>1, ListDomain DEF Listed
      <3>4. Pos(logs[j].seq) = j /\ Pos(logs[k].seq) = k
        BY <3>1, PlaceOf
      <3> QED BY <2>2, <3>2, <3>3, <3>4
    <2>4. r \in Watchers(prune.id)
      BY <1>3, <2>2, <2>3 DEF Watchers, Connected, IsWatching, MayRead
    <2>5. prune.reader # NOBODY /\ reader[prune.reader].start <= reader[r].start
      BY <1>1, <2>4 DEF PruneRespects
    <2> QED BY <2>1, <2>5 DEF Blocks
  <1> QED BY <1>2, <1>3

\* What Erase() leaves
LEMMA EraseKeeps ==
    ASSUME SimpleConstants, SimpleInv, prune.pc = "loop", NEW e \in Listed,
           prune.it = e.seq, e.id = prune.id, ~Blocks(prune.reader, e),
           Erase(prune.it), stats' = Forget(e),
           UNCHANGED <<max_size, sequence, reader, lock, todo, clear, delivered>>,
           prune' \in PruneValues, prune'.pc \in {"loop", "return"},
           prune'.pc = "loop" => /\ prune'.it = After(prune.it)
                                 /\ prune'.id = prune.id /\ prune'.reader = prune.reader
    PROVE  SimpleInv' /\ Listed' = Listed \ {e}
  <1> DEFINE next == After(e.seq)
  <1>1. /\ SimpleTypeOK /\ LockIsHeld /\ ListAscends /\ OldestIsFirst /\ PruneRespects
        /\ ReadersServed /\ StatsMatchList
    BY DEF SimpleInv
  <1>2. logs \in Seq(Element) /\ Ascends(logs) /\ \A f \in Listed : 0 < f.seq
    BY <1>1 DEF SimpleTypeOK, ListAscends
  <1>3. logs' \in Seq(Element) /\ Ascends(logs') /\ Listed' = Listed \ {e}
    BY <1>2, EraseTakesOne DEF Erase, Listed
  <1>4. /\ e \in Element /\ e.id \in Logs /\ e.seq \in Nat
        /\ \A f \in Listed : f.seq \in Nat
    <2>1. \A f \in Listed : f \in Element
      BY <1>2, ListDomain DEF Listed
    <2> QED BY <2>1 DEF Element
  <1>5. next \in Nat /\ IsFirstFrom(next, e.seq + 1)
    BY <1>2, AfterIsNext
  <1>6. oldest' = [i \in Logs |-> IF oldest[i] = e.seq THEN next ELSE oldest[i]]
    BY DEF Erase, OldestErased
  <1> HIDE DEF next
  <1>7. IsLive(next, Listed')
    <2>1. next = END \/ (e.seq + 1 <= next /\ \E f \in Listed : f.seq = next)
      BY <1>5 DEF IsFirstFrom, IsLive
    <2> QED BY <1>3, <1>4, <1>5, <2>1 DEF IsLive
  <1>8. CountersAreNumbers(stats') /\ stats'.elements = [stats.elements EXCEPT ![e.id] = @ - 1]
    BY <1>1, <1>4, SubtractCounts DEF SimpleTypeOK, Forget
  <1>9. SimpleTypeOK'
    <2>1. oldest' \in [Logs -> Nat]
      BY <1>1, <1>5, <1>6 DEF SimpleTypeOK
    <2> QED BY <1>1, <1>3, <1>8, <2>1 DEF SimpleTypeOK
  <1>10. LockIsHeld'
    BY <1>1 DEF LockIsHeld
  <1>11. ListAscends'
    BY <1>1, <1>3 DEF ListAscends
  <1>12. OldestIsFirst'
    <2> SUFFICES ASSUME NEW i \in Logs PROVE IsFirst(oldest'[i], i, Listed')
      BY DEF OldestIsFirst
    <2>1. IsFirst(oldest[i], i, Listed) /\ oldest[i] \in Nat
      BY <1>1 DEF OldestIsFirst, SimpleTypeOK
    <2>2. CASE oldest[i] = e.seq
      <3>1. oldest'[i] = next
        BY <1>6, <2>2
      <3>2. ASSUME next # END, NEW f \in Listed', f.id = i PROVE next <= f.seq
        <4>1. f \in Listed /\ f # e
          BY <1>3, <3>2
        <4>2. e.seq <= f.seq
          BY <1>2, <2>1, <2>2, <3>2, <4>1 DEF IsFirst, END
        <4>3. f.seq # e.seq
          <5>1. PICK j \in DOMAIN logs : f = logs[j]
            BY <1>2, <4>1, ListDomain DEF Listed
          <5>2. PICK k \in DOMAIN logs : e = logs[k]
            BY <1>2, ListDomain DEF Listed
          <5>3. Pos(logs[j].seq) = j /\ Pos(logs[k].seq) = k
            BY <1>2, PlaceOf
          <5> QED BY <4>1, <5>1, <5>2, <5>3
        <4>4. f.seq < e.seq + 1 \/ next <= f.seq
          BY <1>5, <3>2, <4>1 DEF IsFirstFrom
        <4> QED BY <1>4, <4>1, <4>2, <4>3, <4>4
      <3> QED BY <1>7, <3>1, <3>2 DEF IsFirst
    <2>3. CASE oldest[i] # e.seq
      <3>1. oldest'[i] = oldest[i]
        BY <1>6, <2>3
      <3> QED BY <1>3, <2>1, <2>3, <3>1 DEF IsFirst, IsLive
    <2> QED BY <2>2, <2>3
  <1>13. PruneRespects'
    <2> SUFFICES ASSUME prune'.pc = "loop" PROVE PruneRespects'
      BY DEF PruneRespects
    <2>1. Watchers(prune.id)' = Watchers(prune.id)
      BY DEF Watchers, Connected, IsWatching
    <2>2. prune'.it = next
      BY DEF next
    <2> QED BY <1>1, <1>7, <2>1, <2>2 DEF PruneRespects, Watchers, Connected, IsWatching
  <1>14. ReadersServed'
    <2> SUFFICES ASSUME NEW r \in Readers
                 PROVE  IsServed(reader[r], delivered[r], Listed \ {e}, todo)
      BY <1>3 DEF ReadersServed
    <2>1. reader[r].pc # "flush" /\ (reader[r].pc = "write" => reader[r].it # e.seq)
      BY ErasedIsUnread
    <2>2. IsServed(reader[r], delivered[r], Listed, todo)
      BY <1>1 DEF ReadersServed
    <2> QED BY <2>1, <2>2, ErasedIsServed
  <1>15. StatsMatchList'
    <2> DEFINE of(list, i) == {f \in list : f.id = i}
    <2> SUFFICES ASSUME NEW i \in Logs
                 PROVE  stats'.elements[i] = Cardinality({k \in DOMAIN logs' : logs'[k].id = i})
      BY DEF StatsMatchList
    <2>1. /\ IsFiniteSet(of(Listed, i))
          /\ stats.elements[i] = Cardinality(of(Listed, i))
      <3>1. /\ IsFiniteSet(of(Listed, i))
            /\ Cardinality({k \in DOMAIN logs : logs[k].id = i}) = Cardinality(of(Listed, i))
        BY <1>2, CountByPlace DEF Listed
      <3> QED BY <1>1, <3>1, Zenon DEF StatsMatchList
    <2>2. Cardinality({k \in DOMAIN logs' : logs'[k].id = i}) = Cardinality(of(Listed', i))
      BY <1>3, CountByPlace DEF Listed
    <2>3. stats.elements \in Counters
      BY <1>1, CountersOf DEF SimpleTypeOK, CountersAreNumbers
    <2>4. CASE i = e.id
      <3>1. of(Listed', i) = of(Listed, i) \ {e}
        BY <1>3
      <3>2. e \in of(Listed, i)
        BY <2>4
      <3>3. Cardinality(of(Listed', i)) = Cardinality(of(Listed, i)) - 1
        BY <2>1, <3>1, <3>2, FS_RemoveElement
      <3> QED BY <1>8, <2>1, <2>2, <2>3, <2>4, <3>3 DEF Counters
    <2>5. CASE i # e.id
      <3>1. of(Listed', i) = of(Listed, i)
        BY <1>3, <2>5
      <3> QED BY <1>8, <2>1, <2>2, <2>3, <2>5, <3>1 DEF Counters
    <2> QED BY <2>4, <2>5
  <1> QED BY <1>3, <1>9, <1>10, <1>11, <1>12, <1>13, <1>14, <1>15 DEF SimpleInv

\* Prune() takes a step: it returns, passes an element, kicks a reader or erases.
LEMMA PruneStepPreserves ==
    ASSUME SimpleConstants, SimpleInv, PruneStep
    PROVE  /\ SimpleInv'
           /\ \/ Listed' = Listed
              \/ \E e \in Listed : /\ Listed' = Listed \ {e}
                                   /\ \A r \in Readers : reader[r].pc = "write" => reader[r].it # e.seq
  <1> DEFINE e == logs[Pos(prune.it)]
             mine == e.id = prune.id /\ (prune.uid = 0 \/ e.uid = prune.uid)
  <1>1. prune.pc = "loop" /\ UNCHANGED <<max_size, sequence, lock, todo, clear, delivered>>
    BY DEF PruneStep
  <1>2. SimpleTypeOK /\ ListAscends /\ PruneRespects
    BY DEF SimpleInv
  <1>3. /\ prune \in [pc : {"loop"}, id : Logs, rows : Int, uid : Int, result : BOOLEAN,
                      reader : Readers \cup {NOBODY}, it : Nat]
        /\ reader \in [Readers -> ReaderValues]
    BY <1>1, <1>2 DEF SimpleTypeOK, PruneValues
  <1>4. logs \in Seq(Element) /\ Ascends(logs) /\ \A f \in Listed : 0 < f.seq
    BY <1>2 DEF SimpleTypeOK, ListAscends
  <1>5. prune.it # END => /\ e \in Listed /\ e.seq = prune.it
                          /\ After(prune.it) \in Nat /\ IsLive(After(prune.it), Listed)
    <2> SUFFICES ASSUME prune.it # END PROVE /\ e \in Listed /\ e.seq = prune.it
                          /\ After(prune.it) \in Nat /\ IsLive(After(prune.it), Listed)
      OBVIOUS
    <2>1. PICK f \in Listed : f.seq = prune.it
      BY <1>1, <1>2 DEF PruneRespects, IsLive
    <2>2. PICK k \in DOMAIN logs : f = logs[k]
      BY <1>4, ListDomain DEF Listed
    <2>3. e = f
      BY <1>4, <2>1, <2>2, PlaceOf
    <2>4. After(f.seq) \in Nat /\ IsFirstFrom(After(f.seq), f.seq + 1)
      BY <1>4, AfterIsNext
    <2> QED BY <2>1, <2>3, <2>4 DEF IsFirstFrom, IsLive
  <1> HIDE DEF e
  <1>6. \A r \in Readers : IsKicked(reader[r], reader[r])
    BY <1>3, TriggerKicks
  <1>7. ASSUME NEW result \in BOOLEAN, PruneReturns(result)
        PROVE  prune' \in PruneValues /\ prune'.pc = "return"
    BY <1>7, PruneBecomes DEF PruneReturns
  <1>8. ASSUME NEW rows \in Int, prune.it # END,
               prune' = [prune EXCEPT !.it = After(@), !.rows = rows]
        PROVE  /\ prune' \in PruneValues /\ prune'.pc = "loop" /\ prune'.it = After(prune.it)
               /\ prune'.id = prune.id /\ prune'.reader = prune.reader
    BY <1>3, <1>5, <1>8 DEF PruneValues
  <1>9. ASSUME prune.it = END, PruneReturns(TRUE), UNCHANGED <<logs, oldest, stats, reader>>
        PROVE  SimpleInv' /\ Listed' = Listed
    <2>1. prune' \in PruneValues /\ prune'.pc = "return"
      BY <1>7, <1>9
    <2> QED BY <1>1, <1>3, <1>6, <1>9, <2>1, PruneGoesOn DEF Listed
  <1>10. ASSUME prune.it # END, prune' = [prune EXCEPT !.it = After(@)],
                UNCHANGED <<logs, oldest, stats, reader>>
         PROVE  SimpleInv' /\ Listed' = Listed
    <2>1. /\ prune' \in PruneValues /\ prune'.pc = "loop" /\ prune'.it = After(prune.it)
          /\ prune'.id = prune.id /\ prune'.reader = prune.reader
      BY <1>3, <1>5, <1>10 DEF PruneValues
    <2> QED BY <1>1, <1>3, <1>5, <1>6, <1>10, <2>1, PruneGoesOn DEF Listed
  <1>11. ASSUME prune.it # END, Blocks(prune.reader, e),
                KickReader(prune.reader, prune.id, prune.rows), PruneReturns(FALSE),
                UNCHANGED <<logs, oldest, stats>>
         PROVE  SimpleInv' /\ Listed' = Listed
    <2> DEFINE r == prune.reader
               y == IF Sizes(stats, prune.id) > 2 * max_size[prune.id] THEN Release(reader[r])
                    ELSE IF reader[r].deadline THEN TriggerReader(reader[r])
                    ELSE TriggerSkip(reader[r], prune.id, prune.rows)
    <2>1. r \in Readers
      BY <1>3, <1>11 DEF Blocks
    <2>2. reader' = [reader EXCEPT ![r] = y]
      BY <1>11 DEF KickReader
    <2>3. IsKicked(reader[r], y)
      BY <1>3, <2>1, TriggerKicks
    <2> HIDE DEF y
    <2>4. reader' \in [Readers -> ReaderValues] /\ \A q \in Readers : IsKicked(reader[q], reader'[q])
      BY <1>3, <1>6, <2>1, <2>2, <2>3 DEF IsKicked
    <2>5. prune' \in PruneValues /\ prune'.pc = "return"
      BY <1>7, <1>11
    <2> QED BY <1>1, <1>11, <2>4, <2>5, PruneGoesOn DEF Listed
  <1>12. ASSUME prune.it # END, mine, ~Blocks(prune.reader, e), Erase(prune.it), stats' = Forget(e),
                UNCHANGED reader,
                \/ PruneReturns(TRUE)
                \/ prune' = [prune EXCEPT !.it = After(@), !.rows = @ - 1]
         PROVE  SimpleInv' /\ Listed' = Listed \ {e}
    <2>1. /\ prune' \in PruneValues /\ prune'.pc \in {"loop", "return"}
          /\ prune'.pc = "loop" => /\ prune'.it = After(prune.it)
                                   /\ prune'.id = prune.id /\ prune'.reader = prune.reader
      <3>1. CASE PruneReturns(TRUE)
        <4>1. prune' \in PruneValues /\ prune'.pc = "return"
          BY <1>7, <3>1
        <4> QED BY <4>1
      <3>2. CASE prune' = [prune EXCEPT !.it = After(@), !.rows = @ - 1]
        <4>1. prune.rows - 1 \in Int
          BY <1>3
        <4> QED BY <1>8, <1>12, <3>2, <4>1
      <3> QED BY <1>12, <3>1, <3>2
    <2> QED BY <1>1, <1>5, <1>12, <2>1, EraseKeeps
  <1>13. ASSUME prune.it # END, mine, ~Blocks(prune.reader, e)
         PROVE  \A r \in Readers : reader[r].pc = "write" => reader[r].it # e.seq
    BY <1>1, <1>5, <1>13, ErasedIsUnread
  <1> HIDE DEF mine
  <1>14. \/ prune.it = END /\ PruneReturns(TRUE) /\ UNCHANGED <<logs, oldest, stats, reader>>
         \/ /\ prune.it # END /\ prune' = [prune EXCEPT !.it = After(@)]
            /\ UNCHANGED <<logs, oldest, stats, reader>>
         \/ /\ prune.it # END /\ Blocks(prune.reader, e)
            /\ KickReader(prune.reader, prune.id, prune.rows) /\ PruneReturns(FALSE)
            /\ UNCHANGED <<logs, oldest, stats>>
         \/ /\ prune.it # END /\ mine /\ ~Blocks(prune.reader, e) /\ Erase(prune.it)
            /\ stats' = Forget(e) /\ UNCHANGED reader
            /\ PruneReturns(TRUE) \/ prune' = [prune EXCEPT !.it = After(@), !.rows = @ - 1]
    BY DEF PruneStep, e, mine
  <1> QED BY <1>5, <1>9, <1>10, <1>11, <1>12, <1>13, <1>14

-----------------------------------------------------------------------------
(***************************************************************************)
(* Commands                                                                 *)
(***************************************************************************)

\* What all commands have in common: the list stays as it is.
LEMMA CommandPreserves ==
    ASSUME SimpleConstants, SimpleInv,
           UNCHANGED <<logs, oldest, stats, sequence, todo, delivered>>,
           max_size' \in [Logs -> Nat], prune' \in PruneValues, clear' \in ClearValues,
           reader' \in [Readers -> ReaderValues], \A r \in Readers : IsKicked(reader[r], reader'[r]),
           \/ prune' = prune
           \/ prune'.pc \in {"none", "begin"} /\ todo = << >>,
           \/ lock' = lock
           \/ lock \in {NOBODY, "clear"} /\ lock' \in {NOBODY, "clear"},
           lock' = "clear" => prune'.pc # "none" /\ clear'.pc \in {"try", "probe", "last"},
           prune'.pc # "none" => lock' \in {"log", "clear"}
    PROVE  SimpleInv'
  <1>1. /\ SimpleTypeOK /\ LockIsHeld /\ ListAscends /\ OldestIsFirst /\ PruneRespects
        /\ ReadersServed /\ StatsMatchList
    BY DEF SimpleInv
  <1>2. /\ \A r \in Readers :
              /\ reader'[r].pc \in {"flush", "exit"} <=> reader[r].pc \in {"flush", "exit"}
              /\ reader'[r].pc \in {"idle", "gone"} <=> reader[r].pc \in {"idle", "gone"}
              /\ reader'[r].start = reader[r].start
              /\ reader'[r].mask = reader[r].mask
        /\ \A r \in Readers : IsServed(reader'[r], delivered[r], Listed, todo)
    BY ReadersKicked
  <1>3. SimpleTypeOK'
    BY <1>1 DEF SimpleTypeOK
  <1>4. LockIsHeld'
    <2>1. NOBODY \notin {"log", "clear"} /\ \A r \in Readers : r \notin {NOBODY, "log", "clear"}
      BY DEF SimpleConstants, NOBODY
    <2>2. lock' = "log" <=> lock = "log"
      BY <2>1
    <2>3. \A r \in Readers : lock' = r <=> lock = r
      BY <2>1
    <2> QED BY <1>1, <1>2, <2>2, <2>3 DEF LockIsHeld
  <1>5. ListAscends' /\ OldestIsFirst' /\ StatsMatchList' /\ Listed' = Listed
    BY <1>1, ListFrame
  <1>6. PruneRespects'
    <2>1. CASE prune' = prune
      BY <1>1, <1>2, <2>1, PruneFrame DEF SimpleTypeOK
    <2>2. CASE prune'.pc \in {"none", "begin"}
      BY <2>2 DEF PruneRespects
    <2> QED BY <2>1, <2>2
  <1>7. ReadersServed'
    BY <1>2, <1>5 DEF ReadersServed
  <1> QED BY <1>3, <1>4, <1>5, <1>6, <1>7 DEF SimpleInv

\* What the commands begin with
LEMMA BeforeCommand ==
    ASSUME SimpleConstants, SimpleInv
    PROVE  /\ max_size \in [Logs -> Nat] /\ prune \in PruneValues /\ clear \in ClearValues
           /\ reader \in [Readers -> ReaderValues]
           /\ \A r \in Readers : IsKicked(reader[r], reader[r])
           /\ lock = "clear" => /\ prune.pc # "none" /\ clear.pc \in {"try", "probe", "last"}
                                /\ todo = << >>
           /\ prune.pc # "none" => lock \in {"log", "clear"}
           /\ lock = NOBODY => prune.pc = "none" /\ todo = << >>
  <1>1. SimpleTypeOK /\ LockIsHeld
    BY DEF SimpleInv
  <1>2. \A r \in Readers : IsKicked(reader[r], reader[r])
    BY <1>1, TriggerKicks DEF SimpleTypeOK
  <1> QED BY <1>1, <1>2 DEF SimpleTypeOK, LockIsHeld, NOBODY

LEMMA StartClearPreserves ==
    ASSUME SimpleConstants, SimpleInv, NEW c \in Clears, StartClear(c)
    PROVE  SimpleInv'
  <1>1. /\ clear.pc = "none" /\ clear' = [pc |-> "try", id |-> c.id, uid |-> c.uid, retry |-> 0]
        /\ UNCHANGED <<logs, oldest, stats, max_size, sequence, reader, lock, todo, prune, delivered>>
    BY DEF StartClear, bufferVars
  <1>2. clear' \in ClearValues
    <2>1. c.id \in Logs /\ c.uid \in Int
      BY DEF SimpleConstants
    <2> QED BY <1>1, <2>1 DEF ClearValues
  <1> QED BY <1>1, <1>2, BeforeCommand, CommandPreserves

LEMMA ClearPrunePreserves ==
    ASSUME SimpleConstants, SimpleInv, ClearPrune
    PROVE  SimpleInv'
  <1> DEFINE rows == IF clear.pc = "probe" THEN 1 ELSE ULONG_MAX
  <1>1. /\ clear.pc \in {"try", "probe", "last"} /\ lock = NOBODY /\ lock' = "clear"
        /\ prune' = NewPrune(clear.id, rows, clear.uid)
        /\ UNCHANGED <<logs, oldest, stats, max_size, sequence, reader, todo, clear, delivered>>
    BY DEF ClearPrune, bufferVars
  <1>2. clear.id \in Logs /\ clear.uid \in Int /\ rows \in Int
    BY <1>1, BeforeCommand DEF ClearValues, ULONG_MAX
  <1> HIDE DEF rows
  <1>3. prune' \in PruneValues /\ prune'.pc = "begin"
    BY <1>1, <1>2, NewPruneBegins
  <1> QED BY <1>1, <1>3, BeforeCommand, CommandPreserves

LEMMA ClearGoesOnPreserves ==
    ASSUME SimpleConstants, SimpleInv, ClearGoesOn
    PROVE  SimpleInv'
  <1>1. /\ lock = "clear" /\ prune.pc = "return" /\ prune' = NoPrune /\ lock' = NOBODY
        /\ UNCHANGED <<logs, oldest, stats, max_size, sequence, reader, todo, delivered>>
    BY DEF ClearGoesOn, bufferVars
  <1>2. clear \in [pc : {"try", "probe", "kick", "last"}, id : Logs, uid : Int, retry : Int]
    BY <1>1, BeforeCommand DEF ClearValues
  <1>3. clear.pc \in {"try", "probe", "last"}
    BY <1>1, BeforeCommand
  <1> DEFINE Running == [pc : {"try", "probe", "kick", "last"}, id : Logs, uid : Int, retry : Int]
             Done == [pc : {"none"}, retry : Int]
             pc == IF Retried(clear.retry) = 3 THEN "probe" ELSE clear.pc
             pc2 == IF prune.result THEN "last" ELSE "kick"
  <1>4. Retried(clear.retry) \in Int /\ pc \in {"try", "probe", "last"} /\ clear.retry \in Int
        /\ pc2 \in {"kick", "last"}
    BY <1>2, <1>3 DEF Retried
  <1>5. \/ clear' = [NoClear EXCEPT !.retry = clear.retry]
        \/ clear' = [clear EXCEPT !.retry = Retried(clear.retry), !.pc = pc]
        \/ clear' = [clear EXCEPT !.pc = pc2]
        \/ clear' = NoClear
    <2>1. CASE clear.pc = "try" /\ prune.result
      BY <2>1 DEF ClearGoesOn
    <2>2. CASE clear.pc = "try" /\ ~prune.result
      BY <2>2 DEF ClearGoesOn
    <2>3. CASE clear.pc = "probe"
      BY <2>3 DEF ClearGoesOn
    <2>4. CASE clear.pc = "last"
      BY <2>4 DEF ClearGoesOn
    <2> QED BY <1>3, <2>1, <2>2, <2>3, <2>4
  <1> HIDE DEF pc, pc2
  <1>6. NoClear \in Done /\ [NoClear EXCEPT !.retry = clear.retry] \in Done
    BY <1>4 DEF NoClear
  <1>7. /\ [clear EXCEPT !.retry = Retried(clear.retry), !.pc = pc] \in Running
        /\ [clear EXCEPT !.pc = pc2] \in Running
    BY <1>2, <1>4
  <1>8. clear' \in Done \cup Running
    BY <1>5, <1>6, <1>7
  <1>9. clear' \in ClearValues
    BY <1>8 DEF ClearValues
  <1>10. prune' \in PruneValues /\ prune'.pc = "none" /\ lock' # "clear"
    BY <1>1, PruneBecomes DEF NOBODY
  <1> QED BY <1>1, <1>9, <1>10, BeforeCommand, CommandPreserves

LEMMA ClearKicksPreserves ==
    ASSUME SimpleConstants, SimpleInv, ClearKicks
    PROVE  SimpleInv'
  <1>1. /\ clear.pc = "kick" /\ lock = NOBODY /\ clear' = [clear EXCEPT !.pc = "last"]
        /\ reader' = [r \in Readers |-> IF r \in Connected /\ IsWatching(r, clear.id)
                                        THEN Release(reader[r]) ELSE reader[r]]
        /\ UNCHANGED <<logs, oldest, stats, max_size, sequence, lock, todo, prune, delivered>>
    BY DEF ClearKicks, bufferVars
  <1>2. clear' \in ClearValues
    <2>1. clear \in [pc : {"try", "probe", "kick", "last"}, id : Logs, uid : Int, retry : Int]
      BY <1>1, BeforeCommand DEF ClearValues
    <2> QED BY <1>1, <2>1 DEF ClearValues
  <1>3. \A r \in Readers : IsKicked(reader[r], reader'[r]) /\ reader'[r] \in ReaderValues
    BY <1>1, BeforeCommand, TriggerKicks DEF IsKicked
  <1>4. reader' \in [Readers -> ReaderValues]
    BY <1>1, <1>3
  <1> QED BY <1>1, <1>2, <1>3, <1>4, BeforeCommand, CommandPreserves DEF NOBODY

LEMMA SetSizePreserves ==
    ASSUME SimpleConstants, SimpleInv, NEW id \in Logs, NEW size \in BufferSizes, SetSize(id, size)
    PROVE  SimpleInv'
  <1>1. /\ max_size' = [max_size EXCEPT ![id] = size]
        /\ UNCHANGED <<logs, oldest, stats, sequence, reader, lock, todo, prune, clear, delivered>>
    BY DEF SetSize
  <1>2. max_size' \in [Logs -> Nat]
    BY <1>1, BeforeCommand DEF SimpleConstants
  <1> QED BY <1>1, <1>2, BeforeCommand, CommandPreserves

LEMMA ReinitPreserves ==
    ASSUME SimpleConstants, SimpleInv, NEW size \in Reinits, Reinit(size)
    PROVE  SimpleInv'
  <1>1. /\ max_size' = [i \in Logs |-> size]
        /\ reader' = [r \in Readers |-> TriggerReader(reader[r])]
        /\ UNCHANGED <<logs, oldest, stats, sequence, lock, todo, prune, clear, delivered>>
    BY DEF Reinit
  <1>2. max_size' \in [Logs -> Nat]
    BY <1>1 DEF SimpleConstants
  <1>3. \A r \in Readers : IsKicked(reader[r], reader'[r]) /\ reader'[r] \in ReaderValues
    BY <1>1, BeforeCommand, TriggerKicks DEF IsKicked
  <1>4. reader' \in [Readers -> ReaderValues]
    BY <1>1, <1>3
  <1> QED BY <1>1, <1>2, <1>3, <1>4, BeforeCommand, CommandPreserves

-----------------------------------------------------------------------------
(***************************************************************************)
(* The steps of a reader                                                    *)
(***************************************************************************)

\* What a reader begins a step with
LEMMA BeforeMove ==
    ASSUME SimpleInv, NEW r \in Readers
    PROVE  /\ reader[r] \in ReaderValues /\ delivered \in [Readers -> Seq(Nat)]
           /\ IsServed(reader[r], delivered[r], Listed, todo)
           /\ logs \in Seq(Element) /\ Ascends(logs) /\ sequence \in Nat \ {0}
           /\ \A e \in Listed : 0 < e.seq /\ e \in Element
           /\ reader[r].pc \in {"flush", "exit"} <=> lock = r
  <1>1. logs \in Seq(Element)
    BY DEF SimpleInv, SimpleTypeOK
  <1>2. \A e \in Listed : e \in Element
    BY <1>1, ListDomain DEF Listed
  <1> QED BY <1>2 DEF SimpleInv, SimpleTypeOK, ReadersServed, ListAscends, LockIsHeld

\* What follows an element is above it.
LEMMA AfterIsAbove ==
    ASSUME SimpleInv, NEW e \in Listed
    PROVE  e.seq \in Nat /\ After(e.seq) \in Nat /\ (After(e.seq) # END => e.seq < After(e.seq))
  <1>1. logs \in Seq(Element) /\ Ascends(logs) /\ \A f \in Listed : 0 < f.seq
    BY DEF SimpleInv, SimpleTypeOK, ListAscends
  <1>2. e \in Element
    BY <1>1, ListDomain DEF Listed
  <1>3. After(e.seq) \in Nat /\ IsFirstFrom(After(e.seq), e.seq + 1)
    BY <1>1, AfterIsNext
  <1>4. e.seq \in Nat
    BY <1>2 DEF Element
  <1> QED BY <1>3, <1>4 DEF IsFirstFrom

\* Behind an element that was read
LEMMA PastIsFlushed ==
    ASSUME SimpleInv, NEW e \in Listed, NEW y, y.it = After(e.seq), y.start = e.seq
    PROVE  HasFlushed(y, Listed)
  <1>1. logs \in Seq(Element) /\ Ascends(logs) /\ \A f \in Listed : 0 < f.seq
    BY DEF SimpleInv, SimpleTypeOK, ListAscends
  <1>2. \A f \in Listed : f \in Element
    BY <1>1, ListDomain DEF Listed
  <1>3. \A f \in Listed : f.seq \in Nat
    BY <1>2 DEF Element
  <1>4. After(e.seq) \in Nat /\ IsFirstFrom(After(e.seq), e.seq + 1)
    BY <1>1, AfterIsNext
  <1>5. CASE After(e.seq) = END
    BY <1>3, <1>4, <1>5 DEF IsFirstFrom, HasFlushed, IsLive, END
  <1>6. CASE After(e.seq) # END
    <2>1. e.seq + 1 <= After(e.seq) /\ IsLive(After(e.seq), Listed)
      BY <1>4, <1>6 DEF IsFirstFrom
    <2>2. \A f \in Listed : f.seq < After(e.seq) => f.seq <= e.seq
      BY <1>3, <1>4, <1>6 DEF IsFirstFrom
    <2> QED BY <1>3, <1>4, <1>6, <2>1, <2>2 DEF HasFlushed
  <1> QED BY <1>5, <1>6

LEMMA ConnectPreserves ==
    ASSUME SimpleConstants, SimpleInv, NEW r \in Readers, NEW s \in {1, sequence}, Connect(r, s)
    PROVE  SimpleInv'
  <1> DEFINE x == reader[r]
             y == [x EXCEPT !.pc = "start", !.start = s, !.mask = Request[r].mask,
                     !.uid = Request[r].uid, !.deadline = Request[r].deadline,
                     !.non_block = Request[r].non_block]
  <1>1. /\ x.pc = "idle" /\ lock = NOBODY /\ reader' = [reader EXCEPT ![r] = y] /\ lock' = NOBODY
        /\ UNCHANGED <<bufferVars, sequence, todo, prune, clear, delivered>>
    BY DEF Connect
  <1>2. /\ x \in ReaderValues /\ IsServed(x, delivered[r], Listed, todo) /\ s \in Nat /\ 0 < s
        /\ delivered \in [Readers -> Seq(Nat)]
    BY BeforeMove
  <1>3. Request[r] \in RequestValues /\ r # NOBODY
    BY DEF SimpleConstants, NOBODY
  <1>4. delivered[r] = << >>
    BY <1>1, <1>2 DEF IsServed, SentInOrder
  <1>5. y \in ReaderValues /\ y.pc = "start" /\ y.start = s
    BY <1>2, <1>3 DEF ReaderValues, ReaderPcs, RequestValues
  <1> HIDE DEF x, y
  <1>6. IsServed(y, delivered[r], Listed, todo)
    BY <1>2, <1>4, <1>5 DEF IsServed, WritesItsStart, HasFlushed, WaitsAbove, SentInOrder
  <1> QED BY <1>1, <1>2, <1>3, <1>5, <1>6, ReaderMoves

LEMMA DeadlinePreserves ==
    ASSUME SimpleConstants, SimpleInv, NEW r \in Readers, Deadline(r)
    PROVE  SimpleInv'
  <1> DEFINE x == reader[r]
             y == [x EXCEPT !.pc = "timed_out"]
  <1>1. /\ x.pc = "wait_until" /\ reader' = [reader EXCEPT ![r] = y]
        /\ UNCHANGED <<bufferVars, sequence, lock, todo, prune, clear, delivered>>
    BY DEF Deadline
  <1>2. x \in ReaderValues /\ IsServed(x, delivered[r], Listed, todo)
    BY BeforeMove
  <1>3. /\ y \in ReaderValues /\ y.pc = "timed_out" /\ y.start = x.start /\ y.mask = x.mask
    BY <1>2 DEF ReaderValues, ReaderPcs
  <1>4. IsServed(y, delivered[r], Listed, todo)
    BY <1>1, <1>2, <1>3 DEF IsServed, WritesItsStart, HasFlushed, WaitsAbove, SentInOrder
  <1>5. /\ SimpleTypeOK /\ LockIsHeld /\ ListAscends /\ OldestIsFirst /\ PruneRespects
        /\ ReadersServed /\ StatsMatchList
    BY DEF SimpleInv
  <1>6. reader \in [Readers -> ReaderValues]
    BY <1>5 DEF SimpleTypeOK
  <1>7. /\ reader' \in [Readers -> ReaderValues] /\ reader'[r] = y
        /\ \A q \in Readers \ {r} : reader'[q] = reader[q]
    BY <1>1, <1>3, <1>6
  <1>8. SimpleTypeOK'
    BY <1>1, <1>5, <1>7 DEF SimpleTypeOK, bufferVars
  <1>9. LockIsHeld'
    <2>1. \A q \in Readers : reader'[q].pc \in {"flush", "exit"} <=> reader[q].pc \in {"flush", "exit"}
      BY <1>1, <1>3, <1>7
    <2> QED BY <1>1, <1>5, <2>1 DEF LockIsHeld
  <1>10. ListAscends' /\ OldestIsFirst' /\ StatsMatchList' /\ Listed' = Listed
    BY <1>1, <1>5, ListFrame DEF bufferVars
  <1>11. PruneRespects'
    <2>1. \A q \in Readers : /\ reader'[q].start = reader[q].start
                             /\ reader'[q].mask = reader[q].mask
                             /\ reader'[q].pc \in {"idle", "gone"} <=> reader[q].pc \in {"idle", "gone"}
      BY <1>1, <1>3, <1>7
    <2> QED BY <1>1, <1>5, <2>1, PruneFrame DEF SimpleTypeOK, bufferVars
  <1>12. ReadersServed'
    BY <1>1, <1>4, <1>5, <1>7, <1>10 DEF ReadersServed
  <1> QED BY <1>8, <1>9, <1>10, <1>11, <1>12 DEF SimpleInv

LEMMA LoopTopPreserves ==
    ASSUME SimpleConstants, SimpleInv, NEW r \in Readers, LoopTop(r)
    PROVE  SimpleInv'
  <1> DEFINE x == reader[r]
             out == [x EXCEPT !.pc = "exit"]
             wait == [x EXCEPT !.pc = "wait_until"]
             flush == [x EXCEPT !.pc = "flush", !.it = FlushStart(x.start),
                                !.deadline = @ /\ x.pc # "timed_out"]
  <1>1. /\ x.pc \in {"start", "woken", "timed_out"} /\ lock = NOBODY
        /\ UNCHANGED <<bufferVars, sequence, todo, prune, clear, delivered>>
    BY DEF LoopTop
  <1>2. \/ reader' = [reader EXCEPT ![r] = out] /\ lock' = r
        \/ reader' = [reader EXCEPT ![r] = wait] /\ lock' = NOBODY
        \/ reader' = [reader EXCEPT ![r] = flush] /\ lock' = r
    BY DEF LoopTop
  <1>3. /\ x \in ReaderValues /\ IsServed(x, delivered[r], Listed, todo)
        /\ delivered \in [Readers -> Seq(Nat)] /\ r # NOBODY
        /\ logs \in Seq(Element) /\ Ascends(logs) /\ \A e \in Listed : 0 < e.seq /\ e \in Element
    BY BeforeMove DEF SimpleConstants, NOBODY
  <1>4. /\ 0 < x.start /\ x.start \in Nat /\ \A k \in DOMAIN delivered[r] : delivered[r][k] < x.start
    BY <1>1, <1>3 DEF IsServed, SentInOrder, ReaderValues
  <1>5. FlushStart(x.start) \in Nat /\ IsFirstFrom(FlushStart(x.start), x.start)
    BY <1>3, <1>4, FlushStartIsFirst
  <1>6. /\ out \in ReaderValues /\ out.pc = "exit" /\ out.start = x.start
        /\ wait \in ReaderValues /\ wait.pc = "wait_until" /\ wait.start = x.start
    BY <1>3 DEF ReaderValues, ReaderPcs
  <1>7. /\ flush \in ReaderValues /\ flush.pc = "flush" /\ flush.start = x.start
        /\ flush.it = FlushStart(x.start)
    BY <1>3, <1>5 DEF ReaderValues, ReaderPcs
  <1> HIDE DEF x, out, wait, flush
  <1>8. IsServed(out, delivered[r], Listed, todo)
    BY <1>1, <1>3, <1>6 DEF IsServed, WritesItsStart, HasFlushed, WaitsAbove, SentInOrder
  <1>9. IsServed(wait, delivered[r], Listed, todo)
    BY <1>1, <1>3, <1>6 DEF IsServed, WritesItsStart, HasFlushed, WaitsAbove, SentInOrder
  <1>10. IsServed(flush, delivered[r], Listed, todo)
    <2>1. \A e \in Listed : e.seq \in Nat
      BY <1>3 DEF Element
    <2>2. HasFlushed(flush, Listed)
      BY <1>4, <1>5, <1>7, <2>1 DEF HasFlushed, IsFirstFrom, IsLive, END
    <2>3. delivered[r] \in Seq(Nat)
      BY <1>3
    <2>4. \A k \in DOMAIN delivered[r] : delivered[r][k] \in Nat
      BY <2>3, ElementOfSeq, LenProperties
    <2>5. SentInOrder(flush, delivered[r])
      BY <1>1, <1>3, <1>4, <1>5, <1>7, <2>4 DEF IsServed, SentInOrder, IsFirstFrom, END
    <2> QED BY <1>7, <2>2, <2>5 DEF IsServed, WritesItsStart, WaitsAbove
  <1>11. CASE reader' = [reader EXCEPT ![r] = out] /\ lock' = r
    BY <1>1, <1>3, <1>6, <1>8, <1>11, ReaderMoves
  <1>12. CASE reader' = [reader EXCEPT ![r] = wait] /\ lock' = NOBODY
    BY <1>1, <1>3, <1>6, <1>9, <1>12, ReaderMoves
  <1>13. CASE reader' = [reader EXCEPT ![r] = flush] /\ lock' = r
    BY <1>1, <1>3, <1>7, <1>10, <1>13, ReaderMoves
  <1> QED BY <1>2, <1>11, <1>12, <1>13

\* The element FlushTo() has come to
LEMMA FlushesListed ==
    ASSUME SimpleInv, NEW it \in Nat, it # END, IsLive(it, Listed)
    PROVE  logs[Pos(it)] \in Listed /\ logs[Pos(it)].seq = it
  <1>1. logs \in Seq(Element) /\ Ascends(logs)
    BY DEF SimpleInv, SimpleTypeOK, ListAscends
  <1>2. PICK f \in Listed : f.seq = it
    BY DEF IsLive
  <1>3. PICK k \in DOMAIN logs : f = logs[k]
    BY <1>1, ListDomain DEF Listed
  <1> QED BY <1>1, <1>2, <1>3, PlaceOf

LEMMA FlushElementPreserves ==
    ASSUME SimpleConstants, SimpleInv, NEW r \in Readers, FlushElement(r)
    PROVE  SimpleInv'
  <1> DEFINE x == reader[r]
             e == logs[Pos(x.it)]
             past == [x EXCEPT !.start = e.seq, !.it = After(x.it)]
             skip == [past EXCEPT !.skip[e.id] = @ - 1]
             stop == [past EXCEPT !.it = END]
             tid == IF e.dropped > 0 /\ x.last_tid[e.id] # e.tid THEN 0 ELSE e.tid
             write == [x EXCEPT !.start = e.seq, !.pc = "write", !.drop_chatty = FALSE,
                                !.last_tid[e.id] = tid]
  <1>1. /\ x.pc = "flush" /\ x.it # END /\ lock = r
        /\ UNCHANGED <<bufferVars, sequence, todo, prune, clear, delivered>>
    BY DEF FlushElement
  <1>2. \/ reader' = [reader EXCEPT ![r] = past] /\ lock' = r
        \/ reader' = [reader EXCEPT ![r] = skip] /\ lock' = r
        \/ x.release /\ reader' = [reader EXCEPT ![r] = stop] /\ lock' = r
        \/ MayRead(x, e) /\ reader' = [reader EXCEPT ![r] = write] /\ lock' = NOBODY
    BY Zenon DEF FlushElement, FilterSecondPass
  <1>3. /\ x \in ReaderValues /\ IsServed(x, delivered[r], Listed, todo)
        /\ delivered \in [Readers -> Seq(Nat)]
        /\ \A f \in Listed : 0 < f.seq /\ f \in Element
    BY BeforeMove
  <1>4. e \in Listed /\ e.seq = x.it /\ e \in Element
    <2>1. x.it \in Nat /\ IsLive(x.it, Listed)
      BY <1>1, <1>3 DEF IsServed, HasFlushed, ReaderValues
    <2> QED BY <1>1, <1>3, <2>1, FlushesListed
  <1>5. e.id \in Logs /\ e.seq \in Nat /\ e.tid \in Int
    BY <1>4 DEF Element
  <1>6. After(x.it) \in Nat /\ (After(x.it) # END => x.it < After(x.it))
    BY <1>4, AfterIsAbove
  <1>7. \A k \in DOMAIN delivered[r] : delivered[r][k] \in Nat /\ delivered[r][k] < x.it
    <2>1. delivered[r] \in Seq(Nat)
      BY <1>3
    <2> QED BY <1>1, <1>3, <2>1, ElementOfSeq, LenProperties DEF IsServed, SentInOrder
  <1> HIDE DEF e
  <1>8. /\ past \in ReaderValues /\ past.pc = "flush" /\ past.start = e.seq
        /\ past.it = After(e.seq) /\ past.skip = x.skip
    BY <1>1, <1>3, <1>4, <1>5, <1>6 DEF ReaderValues
  <1>9. /\ skip \in ReaderValues /\ skip.pc = "flush" /\ skip.start = e.seq /\ skip.it = After(e.seq)
    <2> DEFINE rows == [past.skip EXCEPT ![e.id] = @ - 1]
    <2>1. rows \in [Logs -> Int]
      BY <1>3, <1>5, <1>8 DEF ReaderValues
    <2>2. skip = [past EXCEPT !.skip = rows]
      OBVIOUS
    <2> HIDE DEF rows, past
    <2> QED BY <1>8, <2>1, <2>2 DEF ReaderValues
  <1>10. /\ stop \in ReaderValues /\ stop.pc = "flush" /\ stop.start = e.seq /\ stop.it = END
         /\ (x.release => stop.release)
    BY <1>1, <1>3, <1>5, <1>6 DEF ReaderValues, END
  <1>11. /\ write \in ReaderValues /\ write.pc = "write" /\ write.start = e.seq /\ write.it = e.seq
         /\ write.mask = x.mask /\ write.uid = x.uid
    <2> DEFINE tids == [x.last_tid EXCEPT ![e.id] = tid]
    <2>1. tid \in Int
      BY <1>5
    <2> HIDE DEF tid
    <2>2. tids \in [Logs -> Int]
      BY <1>3, <2>1 DEF ReaderValues
    <2>3. write = [x EXCEPT !.start = e.seq, !.pc = "write", !.drop_chatty = FALSE, !.last_tid = tids]
      OBVIOUS
    <2> HIDE DEF tids
    <2> QED BY <1>3, <1>4, <1>5, <2>2, <2>3 DEF ReaderValues, ReaderPcs
  <1> HIDE DEF x, past, skip, stop, write
  <1>12. ASSUME NEW y, y.pc = "flush", y.start = e.seq, y.it = After(e.seq)
         PROVE  IsServed(y, delivered[r], Listed, todo)
    <2>1. HasFlushed(y, Listed)
      BY <1>4, <1>12, PastIsFlushed
    <2>2. SentInOrder(y, delivered[r])
      BY <1>1, <1>3, <1>4, <1>5, <1>6, <1>7, <1>12 DEF IsServed, SentInOrder
    <2> QED BY <1>12, <2>1, <2>2 DEF IsServed, WritesItsStart, WaitsAbove
  <1>13. x.release => IsServed(stop, delivered[r], Listed, todo)
    <2> SUFFICES ASSUME x.release PROVE IsServed(stop, delivered[r], Listed, todo)
      OBVIOUS
    <2>1. HasFlushed(stop, Listed)
      BY <1>10 DEF HasFlushed, IsLive
    <2>2. SentInOrder(stop, delivered[r])
      BY <1>1, <1>3, <1>4, <1>5, <1>7, <1>10 DEF IsServed, SentInOrder
    <2> QED BY <1>10, <2>1, <2>2 DEF IsServed, WritesItsStart, WaitsAbove
  <1>14. MayRead(x, e) => IsServed(write, delivered[r], Listed, todo)
    <2> SUFFICES ASSUME MayRead(x, e) PROVE IsServed(write, delivered[r], Listed, todo)
      OBVIOUS
    <2>1. WritesItsStart(write, Listed)
      BY <1>4, <1>11 DEF WritesItsStart, MayRead
    <2>2. SentInOrder(write, delivered[r])
      BY <1>1, <1>3, <1>4, <1>5, <1>7, <1>11 DEF IsServed, SentInOrder
    <2> QED BY <1>11, <2>1, <2>2 DEF IsServed, HasFlushed, WaitsAbove
  <1>15. r # NOBODY
    BY DEF SimpleConstants
  <1>16. CASE reader' = [reader EXCEPT ![r] = past] /\ lock' = r
    BY <1>1, <1>3, <1>8, <1>12, <1>16, ReaderMoves
  <1>17. CASE reader' = [reader EXCEPT ![r] = skip] /\ lock' = r
    BY <1>1, <1>3, <1>9, <1>12, <1>17, ReaderMoves
  <1>18. CASE x.release /\ reader' = [reader EXCEPT ![r] = stop] /\ lock' = r
    BY <1>1, <1>3, <1>10, <1>13, <1>18, ReaderMoves
  <1>19. CASE MayRead(x, e) /\ reader' = [reader EXCEPT ![r] = write] /\ lock' = NOBODY
    BY <1>1, <1>3, <1>11, <1>14, <1>15, <1>19, ReaderMoves
  <1> QED BY <1>2, <1>16, <1>17, <1>18, <1>19

LEMMA WriteSucceedsPreserves ==
    ASSUME SimpleConstants, SimpleInv, NEW r \in Readers, WriteSucceeds(r)
    PROVE  SimpleInv'
  <1> DEFINE x == reader[r]
             y == [x EXCEPT !.pc = "flush", !.it = Onward(@)]
             sent == Append(delivered[r], x.it)
  <1>1. /\ x.pc = "write" /\ lock = NOBODY /\ delivered' = [delivered EXCEPT ![r] = sent]
        /\ reader' = [reader EXCEPT ![r] = y] /\ lock' = r
        /\ UNCHANGED <<bufferVars, sequence, todo, prune, clear>>
    BY DEF WriteSucceeds
  <1>2. /\ x \in ReaderValues /\ IsServed(x, delivered[r], Listed, todo)
        /\ delivered \in [Readers -> Seq(Nat)] /\ \A f \in Listed : f \in Element
    BY BeforeMove
  <1>3. PICK e \in Listed : e.seq = x.it /\ x.start = x.it
    BY <1>1, <1>2 DEF IsServed, WritesItsStart
  <1>4. e.seq \in Nat /\ After(e.seq) \in Nat /\ (After(e.seq) # END => e.seq < After(e.seq))
    BY <1>3, AfterIsAbove
  <1>5. y \in ReaderValues /\ y.pc = "flush" /\ y.start = e.seq /\ y.it = After(e.seq)
    BY <1>2, <1>3, <1>4 DEF ReaderValues, ReaderPcs, Onward
  <1>6. HasFlushed(y, Listed)
    BY <1>3, <1>5, PastIsFlushed
  <1> HIDE DEF x, y
  <1>7. /\ sent \in Seq(Nat) /\ delivered[r] \in Seq(Nat)
        /\ Len(sent) = Len(delivered[r]) + 1 /\ DOMAIN sent = 1 .. Len(delivered[r]) + 1
        /\ DOMAIN delivered[r] = 1 .. Len(delivered[r]) /\ Len(delivered[r]) \in Nat
        /\ \A k \in DOMAIN delivered[r] : sent[k] = delivered[r][k] /\ delivered[r][k] \in Nat
        /\ sent[Len(delivered[r]) + 1] = e.seq
    <2>1. delivered[r] \in Seq(Nat) /\ x.it \in Nat
      BY <1>2, <1>3, <1>4
    <2> QED BY <1>3, <2>1, AppendProperties, LenProperties, ElementOfSeq
  <1> HIDE DEF sent
  <1>8. SentInOrder(y, sent)
    <2>1. \A k \in DOMAIN delivered[r] : delivered[r][k] < e.seq
      BY <1>1, <1>2, <1>3 DEF IsServed, SentInOrder
    <2>2. \A j, k \in DOMAIN delivered[r] : j < k => delivered[r][j] < delivered[r][k]
      BY <1>2 DEF IsServed, SentInOrder
    <2>3. ASSUME NEW j \in DOMAIN sent, NEW k \in DOMAIN sent, j < k PROVE sent[j] < sent[k]
      <3>1. j \in DOMAIN delivered[r]
        BY <1>7, <2>3
      <3>2. CASE k = Len(delivered[r]) + 1
        BY <1>7, <2>1, <3>1, <3>2
      <3>3. CASE k \in DOMAIN delivered[r]
        BY <1>7, <2>2, <2>3, <3>1, <3>3
      <3>4. k = Len(delivered[r]) + 1 \/ k \in DOMAIN delivered[r]
        BY <1>7
      <3> QED BY <3>2, <3>3, <3>4
    <2>4. \A k \in DOMAIN sent : sent[k] <= e.seq
      BY <1>4, <1>7, <2>1
    <2>5. \A k \in DOMAIN sent : y.it # END => sent[k] < y.it
      BY <1>4, <1>5, <1>7, <2>1
    <2>6. 0 < e.seq
      BY <1>1, <1>2, <1>3 DEF IsServed, SentInOrder
    <2> QED BY <1>5, <2>3, <2>4, <2>5, <2>6 DEF SentInOrder
  <1>9. IsServed(y, sent, Listed, todo)
    BY <1>5, <1>6, <1>8 DEF IsServed, WritesItsStart, WaitsAbove
  <1>10. /\ delivered' \in [Readers -> Seq(Nat)] /\ delivered'[r] = sent
         /\ \A q \in Readers \ {r} : delivered'[q] = delivered[q]
    BY <1>1, <1>2, <1>7
  <1> QED BY <1>1, <1>5, <1>9, <1>10, ReaderMoves

LEMMA WriteFailsPreserves ==
    ASSUME SimpleConstants, SimpleInv, NEW r \in Readers, WriteFails(r)
    PROVE  SimpleInv'
  <1> DEFINE x == reader[r]
             y == [x EXCEPT !.pc = "exit"]
  <1>1. /\ x.pc = "write" /\ lock = NOBODY /\ reader' = [reader EXCEPT ![r] = y] /\ lock' = r
        /\ UNCHANGED <<bufferVars, sequence, todo, prune, clear, delivered>>
    BY DEF WriteFails
  <1>2. /\ x \in ReaderValues /\ IsServed(x, delivered[r], Listed, todo)
        /\ delivered \in [Readers -> Seq(Nat)]
    BY BeforeMove
  <1>3. y \in ReaderValues /\ y.pc = "exit" /\ y.start = x.start
    BY <1>2 DEF ReaderValues, ReaderPcs
  <1> HIDE DEF x, y
  <1>4. IsServed(y, delivered[r], Listed, todo)
    BY <1>1, <1>2, <1>3 DEF IsServed, WritesItsStart, HasFlushed, WaitsAbove, SentInOrder
  <1> QED BY <1>1, <1>2, <1>3, <1>4, ReaderMoves

LEMMA FlushReturnsPreserves ==
    ASSUME SimpleConstants, SimpleInv, NEW r \in Readers, FlushReturns(r)
    PROVE  SimpleInv'
  <1> DEFINE x == reader[r]
             next == CleanSkip([x EXCEPT !.start = NextStart(x)])
             out == [next EXCEPT !.pc = "exit"]
             wait == [next EXCEPT !.pc = IF next.deadline THEN "wait_until" ELSE "wait"]
  <1>1. /\ x.pc = "flush" /\ x.it = END /\ lock = r
        /\ UNCHANGED <<bufferVars, sequence, todo, prune, clear, delivered>>
    BY DEF FlushReturns
  <1>2. \/ reader' = [reader EXCEPT ![r] = out] /\ lock' = r
        \/ ~Ends(next) /\ reader' = [reader EXCEPT ![r] = wait] /\ lock' = NOBODY
    BY DEF FlushReturns
  <1>3. /\ x \in ReaderValues /\ IsServed(x, delivered[r], Listed, todo)
        /\ delivered \in [Readers -> Seq(Nat)] /\ \A f \in Listed : f \in Element
    BY BeforeMove
  <1>4. /\ next \in ReaderValues /\ next.pc = "flush" /\ next.start = x.start + 1
        /\ next.mask = x.mask /\ next.uid = x.uid /\ next.release = x.release
        /\ next.deadline \in BOOLEAN
    <2>1. [i \in Logs |-> 0] \in [Logs -> Int]
      OBVIOUS
    <2> DEFINE skip == [i \in Logs |-> 0]
    <2>2. next = [x EXCEPT !.start = x.start + 1, !.skip = skip]
      BY <1>3 DEF CleanSkip, NextStart, ReaderValues
    <2>3. x.start + 1 \in Nat /\ skip \in [Logs -> Int]
      BY <1>3, <2>1 DEF ReaderValues
    <2> HIDE DEF skip, next, x
    <2> QED BY <1>1, <1>3, <2>2, <2>3 DEF ReaderValues
  <1> HIDE DEF x, next
  <1>5. out \in ReaderValues /\ out.pc = "exit" /\ out.start = x.start + 1
    BY <1>4 DEF ReaderValues, ReaderPcs
  <1>6. /\ wait \in ReaderValues /\ wait.pc \in {"wait", "wait_until"} /\ wait.start = x.start + 1
        /\ wait.mask = x.mask /\ wait.uid = x.uid /\ (wait.pc = "wait" => ~wait.deadline)
    BY <1>4 DEF ReaderValues, ReaderPcs
  <1> HIDE DEF out, wait
  <1>7. /\ \A k \in DOMAIN delivered[r] : delivered[r][k] < x.start + 1
        /\ 0 < x.start + 1 /\ x.start \in Nat
    <2>1. delivered[r] \in Seq(Nat)
      BY <1>3
    <2>2. \A k \in DOMAIN delivered[r] : delivered[r][k] \in Nat
      BY <2>1, ElementOfSeq, LenProperties
    <2> QED BY <1>1, <1>3, <2>2 DEF IsServed, SentInOrder, ReaderValues
  <1>8. IsServed(out, delivered[r], Listed, todo)
    BY <1>1, <1>3, <1>5, <1>7 DEF IsServed, WritesItsStart, HasFlushed, WaitsAbove, SentInOrder
  <1>9. ~x.release => WaitsAbove(wait, Listed, todo)
    <2>1. \A f \in Listed : f.seq \in Nat
      BY <1>3 DEF Element
    <2>2. ~x.release => \A f \in Listed : MayRead(x, f) => f.seq <= x.start
      BY <1>1, <1>3 DEF IsServed, HasFlushed
    <2>3. \A f : MayRead(wait, f) <=> MayRead(x, f)
      BY <1>6 DEF MayRead
    <2> QED BY <1>6, <1>7, <2>1, <2>2, <2>3 DEF WaitsAbove
  <1>10. ~x.release => IsServed(wait, delivered[r], Listed, todo)
    <2>1. SentInOrder(wait, delivered[r])
      BY <1>1, <1>3, <1>6, <1>7 DEF IsServed, SentInOrder
    <2> QED BY <1>6, <1>9, <2>1 DEF IsServed, WritesItsStart, HasFlushed
  <1>11. r # NOBODY
    BY DEF SimpleConstants
  <1>12. CASE reader' = [reader EXCEPT ![r] = out] /\ lock' = r
    BY <1>1, <1>3, <1>5, <1>8, <1>12, ReaderMoves
  <1>13. CASE ~Ends(next) /\ reader' = [reader EXCEPT ![r] = wait] /\ lock' = NOBODY
    <2>1. ~x.release
      BY <1>4, <1>13 DEF Ends
    <2> QED BY <1>1, <1>3, <1>6, <1>10, <1>11, <1>13, <2>1, ReaderMoves
  <1> QED BY <1>2, <1>12, <1>13

LEMMA ThreadExitsPreserves ==
    ASSUME SimpleConstants, SimpleInv, NEW r \in Readers, ThreadExits(r)
    PROVE  SimpleInv'
  <1> DEFINE x == reader[r]
             y == [x EXCEPT !.pc = "gone"]
  <1>1. /\ x.pc = "exit" /\ lock = r /\ reader' = [reader EXCEPT ![r] = y] /\ lock' = NOBODY
        /\ UNCHANGED <<bufferVars, sequence, todo, prune, clear, delivered>>
    BY DEF ThreadExits
  <1>2. /\ x \in ReaderValues /\ IsServed(x, delivered[r], Listed, todo)
        /\ delivered \in [Readers -> Seq(Nat)] /\ r # NOBODY
    BY BeforeMove DEF SimpleConstants, NOBODY
  <1>3. y \in ReaderValues /\ y.pc = "gone" /\ y.start = x.start
    BY <1>2 DEF ReaderValues, ReaderPcs
  <1> HIDE DEF x, y
  <1>4. IsServed(y, delivered[r], Listed, todo)
    BY <1>1, <1>2, <1>3 DEF IsServed, WritesItsStart, HasFlushed, WaitsAbove, SentInOrder
  <1> QED BY <1>1, <1>2, <1>3, <1>4, ReaderMoves

-----------------------------------------------------------------------------
(***************************************************************************)
(* All steps                                                                *)
(***************************************************************************)

LEMMA InitSimpleInv ==
    ASSUME SimpleConstants, Init
    PROVE  SimpleInv
  <1>1. /\ logs = << >> /\ oldest = [i \in Logs |-> END] /\ stats = NewStatistics(0) /\ sequence = 1
        /\ max_size \in [Logs -> BufferSizes] /\ reader = [r \in Readers |-> Idle]
        /\ lock = NOBODY /\ todo = << >> /\ prune = NoPrune /\ clear = NoClear
        /\ delivered = [r \in Readers |-> << >>]
    BY DEF Init
  <1>2. Listed = {} /\ DOMAIN logs = {}
    <2>1. logs \in Seq(Element) /\ Len(logs) = 0
      BY <1>1
    <2>2. DOMAIN logs = {}
      BY <2>1, LenProperties
    <2> QED BY <2>1, <2>2, ListDomain DEF Listed
  <1>3. Idle \in ReaderValues /\ Idle.pc = "idle"
    BY DEF Idle, ReaderValues, ReaderPcs, END
  <1>4. NoPrune \in PruneValues /\ NoPrune.pc = "none"
    BY PruneBecomes
  <1>5. NoClear \in ClearValues /\ NoClear.pc = "none"
    BY DEF NoClear, ClearValues
  <1>6. CountersAreNumbers(stats) /\ stats.elements = [i \in Logs |-> 0]
    BY <1>1 DEF NewStatistics, CountersAreNumbers, Statistics, Counters
  <1>7. SimpleTypeOK
    <2>1. max_size \in [Logs -> Nat] /\ oldest \in [Logs -> Nat]
      BY <1>1 DEF SimpleConstants, END
    <2>2. reader \in [Readers -> ReaderValues] /\ delivered \in [Readers -> Seq(Nat)]
      BY <1>1, <1>3
    <2>3. logs \in Seq(Element) /\ todo \in Seq(Element)
      BY <1>1
    <2> QED BY <1>1, <1>4, <1>5, <1>6, <2>1, <2>2, <2>3 DEF SimpleTypeOK
  <1>8. LockIsHeld
    <2>1. \A r \in Readers : r # NOBODY /\ reader[r].pc \notin {"flush", "exit"}
      BY <1>1, <1>3 DEF SimpleConstants
    <2> QED BY <1>1, <1>4, <2>1 DEF LockIsHeld, NOBODY
  <1>9. ListAscends
    BY <1>1, <1>2 DEF ListAscends, Ascends
  <1>10. OldestIsFirst
    BY <1>1 DEF OldestIsFirst, IsFirst
  <1>11. PruneRespects
    BY <1>1, <1>4 DEF PruneRespects
  <1>12. ReadersServed
    <2> SUFFICES ASSUME NEW r \in Readers PROVE IsServed(reader[r], delivered[r], Listed, todo)
      BY DEF ReadersServed
    <2>1. reader[r].pc = "idle" /\ delivered[r] = << >>
      BY <1>1, <1>3
    <2>2. DOMAIN delivered[r] = {}
      <3>1. delivered[r] \in Seq(Nat) /\ Len(delivered[r]) = 0
        BY <2>1
      <3> QED BY <3>1, LenProperties
    <2> QED BY <2>1, <2>2 DEF IsServed, WritesItsStart, HasFlushed, WaitsAbove, SentInOrder
  <1>13. StatsMatchList
    <2>1. \A i \in Logs : {k \in DOMAIN logs : logs[k].id = i} = {}
      BY <1>2
    <2> QED BY <1>6, <2>1, FS_EmptySet DEF StatsMatchList
  <1> QED BY <1>7, <1>8, <1>9, <1>10, <1>11, <1>12, <1>13 DEF SimpleInv

\* The element that a reader writes stays, whatever is added and erased.
LEMMA ListedIsKept ==
    ASSUME SimpleConstants, SimpleInv, SimpleInv',
           \/ Listed \subseteq Listed'
           \/ \E e \in Listed : /\ Listed' = Listed \ {e}
                                /\ \A r \in Readers : reader[r].pc = "write" => reader[r].it # e.seq
    PROVE  ElementIsKept
  <1> SUFFICES ASSUME NEW r \in Readers, reader[r].pc = "write"
               PROVE  \E k \in DOMAIN logs : /\ logs[k].seq = reader[r].it
                                             /\ \E j \in DOMAIN logs' : logs'[j] = logs[k]
    BY DEF ElementIsKept
  <1>1. logs \in Seq(Element) /\ logs' \in Seq(Element)
    BY DEF SimpleInv, SimpleTypeOK
  <1>2. PICK e \in Listed : e.seq = reader[r].it
    BY DEF SimpleInv, ReadersServed, IsServed, WritesItsStart
  <1>3. e \in Listed'
    BY <1>2
  <1>4. PICK k \in DOMAIN logs : e = logs[k]
    BY <1>1, <1>2, ListDomain DEF Listed
  <1>5. PICK j \in DOMAIN logs' : e = logs'[j]
    BY <1>1, <1>3, ListDomain DEF Listed
  <1> QED BY <1>2, <1>4, <1>5

LEMMA ReaderStepPreserves ==
    ASSUME SimpleConstants, SimpleInv, NEW r \in Readers, ReaderStep(r)
    PROVE  SimpleInv' /\ logs' = logs
  <1>1. ASSUME LoopTop(r) PROVE SimpleInv' /\ logs' = logs
    BY <1>1, LoopTopPreserves DEF LoopTop, bufferVars
  <1>2. ASSUME FlushElement(r) PROVE SimpleInv' /\ logs' = logs
    BY <1>2, FlushElementPreserves DEF FlushElement, bufferVars
  <1>3. ASSUME WriteSucceeds(r) PROVE SimpleInv' /\ logs' = logs
    BY <1>3, WriteSucceedsPreserves DEF WriteSucceeds, bufferVars
  <1>4. ASSUME WriteFails(r) PROVE SimpleInv' /\ logs' = logs
    BY <1>4, WriteFailsPreserves DEF WriteFails, bufferVars
  <1>5. ASSUME FlushReturns(r) PROVE SimpleInv' /\ logs' = logs
    BY <1>5, FlushReturnsPreserves DEF FlushReturns, bufferVars
  <1>6. ASSUME ThreadExits(r) PROVE SimpleInv' /\ logs' = logs
    BY <1>6, ThreadExitsPreserves DEF ThreadExits, bufferVars
  <1> QED BY <1>1, <1>2, <1>3, <1>4, <1>5, <1>6 DEF ReaderStep

LEMMA NextSimpleInv ==
    ASSUME SimpleConstants, SimpleInv, Next
    PROVE  SimpleInv' /\ ElementIsKept
  <1>1. ASSUME SimpleInv', logs' = logs PROVE SimpleInv' /\ ElementIsKept
    <2>1. Listed' = Listed
      BY <1>1 DEF Listed
    <2> QED BY <1>1, <2>1, ListedIsKept
  <1>2. ASSUME LogInternal PROVE SimpleInv' /\ ElementIsKept
    BY <1>2, LogInternalPreserves, ListedIsKept
  <1>3. ASSUME PruneStep PROVE SimpleInv' /\ ElementIsKept
    <2>1. SimpleInv'
      BY <1>3, PruneStepPreserves
    <2>2. \/ Listed' = Listed
          \/ \E e \in Listed : /\ Listed' = Listed \ {e}
                               /\ \A r \in Readers : reader[r].pc = "write" => reader[r].it # e.seq
      BY <1>3, PruneStepPreserves
    <2> QED BY <2>1, <2>2, ListedIsKept
  <1>4. ASSUME Notify PROVE SimpleInv' /\ logs' = logs
    BY <1>4, NotifyPreserves DEF Notify, bufferVars
  <1>5. ASSUME PruneBegin PROVE SimpleInv' /\ logs' = logs
    BY <1>5, PruneBeginPreserves DEF PruneBegin
  <1>6. ASSUME NEW m \in Messages, Log(m) \/ Refuse(m) PROVE SimpleInv' /\ logs' = logs
    BY <1>6, LogPreserves, RefusePreserves DEF Log, Refuse, bufferVars
  <1>7. ASSUME NEW c \in Clears, StartClear(c) PROVE SimpleInv' /\ logs' = logs
    BY <1>7, StartClearPreserves DEF StartClear, bufferVars
  <1>8. ASSUME ClearPrune PROVE SimpleInv' /\ logs' = logs
    BY <1>8, ClearPrunePreserves DEF ClearPrune, bufferVars
  <1>9. ASSUME ClearGoesOn PROVE SimpleInv' /\ logs' = logs
    BY <1>9, ClearGoesOnPreserves DEF ClearGoesOn, bufferVars
  <1>10. ASSUME ClearKicks PROVE SimpleInv' /\ logs' = logs
    BY <1>10, ClearKicksPreserves DEF ClearKicks, bufferVars
  <1>11. ASSUME NEW id \in Logs, NEW size \in BufferSizes, SetSize(id, size)
         PROVE  SimpleInv' /\ logs' = logs
    BY <1>11, SetSizePreserves DEF SetSize
  <1>12. ASSUME NEW size \in Reinits, Reinit(size) PROVE SimpleInv' /\ logs' = logs
    BY <1>12, ReinitPreserves DEF Reinit
  <1>13. ASSUME NEW r \in Readers, NEW s \in {1, sequence}, Connect(r, s)
         PROVE  SimpleInv' /\ logs' = logs
    BY <1>13, ConnectPreserves DEF Connect, bufferVars
  <1>14. ASSUME NEW r \in Readers, Deadline(r) PROVE SimpleInv' /\ logs' = logs
    BY <1>14, DeadlinePreserves DEF Deadline, bufferVars
  <1>15. ASSUME NEW r \in Readers, ReaderStep(r) PROVE SimpleInv' /\ logs' = logs
    BY <1>15, ReaderStepPreserves
  <1>16. CASE CommonStep
    BY <1>1, <1>2, <1>4, <1>6, <1>7, <1>8, <1>9, <1>10, <1>11, <1>12, <1>13, <1>14, <1>15, <1>16
       DEF CommonStep
  <1>17. CASE PruneBegin
    BY <1>1, <1>5, <1>17
  <1>18. CASE \E m \in Messages : Log(m)
    BY <1>1, <1>6, <1>18
  <1> QED BY <1>3, <1>16, <1>17, <1>18 DEF Next

LEMMA StutterSimpleInv ==
    ASSUME SimpleConstants, SimpleInv, UNCHANGED vars
    PROVE  SimpleInv'
  <1>1. SimpleTypeOK' /\ LockIsHeld'
    BY DEF SimpleInv, SimpleTypeOK, LockIsHeld, vars, bufferVars
  <1>2. ListAscends' /\ OldestIsFirst' /\ StatsMatchList' /\ Listed' = Listed
    BY ListFrame DEF SimpleInv, vars, bufferVars
  <1>3. PruneRespects'
    BY PruneFrame DEF SimpleInv, SimpleTypeOK, vars, bufferVars
  <1>4. ReadersServed'
    BY <1>2 DEF SimpleInv, ReadersServed, vars
  <1> QED BY <1>1, <1>2, <1>3, <1>4 DEF SimpleInv

(***************************************************************************)
(* SimpleInv is an invariant of the simple buffer with its readers and      *)
(* Clear(), for any number of logs, readers and messages.                   *)
(***************************************************************************)
THEOREM SimpleInvariant ==
    ASSUME SimpleConstants
    PROVE  Spec => []SimpleInv
  <1>1. Init => SimpleInv
    BY InitSimpleInv
  <1>2. SimpleInv /\ [Next]_vars => SimpleInv'
    BY NextSimpleInv, StutterSimpleInv
  <1> QED BY <1>1, <1>2, PTL DEF Spec

-----------------------------------------------------------------------------
(***************************************************************************)
(* What follows                                                             *)
(***************************************************************************)

(***************************************************************************)
(* "We never prune logs equal to or newer than any LogReaderThreads'        *)
(* `start` value, so the `element` pointer is safe here without the lock":  *)
(* no step of logging, pruning, clearing or of another reader erases or     *)
(* changes the element that FlushTo() writes after unlock().                *)
(***************************************************************************)
THEOREM ElementStaysKept ==
    ASSUME SimpleConstants
    PROVE  Spec => [][ElementIsKept]_vars
  <1>1. SimpleInv /\ [Next]_vars => [ElementIsKept]_vars
    BY NextSimpleInv
  <1> QED BY <1>1, SimpleInvariant, PTL DEF Spec

(***************************************************************************)
(* oldest_ points to an element of the list with none of its log before it: *)
(* Erase() moves every iterator that it would leave dangling, and the next  *)
(* GetOldest() begins where nothing of the log was skipped.                 *)
(***************************************************************************)
THEOREM OldestStaysExact ==
    ASSUME SimpleConstants
    PROVE  Spec => []OldestIsExact
  <1>1. SimpleInv => OldestIsExact
    <2> SUFFICES ASSUME SimpleInv, NEW i \in Logs, oldest[i] # END
                 PROVE  /\ InList(oldest[i])
                        /\ \A k \in 1 .. Pos(oldest[i]) - 1 : logs[k].id # i
      BY DEF OldestIsExact
    <2>1. logs \in Seq(Element) /\ Ascends(logs) /\ IsFirst(oldest[i], i, Listed)
      BY DEF SimpleInv, SimpleTypeOK, ListAscends, OldestIsFirst
    <2>2. PICK e \in Listed : e.seq = oldest[i]
      BY <2>1 DEF IsFirst, IsLive
    <2>3. /\ Len(logs) \in Nat /\ DOMAIN logs = 1 .. Len(logs)
          /\ \A k \in DOMAIN logs : logs[k] \in Element /\ logs[k] \in Listed
      BY <2>1, ListDomain DEF Listed
    <2>4. PICK k \in DOMAIN logs : e = logs[k]
      BY <2>1, <2>2, ListDomain DEF Listed
    <2>5. Pos(oldest[i]) = k
      BY <2>1, <2>2, <2>4, PlaceOf
    <2>6. ASSUME NEW j \in 1 .. k - 1 PROVE logs[j].id # i
      <3>1. j \in DOMAIN logs /\ j < k
        BY <2>3
      <3>2. logs[j].seq < logs[k].seq /\ logs[j].seq \in Nat /\ logs[k].seq \in Nat
        BY <2>1, <2>3, <3>1 DEF Ascends, Element
      <3> QED BY <2>1, <2>2, <2>3, <2>4, <3>1, <3>2 DEF IsFirst
    <2> QED BY <2>2, <2>4, <2>5, <2>6 DEF InList
  <1> QED BY <1>1, SimpleInvariant, PTL

(***************************************************************************)
(* LogStatistics counts for each log the elements of the list that are in   *)
(* it: every push_back() is counted once and every erase() subtracted.      *)
(***************************************************************************)
THEOREM StatsStayMatched ==
    ASSUME SimpleConstants
    PROVE  Spec => []StatsMatchList
  <1>1. SimpleInv => StatsMatchList
    BY DEF SimpleInv
  <1> QED BY <1>1, SimpleInvariant, PTL

(***************************************************************************)
(* A thread in wait() has gone past all of its logs that is in the list:    *)
(* only a message whose Log() has not come to NotifyNewLog() yet, and so    *)
(* still has logd_lock, may be in front of it.                              *)
(***************************************************************************)
THEOREM SimpleWakeupsAreKept ==
    ASSUME SimpleConstants
    PROVE  Spec => []NoLostWakeup
  <1>1. SimpleInv => NoLostWakeup
    <2> SUFFICES ASSUME SimpleInv, NEW r \in Readers, reader[r].pc = "wait", lock # "log",
                        NEW k \in DOMAIN logs, MayRead(reader[r], logs[k])
                 PROVE  logs[k].seq < reader[r].start
      BY DEF NoLostWakeup
    <2>1. todo = << >> /\ logs \in Seq(Element)
      BY DEF SimpleInv, SimpleTypeOK, LockIsHeld
    <2>2. WaitsAbove(reader[r], Listed, todo)
      BY DEF SimpleInv, ReadersServed, IsServed
    <2>3. logs[k] \in Listed
      BY <2>1, ListDomain DEF Listed
    <2> QED BY <2>1, <2>2, <2>3 DEF WaitsAbove
  <1> QED BY <1>1, SimpleInvariant, PTL

(***************************************************************************)
(* A client gets elements in the order of the list and each at most once,   *)
(* over any number of waits, wakeups and prunes.                            *)
(***************************************************************************)
THEOREM SimpleDeliversInOrder ==
    ASSUME SimpleConstants
    PROVE  Spec => []InOrder
  <1>1. SimpleInv => InOrder
    BY DEF SimpleInv, ReadersServed, IsServed, SentInOrder, InOrder
  <1> QED BY <1>1, SimpleInvariant, PTL

-----------------------------------------------------------------------------
(***************************************************************************)
(* Readers that are in turn: those that were sent something and not told to  *)
(* stop, without deadlines and without a second Init().                     *)
(***************************************************************************)

\* Each number is either behind such a reader or will come to it.
UntilNotified ==
    /\ Reinits = {}
    /\ \A r \in Readers : ~Request[r].deadline

\* Only NotifyNewLog() wakes a reader that is not told to stop.
WaitsForNews(x, sent) ==
    /\ ~x.deadline /\ x.pc \notin {"wait_until", "timed_out"}
    /\ x.pc \in {"idle", "start"} => sent = << >>
    /\ x.pc = "wait" => ~x.release
    /\ x.pc = "write" \/ sent # << >> => ~x.drop_chatty

\* It is behind the next message, and a wakeup is due to one that is still in the list.
IsBehind(x, listed, coming, comes, next) ==
    /\ x.pc = "wait" => /\ coming = << >> => x.start <= next
                        /\ coming # << >> => x.start <= Head(coming).seq
                        /\ comes /\ Head(coming).id \in x.mask => Head(coming) \in listed
    /\ x.pc = "woken" => \E e \in listed : e.id \in x.mask /\ x.start <= e.seq
    /\ x.pc = "flush" => x.start < next

\* What was read of an element on the way
IsPast(x, e) ==
    \/ x.pc = "flush" /\ x.it = END
    \/ x.pc \in {"flush", "write"} /\ x.it # END /\ e.seq < x.it
    \/ x.pc \in {"wait", "woken"} /\ e.seq < x.start

HasTaken(x, sent, missing, listed) ==
    \A e \in listed : MayRead(x, e) /\ sent[1] < e.seq /\ IsPast(x, e)
                         => e.seq \in ToSet(sent) \cup missing

IsInTurn(x, sent, missing, listed, coming, comes, next) ==
    /\ WaitsForNews(x, sent)
    /\ sent # << >> /\ ~x.release => /\ IsBehind(x, listed, coming, comes, next)
                                     /\ HasTaken(x, sent, missing, listed)

Comes == todo # << >> /\ prune.pc # "none"

ReadersInTurn ==
    \A r \in Readers : IsInTurn(reader[r], delivered[r], skipped[r], Listed, todo, Comes, sequence)

InTurnInv == skipped \in [Readers -> SUBSET Nat] /\ ReadersInTurn

\* What a step does to a reader x that it leaves as it is
LEMMA ComingIsInTurn ==
    ASSUME NEW x, NEW sent, NEW missing, NEW listed, NEW coming, NEW next \in Nat,
           coming # << >>, Head(coming).seq = next,
           IsInTurn(x, sent, missing, listed, << >>, FALSE, next), x.start \in Nat
    PROVE  IsInTurn(x, sent, missing, listed, coming, FALSE, next + 1)
  BY DEF IsInTurn, IsBehind, HasTaken

LEMMA LoggedIsInTurn ==
    ASSUME NEW x \in ReaderValues, NEW sent, NEW missing, NEW listed, NEW coming, NEW next,
           NEW comes, coming # << >>, Head(coming).seq \in Nat,
           \A e \in listed : e.seq \in Nat /\ e.seq < Head(coming).seq,
           x.pc # "flush", WritesItsStart(x, listed),
           IsInTurn(x, sent, missing, listed, coming, FALSE, next)
    PROVE  IsInTurn(x, sent, missing, listed \cup {Head(coming)}, coming, comes, next)
  <1> DEFINE more == listed \cup {Head(coming)}
  <1>1. x.start \in Nat /\ x.it \in Nat
    BY DEF ReaderValues
  <1>2. ASSUME sent # << >>, ~x.release
        PROVE  /\ IsBehind(x, more, coming, comes, next) /\ HasTaken(x, sent, missing, more)
    <2>1. IsBehind(x, listed, coming, FALSE, next) /\ HasTaken(x, sent, missing, listed)
      BY <1>2 DEF IsInTurn
    <2>2. IsBehind(x, more, coming, comes, next)
      BY <2>1 DEF IsBehind
    <2>3. ~IsPast(x, Head(coming))
      <3>1. CASE x.pc = "wait"
        BY <1>1, <2>1, <3>1 DEF IsBehind, IsPast
      <3>2. CASE x.pc = "woken"
        BY <1>1, <2>1, <3>2 DEF IsBehind, IsPast
      <3>3. CASE x.pc = "write"
        BY <1>1, <3>3 DEF WritesItsStart, IsPast
      <3> QED BY <3>1, <3>2, <3>3 DEF IsPast
    <2>4. HasTaken(x, sent, missing, more)
      BY <2>1, <2>3 DEF HasTaken
    <2> QED BY <2>2, <2>4
  <1> QED BY <1>2 DEF IsInTurn

LEMMA ErasedIsInTurn ==
    ASSUME NEW x \in ReaderValues, NEW sent, NEW missing, NEW listed, NEW coming, NEW next,
           NEW comes, NEW e, e.seq \in Nat, \A f \in listed : f.seq \in Nat,
           comes => coming # << >> /\ Head(coming).seq \in Nat,
           x.pc \in {"wait", "woken"} /\ e.id \in x.mask => e.seq < x.start,
           IsInTurn(x, sent, missing, listed, coming, comes, next)
    PROVE  IsInTurn(x, sent, missing, listed \ {e}, coming, comes, next)
  <1>1. x.start \in Nat
    BY DEF ReaderValues
  <1>2. ASSUME sent # << >>, ~x.release
        PROVE  /\ IsBehind(x, listed \ {e}, coming, comes, next)
               /\ HasTaken(x, sent, missing, listed \ {e})
    <2>1. IsBehind(x, listed, coming, comes, next) /\ HasTaken(x, sent, missing, listed)
      BY <1>2 DEF IsInTurn
    <2>2. ASSUME x.pc = "wait", comes, Head(coming).id \in x.mask PROVE Head(coming) \in listed \ {e}
      BY <1>1, <2>1, <2>2 DEF IsBehind
    <2>3. ASSUME x.pc = "woken" PROVE \E f \in listed \ {e} : f.id \in x.mask /\ x.start <= f.seq
      <3>1. PICK f \in listed : f.id \in x.mask /\ x.start <= f.seq
        BY <2>1, <2>3 DEF IsBehind
      <3>2. f # e
        BY <1>1, <2>3, <3>1
      <3> QED BY <3>1, <3>2
    <2>4. IsBehind(x, listed \ {e}, coming, comes, next)
      BY <2>1, <2>2, <2>3 DEF IsBehind
    <2> QED BY <2>1, <2>4 DEF HasTaken
  <1> QED BY <1>2 DEF IsInTurn

\* A reader is told to stop or to skip.
LEMMA KickedIsInTurn ==
    ASSUME NEW x \in ReaderValues, NEW sent, NEW missing, NEW listed, NEW coming, NEW next,
           NEW comes, NEW id \in Logs, NEW n \in Int,
           IsInTurn(x, sent, missing, listed, coming, comes, next)
    PROVE  /\ IsInTurn(Release(x), sent, missing, listed, coming, comes, next)
           /\ IsInTurn(TriggerSkip(x, id, n), sent, missing, listed, coming, comes, next)
  <1>1. WaitsForNews(x, sent)
    BY DEF IsInTurn
  <1>2. /\ Release(x).release /\ Release(x).deadline = x.deadline
        /\ Release(x).drop_chatty = x.drop_chatty
        /\ Release(x).pc = IF x.pc \in {"wait", "wait_until"} THEN "woken" ELSE x.pc
    <2> DEFINE z == [x EXCEPT !.release = TRUE]
    <2>1. /\ z \in ReaderValues /\ z.release /\ z.pc = x.pc /\ z.deadline = x.deadline
          /\ z.drop_chatty = x.drop_chatty
      BY DEF ReaderValues
    <2>2. Release(x) = [z EXCEPT !.pc = IF z.pc \in {"wait", "wait_until"} THEN "woken" ELSE z.pc]
      BY DEF Release, TriggerReader
    <2> HIDE DEF z
    <2> QED BY <2>1, <2>2 DEF ReaderValues
  <1>3. IsInTurn(Release(x), sent, missing, listed, coming, comes, next)
    BY <1>1, <1>2 DEF IsInTurn, WaitsForNews
  <1>4. \E skip : TriggerSkip(x, id, n) = [x EXCEPT !.skip = skip]
    BY DEF TriggerSkip
  <1>5. PICK y : y = TriggerSkip(x, id, n)
    OBVIOUS
  <1>6. /\ y.pc = x.pc /\ y.start = x.start /\ y.it = x.it /\ y.mask = x.mask /\ y.uid = x.uid
        /\ y.deadline = x.deadline /\ y.release = x.release /\ y.drop_chatty = x.drop_chatty
    BY <1>4, <1>5 DEF ReaderValues
  <1>7. WaitsForNews(y, sent)
    BY <1>1, <1>6 DEF WaitsForNews
  <1>8. IsBehind(x, listed, coming, comes, next) => IsBehind(y, listed, coming, comes, next)
    BY <1>6 DEF IsBehind
  <1>9. HasTaken(x, sent, missing, listed) => HasTaken(y, sent, missing, listed)
    BY <1>6 DEF HasTaken, IsPast, MayRead
  <1> QED BY <1>3, <1>5, <1>6, <1>7, <1>8, <1>9 DEF IsInTurn

\* NotifyNewLog()
LEMMA NotifiedIsInTurn ==
    ASSUME NEW x \in ReaderValues, NEW sent, NEW missing, NEW listed, NEW coming, NEW next \in Nat,
           NEW comes, coming # << >>, Head(coming).seq \in Nat, Head(coming).seq < next,
           IsInTurn(x, sent, missing, listed, coming, TRUE, next),
           NEW y,
           y = IF x.pc \notin {"idle", "gone"} /\ Head(coming).id \in x.mask /\ ~x.deadline
               THEN TriggerReader(x) ELSE x
    PROVE  IsInTurn(y, sent, missing, listed, << >>, FALSE, next)
  <1>1. WaitsForNews(x, sent) /\ x.start \in Nat
    BY DEF IsInTurn, ReaderValues
  <1>2. /\ y.start = x.start /\ y.it = x.it /\ y.mask = x.mask /\ y.uid = x.uid
        /\ y.deadline = x.deadline /\ y.release = x.release /\ y.drop_chatty = x.drop_chatty
        /\ y.pc = IF x.pc = "wait" /\ Head(coming).id \in x.mask THEN "woken" ELSE x.pc
    <2>1. TriggerReader(x) = [x EXCEPT !.pc = IF x.pc \in {"wait", "wait_until"} THEN "woken" ELSE x.pc]
      BY DEF TriggerReader
    <2>2. ~x.deadline /\ x.pc # "wait_until"
      BY <1>1 DEF WaitsForNews
    <2> QED BY <2>1, <2>2 DEF ReaderValues
  <1>3. WaitsForNews(y, sent)
    BY <1>1, <1>2 DEF WaitsForNews
  <1>4. IsBehind(x, listed, coming, TRUE, next) => IsBehind(y, listed, << >>, FALSE, next)
    BY <1>1, <1>2 DEF IsBehind
  <1>5. HasTaken(x, sent, missing, listed) => HasTaken(y, sent, missing, listed)
    <2>1. \A e : IsPast(y, e) <=> IsPast(x, e)
      BY <1>2 DEF IsPast
    <2>2. \A e : MayRead(y, e) <=> MayRead(x, e)
      BY <1>2 DEF MayRead
    <2> QED BY <2>1, <2>2 DEF HasTaken
  <1> QED BY <1>2, <1>3, <1>4, <1>5 DEF IsInTurn

\* A reader r moves.
LEMMA InTurnMoves ==
    ASSUME InTurnInv, UNCHANGED <<logs, sequence, todo, Comes>>, NEW r \in Readers,
           skipped' \in [Readers -> SUBSET Nat],
           \A q \in Readers \ {r} : /\ reader'[q] = reader[q] /\ delivered'[q] = delivered[q]
                                    /\ skipped'[q] = skipped[q],
           IsInTurn(reader'[r], delivered'[r], skipped'[r], Listed, todo, Comes, sequence)
    PROVE  InTurnInv'
  <1>1. Listed' = Listed /\ Comes' = Comes
    BY DEF Listed
  <1>2. ASSUME NEW q \in Readers
        PROVE  IsInTurn(reader'[q], delivered'[q], skipped'[q], Listed, todo, Comes, sequence)
    BY DEF InTurnInv, ReadersInTurn
  <1> QED BY <1>1, <1>2 DEF InTurnInv, ReadersInTurn

\* What a step begins with
LEMMA BeforeInTurn ==
    ASSUME SimpleConstants, SimpleInv, InTurnInv
    PROVE  /\ \A r \in Readers :
                 /\ reader[r] \in ReaderValues /\ delivered[r] \in Seq(Nat)
                 /\ WritesItsStart(reader[r], Listed)
                 /\ IsInTurn(reader[r], delivered[r], skipped[r], Listed, todo, Comes, sequence)
                 /\ r \notin {NOBODY, "log", "clear"}
                 /\ lock = r <=> reader[r].pc \in {"flush", "exit"}
           /\ \A e \in Listed : e.seq \in Nat /\ e.id \in Logs /\ e.seq < sequence
           /\ sequence \in Nat
           /\ todo # << >> => Head(todo).seq \in Nat /\ Head(todo).seq < sequence
           /\ lock \notin {"log"} => todo = << >> /\ ~Comes
  <1>1. SimpleTypeOK /\ LockIsHeld /\ ListAscends /\ ReadersServed
    BY DEF SimpleInv
  <1>2. \A e \in Listed : e.seq \in Nat /\ e.id \in Logs
    <2>1. \A e \in Listed : e \in Element
      BY <1>1, ListDomain DEF SimpleTypeOK, Listed
    <2> QED BY <2>1 DEF Element
  <1>3. todo # << >> => Head(todo) \in Element
    BY <1>1, HeadTailProperties DEF SimpleTypeOK
  <1>4. todo # << >> => Head(todo).seq \in Nat
    BY <1>3 DEF Element
  <1> QED BY <1>1, <1>2, <1>4
          DEF SimpleTypeOK, LockIsHeld, ListAscends, ReadersServed, IsServed, InTurnInv,
              ReadersInTurn, Comes, SimpleConstants

\* A step that neither a reader, the list nor a message on its way notices
LEMMA UnnoticedIsInTurn ==
    ASSUME InTurnInv, UNCHANGED <<reader, logs, todo, sequence, delivered, skipped>>,
           todo # << >> /\ prune'.pc # "none" => prune.pc # "none"
    PROVE  InTurnInv'
  <1>1. Listed' = Listed /\ (Comes' => Comes) /\ Comes' \in BOOLEAN
    BY DEF Listed, Comes
  <1>2. ASSUME NEW r \in Readers
        PROVE  IsInTurn(reader[r], delivered[r], skipped[r], Listed, todo, Comes', sequence)
    <2>1. IsInTurn(reader[r], delivered[r], skipped[r], Listed, todo, Comes, sequence)
      BY DEF InTurnInv, ReadersInTurn
    <2>2. IsBehind(reader[r], Listed, todo, Comes, sequence)
          => IsBehind(reader[r], Listed, todo, Comes', sequence)
      BY <1>1 DEF IsBehind
    <2> QED BY <2>1, <2>2 DEF IsInTurn
  <1> QED BY <1>1, <1>2 DEF InTurnInv, ReadersInTurn

LEMMA LogInTurn ==
    ASSUME SimpleConstants, SimpleInv, InTurnInv, NEW m \in Messages, Log(m)
    PROVE  InTurnInv'
  <1> DEFINE e == [m EXCEPT !.seq = sequence]
  <1>1. /\ lock = NOBODY /\ todo' = <<e>> /\ sequence' = sequence + 1
        /\ UNCHANGED <<logs, reader, prune, delivered, skipped>>
    BY DEF Log, bufferVars
  <1>2. m \in Element /\ sequence \in Nat
    BY BeforeInTurn DEF SimpleConstants
  <1>3. e.seq = sequence
    BY <1>2 DEF Element
  <1> HIDE DEF e
  <1>4. todo' # << >> /\ Head(todo') = e
    BY <1>1
  <1>5. prune.pc = "none" /\ todo = << >> /\ Comes = FALSE /\ Comes' = FALSE
    BY <1>1 DEF SimpleInv, LockIsHeld, NOBODY, Comes
  <1>6. Listed' = Listed
    BY <1>1 DEF Listed
  <1>7. ASSUME NEW r \in Readers
        PROVE  IsInTurn(reader[r], delivered[r], skipped[r], Listed, todo', FALSE, sequence + 1)
    BY <1>2, <1>3, <1>4, <1>5, BeforeInTurn, ComingIsInTurn DEF ReaderValues
  <1> QED BY <1>1, <1>5, <1>6, <1>7 DEF InTurnInv, ReadersInTurn

LEMMA LogInternalInTurn ==
    ASSUME SimpleConstants, SimpleInv, InTurnInv, LogInternal
    PROVE  InTurnInv'
  <1>1. /\ lock = "log" /\ prune.pc = "none" /\ todo # << >> /\ logs' = Append(logs, Head(todo))
        /\ UNCHANGED <<sequence, reader, todo, delivered, skipped>>
    BY DEF LogInternal
  <1>2. /\ logs \in Seq(Element) /\ Ascends(logs) /\ todo \in Seq(Element)
        /\ \A f \in Listed : f.seq < Head(todo).seq
    BY <1>1 DEF SimpleInv, SimpleTypeOK, ListAscends
  <1>3. Head(todo) \in Element
    BY <1>1, <1>2, HeadTailProperties
  <1>4. Listed' = Listed \cup {Head(todo)}
    BY <1>1, <1>2, <1>3, AppendAddsOne DEF Listed
  <1>5. Comes = FALSE /\ Comes' \in BOOLEAN
    BY <1>1 DEF Comes
  <1>6. ASSUME NEW r \in Readers
        PROVE  IsInTurn(reader[r], delivered[r], skipped[r], Listed \cup {Head(todo)}, todo,
                        Comes', sequence)
    <2>1. reader[r].pc # "flush"
      BY <1>1, BeforeInTurn
    <2> QED BY <1>1, <1>2, <1>5, <2>1, BeforeInTurn, LoggedIsInTurn
  <1> QED BY <1>1, <1>4, <1>6 DEF InTurnInv, ReadersInTurn

LEMMA NotifyInTurn ==
    ASSUME SimpleConstants, SimpleInv, InTurnInv, Notify
    PROVE  InTurnInv'
  <1>1. /\ lock = "log" /\ prune.pc = "return" /\ reader' = NotifyNewLog(Head(todo).id)
        /\ todo' = Tail(todo) /\ prune' = NoPrune
        /\ UNCHANGED <<logs, sequence, delivered, skipped>>
    BY DEF Notify, bufferVars
  <1>2. todo # << >> /\ Len(todo) = 1 /\ todo \in Seq(Element)
    BY <1>1 DEF SimpleInv, SimpleTypeOK, LockIsHeld
  <1>3. todo' = << >> /\ Comes = TRUE /\ Comes' = FALSE /\ Listed' = Listed
    <2>1. Tail(todo) \in Seq(Element) /\ Len(Tail(todo)) = 0
      BY <1>2, HeadTailProperties
    <2> QED BY <1>1, <1>2, <2>1, EmptySeq DEF Comes, Listed
  <1>4. ASSUME NEW r \in Readers
        PROVE  IsInTurn(reader'[r], delivered[r], skipped[r], Listed, << >>, FALSE, sequence)
    <2>1. reader'[r] = IF reader[r].pc \notin {"idle", "gone"} /\ Head(todo).id \in reader[r].mask
                          /\ ~reader[r].deadline
                       THEN TriggerReader(reader[r]) ELSE reader[r]
      BY <1>1 DEF NotifyNewLog, Connected, IsWatching
    <2> QED BY <1>2, <1>3, <2>1, BeforeInTurn, NotifiedIsInTurn
  <1> QED BY <1>1, <1>3, <1>4 DEF InTurnInv, ReadersInTurn

\* What Erase() takes was passed by all that read the log.
LEMMA ErasedWasPassed ==
    ASSUME SimpleConstants, SimpleInv, prune.pc = "loop", NEW e \in Listed,
           e.id = prune.id, ~Blocks(prune.reader, e), NEW r \in Watchers(e.id)
    PROVE  e.seq < reader[r].start
  <1>1. /\ PruneRespects /\ reader \in [Readers -> ReaderValues] /\ logs \in Seq(Element)
        /\ prune \in PruneValues
    BY DEF SimpleInv, SimpleTypeOK
  <1>2. /\ prune.reader # NOBODY /\ reader[prune.reader].start <= reader[r].start
        /\ prune.reader \in Readers \cup {NOBODY}
    BY <1>1 DEF PruneRespects, PruneValues
  <1>3. ~(reader[prune.reader].start <= e.seq)
    BY <1>2 DEF Blocks
  <1>4. e.seq \in Nat
    BY <1>1, ListDomain DEF Listed, Element
  <1>5. reader[r].start \in Nat /\ reader[prune.reader].start \in Nat
    BY <1>1, <1>2 DEF Watchers, Connected, ReaderValues
  <1> QED BY <1>2, <1>3, <1>4, <1>5

LEMMA PruneStepInTurn ==
    ASSUME SimpleConstants, SimpleInv, InTurnInv, PruneStep
    PROVE  InTurnInv'
  <1> DEFINE e == logs[Pos(prune.it)]
             mine == e.id = prune.id /\ (prune.uid = 0 \/ e.uid = prune.uid)
  <1>1. /\ prune.pc = "loop" /\ UNCHANGED <<sequence, todo, delivered, skipped>>
    BY DEF PruneStep
  <1>2. /\ SimpleTypeOK /\ LockIsHeld /\ PruneRespects
        /\ logs \in Seq(Element) /\ Ascends(logs)
    BY DEF SimpleInv, SimpleTypeOK, ListAscends
  <1>3. /\ prune \in [pc : {"loop"}, id : Logs, rows : Int, uid : Int, result : BOOLEAN,
                      reader : Readers \cup {NOBODY}, it : Nat]
        /\ reader \in [Readers -> ReaderValues]
    BY <1>1, <1>2 DEF SimpleTypeOK, PruneValues
  <1>4. prune.it # END => e \in Listed /\ e.seq = prune.it
    BY <1>1, <1>2, <1>3, FlushesListed DEF PruneRespects
  <1> HIDE DEF e
  <1>5. prune'.pc # "none"
    <2>1. ASSUME NEW result \in BOOLEAN, PruneReturns(result) PROVE prune'.pc # "none"
      BY <2>1, PruneBecomes DEF PruneReturns
    <2>2. ASSUME NEW rows \in Int, prune' = [prune EXCEPT !.it = After(@), !.rows = rows]
          PROVE  prune'.pc # "none"
      BY <1>3, <2>2
    <2>3. ASSUME prune' = [prune EXCEPT !.it = After(@)] PROVE prune'.pc # "none"
      BY <1>3, <2>3
    <2>4. prune.rows - 1 \in Int
      BY <1>3
    <2> QED BY <2>1, <2>2, <2>3, <2>4 DEF PruneStep
  <1>6. Comes' = Comes
    BY <1>1, <1>5 DEF Comes
  <1>7. CASE UNCHANGED <<logs, reader>>
    BY <1>1, <1>7, UnnoticedIsInTurn
  <1>8. CASE Blocks(prune.reader, e) /\ KickReader(prune.reader, prune.id, prune.rows) /\ UNCHANGED logs
    <2> DEFINE r == prune.reader
               y == IF Sizes(stats, prune.id) > 2 * max_size[prune.id] THEN Release(reader[r])
                    ELSE IF reader[r].deadline THEN TriggerReader(reader[r])
                    ELSE TriggerSkip(reader[r], prune.id, prune.rows)
    <2>1. r \in Readers
      BY <1>3, <1>8 DEF Blocks
    <2>2. reader' = [reader EXCEPT ![r] = y]
      BY <1>8 DEF KickReader
    <2>3. IsInTurn(reader[r], delivered[r], skipped[r], Listed, todo, Comes, sequence)
      BY <2>1, BeforeInTurn
    <2>4. ~reader[r].deadline
      BY <2>3 DEF IsInTurn, WaitsForNews
    <2>5. IsInTurn(y, delivered[r], skipped[r], Listed, todo, Comes, sequence)
      BY <1>3, <2>1, <2>3, <2>4, KickedIsInTurn
    <2> HIDE DEF y
    <2>6. reader'[r] = y /\ \A q \in Readers \ {r} : reader'[q] = reader[q]
      BY <1>3, <2>1, <2>2
    <2>7. skipped' \in [Readers -> SUBSET Nat]
      BY <1>1 DEF InTurnInv
    <2> QED BY <1>1, <1>6, <1>8, <2>1, <2>5, <2>6, <2>7, InTurnMoves
  <1>9. CASE prune.it # END /\ mine /\ ~Blocks(prune.reader, e) /\ Erase(prune.it) /\ UNCHANGED reader
    <2>1. Listed' = Listed \ {e}
      <3>1. logs' = RemoveAt(logs, Pos(e.seq))
        BY <1>4, <1>9 DEF Erase
      <3> QED BY <1>2, <1>4, <1>9, <3>1, EraseTakesOne DEF Listed
    <2>2. e \in Listed /\ e.seq \in Nat
      BY <1>4, <1>9, BeforeInTurn
    <2>3. ASSUME NEW r \in Readers
          PROVE  IsInTurn(reader[r], delivered[r], skipped[r], Listed \ {e}, todo, Comes, sequence)
      <3>1. reader[r].pc \in {"wait", "woken"} /\ e.id \in reader[r].mask => e.seq < reader[r].start
        <4>1. reader[r].pc \in {"wait", "woken"} /\ e.id \in reader[r].mask => r \in Watchers(e.id)
          BY DEF Watchers, Connected, IsWatching
        <4> QED BY <1>1, <1>9, <2>2, <4>1, ErasedWasPassed
      <3>2. Comes => todo # << >> /\ Head(todo).seq \in Nat
        BY BeforeInTurn DEF Comes
      <3>3. \A f \in Listed : f.seq \in Nat
        BY BeforeInTurn
      <3> QED BY <2>2, <3>1, <3>2, <3>3, BeforeInTurn, ErasedIsInTurn
    <2> QED BY <1>1, <1>6, <1>9, <2>1, <2>3 DEF InTurnInv, ReadersInTurn
  <1> HIDE DEF mine
  <1>10. \/ UNCHANGED <<logs, reader>>
         \/ Blocks(prune.reader, e) /\ KickReader(prune.reader, prune.id, prune.rows) /\ UNCHANGED logs
         \/ prune.it # END /\ mine /\ ~Blocks(prune.reader, e) /\ Erase(prune.it) /\ UNCHANGED reader
    BY DEF PruneStep, e, mine
  <1> QED BY <1>7, <1>8, <1>9, <1>10

LEMMA ClearKicksInTurn ==
    ASSUME SimpleConstants, SimpleInv, InTurnInv, ClearKicks
    PROVE  InTurnInv'
  <1>1. /\ reader' = [r \in Readers |-> IF r \in Connected /\ IsWatching(r, clear.id)
                                        THEN Release(reader[r]) ELSE reader[r]]
        /\ clear.pc = "kick" /\ UNCHANGED <<logs, sequence, todo, prune, delivered, skipped>>
    BY DEF ClearKicks, bufferVars
  <1>2. Listed' = Listed /\ Comes' = Comes
    BY <1>1 DEF Listed, Comes
  <1>3. clear.id \in Logs
    BY <1>1 DEF SimpleInv, SimpleTypeOK, ClearValues
  <1>4. ASSUME NEW r \in Readers
        PROVE  IsInTurn(reader'[r], delivered[r], skipped[r], Listed, todo, Comes, sequence)
    <2>1. reader'[r] \in {reader[r], Release(reader[r])}
      BY <1>1
    <2>2. 0 \in Int
      OBVIOUS
    <2> QED BY <1>3, <2>1, <2>2, BeforeInTurn, KickedIsInTurn
  <1> QED BY <1>1, <1>2, <1>4 DEF InTurnInv, ReadersInTurn

LEMMA ConnectInTurn ==
    ASSUME SimpleConstants, UntilNotified, SimpleInv, InTurnInv,
           NEW r \in Readers, NEW s \in {1, sequence}, Connect(r, s)
    PROVE  InTurnInv'
  <1> DEFINE x == reader[r]
             y == [x EXCEPT !.pc = "start", !.start = s, !.mask = Request[r].mask,
                     !.uid = Request[r].uid, !.deadline = Request[r].deadline,
                     !.non_block = Request[r].non_block]
  <1>1. /\ x.pc = "idle" /\ reader' = [reader EXCEPT ![r] = y]
        /\ UNCHANGED <<logs, sequence, todo, prune, delivered, skipped>>
    BY DEF Connect, bufferVars
  <1>2. /\ x \in ReaderValues /\ ~Request[r].deadline
        /\ IsInTurn(x, delivered[r], skipped[r], Listed, todo, Comes, sequence)
        /\ reader \in [Readers -> ReaderValues]
    BY BeforeInTurn DEF UntilNotified, SimpleInv, SimpleTypeOK
  <1>3. y.pc = "start" /\ ~y.deadline
    BY <1>2 DEF ReaderValues
  <1> HIDE DEF x, y
  <1>4. delivered[r] = << >>
    BY <1>1, <1>2 DEF IsInTurn, WaitsForNews
  <1>5. IsInTurn(y, delivered[r], skipped[r], Listed, todo, Comes, sequence)
    BY <1>3, <1>4 DEF IsInTurn, WaitsForNews
  <1>6. Comes' = Comes
    BY <1>1 DEF Comes
  <1>7. reader'[r] = y /\ \A q \in Readers \ {r} : reader'[q] = reader[q]
    BY <1>1, <1>2
  <1> QED BY <1>1, <1>5, <1>6, <1>7, InTurnMoves DEF InTurnInv

\* Who leaves is in turn.
LEMMA LeavingIsInTurn ==
    ASSUME NEW x \in ReaderValues, NEW sent, NEW missing, NEW listed, NEW coming, NEW next,
           NEW comes, IsInTurn(x, sent, missing, listed, coming, comes, next),
           NEW pc \in {"exit", "gone"}
    PROVE  IsInTurn([x EXCEPT !.pc = pc], sent, missing, listed, coming, comes, next)
  <1>1. PICK y : y = [x EXCEPT !.pc = pc]
    OBVIOUS
  <1>2. y.pc = pc /\ y.deadline = x.deadline /\ y.release = x.release /\ y.drop_chatty = x.drop_chatty
    BY <1>1 DEF ReaderValues
  <1>3. WaitsForNews(y, sent)
    BY <1>2 DEF IsInTurn, WaitsForNews
  <1>4. IsBehind(y, listed, coming, comes, next) /\ HasTaken(y, sent, missing, listed)
    BY <1>2 DEF IsBehind, HasTaken, IsPast
  <1> QED BY <1>1, <1>3, <1>4 DEF IsInTurn

LEMMA LoopTopInTurn ==
    ASSUME SimpleConstants, SimpleInv, InTurnInv, NEW r \in Readers, LoopTop(r)
    PROVE  InTurnInv'
  <1> DEFINE x == reader[r]
             out == [x EXCEPT !.pc = "exit"]
             flush == [x EXCEPT !.pc = "flush", !.it = FlushStart(x.start),
                                !.deadline = @ /\ x.pc # "timed_out"]
             turn(y) == IsInTurn(y, delivered[r], skipped[r], Listed, todo, Comes, sequence)
  <1>1. /\ x.pc \in {"start", "woken", "timed_out"}
        /\ UNCHANGED <<logs, sequence, todo, prune, delivered, skipped>>
    BY DEF LoopTop, bufferVars
  <1>2. x \in ReaderValues /\ turn(x) /\ reader \in [Readers -> ReaderValues]
    BY BeforeInTurn DEF SimpleInv, SimpleTypeOK
  <1>3. ~x.deadline /\ x.pc # "timed_out"
    BY <1>2 DEF IsInTurn, WaitsForNews
  <1>4. reader' = [reader EXCEPT ![r] = out] \/ reader' = [reader EXCEPT ![r] = flush]
    BY <1>3 DEF LoopTop
  <1>5. turn(out)
    BY <1>2, LeavingIsInTurn
  <1>6. /\ flush.pc = "flush" /\ flush.start = x.start /\ flush.it = FlushStart(x.start)
        /\ ~flush.deadline /\ flush.mask = x.mask /\ flush.uid = x.uid
        /\ flush.release = x.release /\ flush.drop_chatty = x.drop_chatty
    BY <1>2, <1>3 DEF ReaderValues
  <1> HIDE DEF x, out, flush
  <1>7. turn(flush)
    <2>1. WaitsForNews(flush, delivered[r])
      BY <1>2, <1>3, <1>6 DEF IsInTurn, WaitsForNews
    <2>2. ASSUME delivered[r] # << >>, ~x.release
          PROVE  /\ IsBehind(flush, Listed, todo, Comes, sequence)
                 /\ HasTaken(flush, delivered[r], skipped[r], Listed)
      <3>1. x.pc = "woken" /\ IsBehind(x, Listed, todo, Comes, sequence)
            /\ HasTaken(x, delivered[r], skipped[r], Listed)
        BY <1>1, <1>2, <1>3, <2>2 DEF IsInTurn, WaitsForNews
      <3>2. PICK e \in Listed : x.start <= e.seq
        BY <3>1 DEF IsBehind
      <3>3. x.start \in Nat /\ 0 < x.start
        <4>1. IsServed(reader[r], delivered[r], Listed, todo)
          BY BeforeMove
        <4> QED BY <1>2, <3>1, <4>1 DEF x, ReaderValues, IsServed, SentInOrder
      <3>4. FlushStart(x.start) \in Nat /\ IsFirstFrom(FlushStart(x.start), x.start)
        BY <3>3, FlushStartIsFirst, BeforeMove
      <3>5. \A f \in Listed : f.seq \in Nat /\ f.seq < sequence
        BY BeforeInTurn
      <3>6. sequence \in Nat
        BY BeforeInTurn
      <3>7. flush.it # END
        BY <1>6, <3>2, <3>3, <3>4, <3>5 DEF IsFirstFrom
      <3>8. IsBehind(flush, Listed, todo, Comes, sequence)
        BY <1>6, <3>2, <3>3, <3>5, <3>6 DEF IsBehind
      <3>9. \A f \in Listed : IsPast(flush, f) => IsPast(x, f)
        BY <1>6, <3>1, <3>3, <3>4, <3>5, <3>7 DEF IsFirstFrom, IsPast
      <3>10. \A f : MayRead(flush, f) <=> MayRead(x, f)
        BY <1>6 DEF MayRead
      <3> QED BY <3>1, <3>8, <3>9, <3>10 DEF HasTaken
    <2> QED BY <1>6, <2>1, <2>2 DEF IsInTurn
  <1>8. Comes' = Comes
    BY <1>1 DEF Comes
  <1>9. ASSUME NEW y, turn(y), reader' = [reader EXCEPT ![r] = y] PROVE InTurnInv'
    <2>1. reader'[r] = y /\ \A q \in Readers \ {r} : reader'[q] = reader[q]
      BY <1>2, <1>9
    <2> QED BY <1>1, <1>8, <1>9, <2>1, InTurnMoves DEF InTurnInv
  <1> HIDE DEF turn
  <1> QED BY <1>4, <1>5, <1>7, <1>9

\* Behind an element that was read
LEMMA PastIsUpTo ==
    ASSUME SimpleInv, NEW e \in Listed, NEW y, y.pc = "flush", y.it = After(e.seq),
           NEW f \in Listed, IsPast(y, f)
    PROVE  f = e \/ f.seq < e.seq
  <1>1. logs \in Seq(Element) /\ Ascends(logs) /\ \A g \in Listed : 0 < g.seq
    BY DEF SimpleInv, SimpleTypeOK, ListAscends
  <1>2. After(e.seq) \in Nat /\ IsFirstFrom(After(e.seq), e.seq + 1)
    BY <1>1, AfterIsNext
  <1>3. e.seq \in Nat /\ f.seq \in Nat
    BY AfterIsAbove
  <1>4. f.seq <= e.seq
    BY <1>2, <1>3 DEF IsPast, IsFirstFrom
  <1>5. PICK j \in DOMAIN logs : f = logs[j]
    BY <1>1, ListDomain DEF Listed
  <1>6. PICK k \in DOMAIN logs : e = logs[k]
    BY <1>1, ListDomain DEF Listed
  <1>7. Pos(f.seq) = j /\ Pos(e.seq) = k
    BY <1>1, <1>5, <1>6, PlaceOf
  <1> QED BY <1>3, <1>4, <1>5, <1>6, <1>7

\* A reader x at element e goes on behind it as y, which sends, skips or passes it.
LEMMA PassedIsInTurn ==
    ASSUME SimpleConstants, SimpleInv, InTurnInv, NEW r \in Readers, NEW x, x = reader[r],
           x.pc \in {"flush", "write"}, x.it # END, NEW e \in Listed, e.seq = x.it,
           NEW y, y.pc = "flush", y.start = e.seq, y.it = After(e.seq), y.mask = x.mask,
           y.uid = x.uid, y.deadline = x.deadline, y.release = x.release,
           y.drop_chatty = x.drop_chatty,
           NEW sent, sent # << >> => ~x.drop_chatty,
           NEW missing, skipped[r] \subseteq missing,
           \/ sent = << >>
           \/ /\ delivered[r] # << >> /\ sent[1] = delivered[r][1]
              /\ ToSet(delivered[r]) \subseteq ToSet(sent)
              /\ MayRead(x, e) => e.seq \in ToSet(sent) \cup missing
           \/ sent[1] = e.seq
    PROVE  IsInTurn(y, sent, missing, Listed, todo, Comes, sequence)
  <1>1. IsInTurn(x, delivered[r], skipped[r], Listed, todo, Comes, sequence)
    BY BeforeInTurn
  <1>2. /\ \A f \in Listed : f.seq \in Nat /\ f.seq < sequence
        /\ sequence \in Nat
    BY BeforeInTurn
  <1>3. WaitsForNews(y, sent)
    BY <1>1 DEF IsInTurn, WaitsForNews
  <1>4. IsBehind(y, Listed, todo, Comes, sequence)
    BY <1>2 DEF IsBehind
  <1>5. ASSUME sent # << >>, ~x.release PROVE HasTaken(y, sent, missing, Listed)
    <2> SUFFICES ASSUME NEW f \in Listed, MayRead(y, f), sent[1] < f.seq, IsPast(y, f)
                 PROVE  f.seq \in ToSet(sent) \cup missing
      BY DEF HasTaken
    <2>1. f = e \/ f.seq < e.seq
      BY PastIsUpTo
    <2>2. MayRead(x, f)
      BY DEF MayRead
    <2>3. CASE sent[1] = e.seq
      BY <1>2, <2>1, <2>3
    <2>4. CASE /\ delivered[r] # << >> /\ sent[1] = delivered[r][1]
               /\ ToSet(delivered[r]) \subseteq ToSet(sent)
               /\ MayRead(x, e) => e.seq \in ToSet(sent) \cup missing
      <3>1. CASE f = e
        BY <2>2, <2>4, <3>1
      <3>2. CASE f.seq < e.seq
        <4>1. IsPast(x, f)
          BY <3>2 DEF IsPast
        <4>2. f.seq \in ToSet(delivered[r]) \cup skipped[r]
          BY <1>1, <1>5, <2>2, <2>4, <4>1 DEF IsInTurn, HasTaken
        <4> QED BY <2>4, <4>2
      <3> QED BY <2>1, <3>1, <3>2
    <2> QED BY <1>5, <2>3, <2>4
  <1> QED BY <1>3, <1>4, <1>5 DEF IsInTurn

LEMMA FlushElementInTurn ==
    ASSUME SimpleConstants, SimpleInv, InTurnInv, NEW r \in Readers, FlushElement(r)
    PROVE  InTurnInv'
  <1> DEFINE x == reader[r]
             e == logs[Pos(x.it)]
             sent == delivered[r]
             past == [x EXCEPT !.start = e.seq, !.it = After(x.it)]
             skip == [past EXCEPT !.skip[e.id] = @ - 1]
             stop == [past EXCEPT !.it = END]
             tid == IF e.dropped > 0 /\ x.last_tid[e.id] # e.tid THEN 0 ELSE e.tid
             write == [x EXCEPT !.start = e.seq, !.pc = "write", !.drop_chatty = FALSE,
                                !.last_tid[e.id] = tid]
             turn(y, missing) == IsInTurn(y, sent, missing, Listed, todo, Comes, sequence)
  <1>1. /\ x.pc = "flush" /\ x.it # END
        /\ UNCHANGED <<logs, sequence, todo, prune, delivered>>
    BY DEF FlushElement, bufferVars
  <1>2. \/ /\ ~MayRead(x, e) \/ x.drop_chatty
           /\ reader' = [reader EXCEPT ![r] = past] /\ skipped' = skipped
        \/ /\ reader' = [reader EXCEPT ![r] = skip]
           /\ skipped' = [skipped EXCEPT ![r] = @ \cup {e.seq}]
        \/ x.release /\ reader' = [reader EXCEPT ![r] = stop] /\ skipped' = skipped
        \/ MayRead(x, e) /\ reader' = [reader EXCEPT ![r] = write] /\ skipped' = skipped
    BY Zenon DEF FlushElement, FilterSecondPass
  <1>3. /\ x \in ReaderValues /\ turn(x, skipped[r]) /\ reader \in [Readers -> ReaderValues]
        /\ skipped \in [Readers -> SUBSET Nat]
    BY BeforeInTurn DEF SimpleInv, SimpleTypeOK, InTurnInv
  <1>4. e \in Listed /\ e.seq = x.it /\ e.seq \in Nat
    <2>1. x.it \in Nat /\ IsLive(x.it, Listed)
      BY <1>1, <1>3, BeforeMove DEF IsServed, HasFlushed, ReaderValues
    <2> QED BY <1>1, <1>3, <2>1, FlushesListed
  <1> HIDE DEF e
  <1>5. /\ past.pc = "flush" /\ past.start = e.seq /\ past.it = After(e.seq) /\ past.mask = x.mask
        /\ past.uid = x.uid /\ past.deadline = x.deadline /\ past.release = x.release
        /\ past.drop_chatty = x.drop_chatty
    BY <1>1, <1>3, <1>4 DEF ReaderValues
  <1>6. /\ skip.pc = "flush" /\ skip.start = e.seq /\ skip.it = After(e.seq) /\ skip.mask = x.mask
        /\ skip.uid = x.uid /\ skip.deadline = x.deadline /\ skip.release = x.release
        /\ skip.drop_chatty = x.drop_chatty
    BY <1>1, <1>3, <1>4 DEF ReaderValues
  <1>7. /\ stop.pc = "flush" /\ stop.deadline = x.deadline /\ stop.release = x.release
        /\ stop.drop_chatty = x.drop_chatty
    BY <1>1, <1>3 DEF ReaderValues
  <1>8. /\ write.pc = "write" /\ write.start = e.seq /\ write.it = x.it /\ write.mask = x.mask
        /\ write.uid = x.uid /\ write.deadline = x.deadline /\ write.release = x.release
        /\ ~write.drop_chatty
    BY <1>3 DEF ReaderValues
  <1>9. sent # << >> => ~x.drop_chatty
    BY <1>3 DEF IsInTurn, WaitsForNews
  <1> HIDE DEF past, skip, stop, write
  <1>10. ~MayRead(x, e) \/ x.drop_chatty => turn(past, skipped[r])
    <2> SUFFICES ASSUME ~MayRead(x, e) \/ x.drop_chatty PROVE turn(past, skipped[r])
      OBVIOUS
    <2>1. sent = << >> \/ ~MayRead(x, e)
      BY <1>9
    <2> QED BY <1>1, <1>4, <1>5, <1>9, <2>1, PassedIsInTurn
  <1>11. turn(skip, skipped[r] \cup {e.seq})
    <2>1. e.seq \in ToSet(sent) \cup (skipped[r] \cup {e.seq})
      OBVIOUS
    <2>2. skipped[r] \subseteq skipped[r] \cup {e.seq}
      OBVIOUS
    <2> QED BY <1>1, <1>4, <1>6, <1>9, <2>1, <2>2, PassedIsInTurn
  <1>12. x.release => turn(stop, skipped[r])
    BY <1>3, <1>7 DEF IsInTurn, WaitsForNews
  <1>13. turn(write, skipped[r])
    <2>1. WaitsForNews(write, sent)
      BY <1>3, <1>8 DEF IsInTurn, WaitsForNews
    <2>2. IsBehind(write, Listed, todo, Comes, sequence)
      BY <1>8 DEF IsBehind
    <2>3. \A f \in Listed : IsPast(write, f) => IsPast(x, f)
      BY <1>1, <1>8 DEF IsPast
    <2>4. \A f : MayRead(write, f) <=> MayRead(x, f)
      BY <1>8 DEF MayRead
    <2>5. HasTaken(x, sent, skipped[r], Listed) => HasTaken(write, sent, skipped[r], Listed)
      BY <2>3, <2>4 DEF HasTaken
    <2> QED BY <1>3, <1>8, <2>1, <2>2, <2>5 DEF IsInTurn
  <1>14. Comes' = Comes
    BY <1>1 DEF Comes
  <1>15. ASSUME NEW y, NEW missing \in SUBSET Nat, turn(y, missing),
                reader' = [reader EXCEPT ![r] = y], skipped' = [skipped EXCEPT ![r] = missing]
         PROVE  InTurnInv'
    <2>1. reader'[r] = y /\ \A q \in Readers \ {r} : reader'[q] = reader[q]
      BY <1>3, <1>15
    <2>2. /\ skipped' \in [Readers -> SUBSET Nat] /\ skipped'[r] = missing
          /\ \A q \in Readers \ {r} : skipped'[q] = skipped[q]
      BY <1>3, <1>15
    <2> QED BY <1>1, <1>14, <1>15, <2>1, <2>2, InTurnMoves DEF InTurnInv
  <1> HIDE DEF turn
  <1>16. skipped' = skipped => skipped' = [skipped EXCEPT ![r] = skipped[r]]
    BY <1>3
  <1>17. skipped[r] \in SUBSET Nat /\ skipped[r] \cup {e.seq} \in SUBSET Nat
    BY <1>3, <1>4
  <1> QED BY <1>2, <1>10, <1>11, <1>12, <1>13, <1>15, <1>16, <1>17

LEMMA WriteSucceedsInTurn ==
    ASSUME SimpleConstants, SimpleInv, InTurnInv, NEW r \in Readers, WriteSucceeds(r)
    PROVE  InTurnInv'
  <1> DEFINE x == reader[r]
             y == [x EXCEPT !.pc = "flush", !.it = Onward(@)]
             sent == Append(delivered[r], x.it)
  <1>1. /\ x.pc = "write" /\ delivered' = [delivered EXCEPT ![r] = sent]
        /\ reader' = [reader EXCEPT ![r] = y]
        /\ UNCHANGED <<logs, sequence, todo, prune, skipped>>
    BY DEF WriteSucceeds, bufferVars
  <1>2. /\ x \in ReaderValues /\ delivered[r] \in Seq(Nat) /\ WritesItsStart(x, Listed)
        /\ IsInTurn(x, delivered[r], skipped[r], Listed, todo, Comes, sequence)
        /\ reader \in [Readers -> ReaderValues] /\ delivered \in [Readers -> Seq(Nat)]
    BY BeforeInTurn DEF SimpleInv, SimpleTypeOK
  <1>3. PICK e \in Listed : e.seq = x.it /\ x.start = x.it
    BY <1>1, <1>2 DEF WritesItsStart
  <1>4. x.it # END /\ x.it \in Nat
    BY <1>2, <1>3, BeforeMove DEF END, ReaderValues
  <1>5. /\ y.pc = "flush" /\ y.start = e.seq /\ y.it = After(e.seq) /\ y.mask = x.mask
        /\ y.uid = x.uid /\ y.deadline = x.deadline /\ y.release = x.release
        /\ y.drop_chatty = x.drop_chatty
    BY <1>2, <1>3 DEF ReaderValues, Onward
  <1> HIDE DEF x, y
  <1>6. ~x.drop_chatty
    BY <1>1, <1>2 DEF IsInTurn, WaitsForNews
  <1>7. /\ Len(sent) = Len(delivered[r]) + 1 /\ DOMAIN sent = 1 .. Len(delivered[r]) + 1
        /\ DOMAIN delivered[r] = 1 .. Len(delivered[r]) /\ Len(delivered[r]) \in Nat
        /\ \A k \in DOMAIN delivered[r] : sent[k] = delivered[r][k]
        /\ sent[Len(delivered[r]) + 1] = e.seq
    BY <1>2, <1>3, <1>4, AppendProperties, LenProperties, ElementOfSeq
  <1> HIDE DEF sent
  <1>8. ToSet(delivered[r]) \subseteq ToSet(sent) /\ e.seq \in ToSet(sent)
    BY <1>7 DEF ToSet
  <1>9. \/ sent[1] = e.seq
        \/ delivered[r] # << >> /\ sent[1] = delivered[r][1]
    <2>1. CASE delivered[r] = << >>
      <3>1. Len(delivered[r]) = 0
        BY <2>1
      <3> QED BY <1>7, <3>1
    <2>2. CASE delivered[r] # << >>
      <3>1. Len(delivered[r]) # 0
        BY <1>2, <2>2, EmptySeq
      <3>2. 1 \in DOMAIN delivered[r]
        BY <1>7, <3>1
      <3> QED BY <1>7, <2>2, <3>2
    <2> QED BY <2>1, <2>2
  <1>10. IsInTurn(y, sent, skipped[r], Listed, todo, Comes, sequence)
    <2>1. x = reader[r] /\ x.pc \in {"flush", "write"} /\ skipped[r] \subseteq skipped[r]
      BY <1>1 DEF x
    <2> QED BY <1>3, <1>4, <1>5, <1>6, <1>8, <1>9, <2>1, PassedIsInTurn
  <1>11. Comes' = Comes
    BY <1>1 DEF Comes
  <1>12. /\ reader'[r] = y /\ delivered'[r] = sent
         /\ \A q \in Readers \ {r} : reader'[q] = reader[q] /\ delivered'[q] = delivered[q]
    BY <1>1, <1>2
  <1> QED BY <1>1, <1>10, <1>11, <1>12, InTurnMoves DEF InTurnInv

\* A reader r moves by itself to y.
LEMMA SelfInTurn ==
    ASSUME SimpleInv, InTurnInv, NEW r \in Readers, NEW y,
           UNCHANGED <<logs, sequence, todo, prune, delivered, skipped>>,
           reader' = [reader EXCEPT ![r] = y],
           IsInTurn(y, delivered[r], skipped[r], Listed, todo, Comes, sequence)
    PROVE  InTurnInv'
  <1>1. reader \in [Readers -> ReaderValues]
    BY DEF SimpleInv, SimpleTypeOK
  <1>2. reader'[r] = y /\ \A q \in Readers \ {r} : reader'[q] = reader[q]
    BY <1>1
  <1>3. Comes' = Comes
    BY DEF Comes
  <1> QED BY <1>2, <1>3, InTurnMoves DEF InTurnInv

LEMMA FlushReturnsInTurn ==
    ASSUME SimpleConstants, SimpleInv, InTurnInv, NEW r \in Readers, FlushReturns(r)
    PROVE  InTurnInv'
  <1> DEFINE x == reader[r]
             next == CleanSkip([x EXCEPT !.start = NextStart(x)])
             out == [next EXCEPT !.pc = "exit"]
             wait == [next EXCEPT !.pc = IF next.deadline THEN "wait_until" ELSE "wait"]
             turn(y) == IsInTurn(y, delivered[r], skipped[r], Listed, todo, Comes, sequence)
  <1>1. /\ x.pc = "flush" /\ x.it = END /\ lock = r
        /\ UNCHANGED <<logs, sequence, todo, prune, delivered, skipped>>
    BY DEF FlushReturns, bufferVars
  <1>2. \/ reader' = [reader EXCEPT ![r] = out]
        \/ ~Ends(next) /\ reader' = [reader EXCEPT ![r] = wait]
    BY DEF FlushReturns
  <1>3. /\ x \in ReaderValues /\ turn(x) /\ sequence \in Nat
        /\ todo = << >> /\ Comes = FALSE /\ \A f \in Listed : f.seq \in Nat
    <2>1. lock # "log"
      BY <1>1, BeforeInTurn
    <2>2. Comes \in BOOLEAN
      BY DEF Comes
    <2> QED BY <2>1, <2>2, BeforeInTurn
  <1>4. WaitsForNews(x, delivered[r])
    BY <1>3 DEF IsInTurn
  <1>5. /\ next \in ReaderValues /\ next.pc = "flush" /\ next.start = x.start + 1
        /\ next.mask = x.mask /\ next.uid = x.uid /\ next.release = x.release
        /\ ~next.deadline /\ next.drop_chatty = x.drop_chatty
    <2> DEFINE skip == [i \in Logs |-> 0]
    <2>1. next = [x EXCEPT !.start = x.start + 1, !.skip = skip]
      BY <1>3 DEF CleanSkip, NextStart, ReaderValues
    <2>2. x.start + 1 \in Nat /\ skip \in [Logs -> Int] /\ ~x.deadline
      BY <1>3, <1>4 DEF ReaderValues, WaitsForNews
    <2> HIDE DEF skip, next, x
    <2> QED BY <1>1, <1>3, <2>1, <2>2 DEF ReaderValues
  <1> HIDE DEF x, next
  <1>6. out.pc = "exit" /\ ~out.deadline /\ out.release = x.release /\ out.drop_chatty = x.drop_chatty
    BY <1>5 DEF ReaderValues
  <1>7. /\ wait.pc = "wait" /\ wait.start = x.start + 1 /\ wait.mask = x.mask /\ wait.uid = x.uid
        /\ ~wait.deadline /\ wait.release = x.release /\ wait.drop_chatty = x.drop_chatty
    BY <1>5 DEF ReaderValues
  <1> HIDE DEF out, wait
  <1>8. turn(out)
    <2>1. WaitsForNews(out, delivered[r])
      BY <1>1, <1>4, <1>6 DEF WaitsForNews
    <2>2. IsBehind(out, Listed, todo, Comes, sequence) /\ HasTaken(out, delivered[r], skipped[r], Listed)
      BY <1>6 DEF IsBehind, HasTaken, IsPast
    <2> QED BY <2>1, <2>2 DEF IsInTurn
  <1>9. ~Ends(next) => turn(wait)
    <2> SUFFICES ASSUME ~Ends(next) PROVE turn(wait)
      OBVIOUS
    <2>1. ~x.release
      BY <1>5 DEF Ends
    <2>2. WaitsForNews(wait, delivered[r])
      BY <1>4, <1>7, <2>1 DEF WaitsForNews
    <2>3. ASSUME delivered[r] # << >>
          PROVE  /\ IsBehind(wait, Listed, todo, Comes, sequence)
                 /\ HasTaken(wait, delivered[r], skipped[r], Listed)
      <3>1. IsBehind(x, Listed, todo, Comes, sequence) /\ HasTaken(x, delivered[r], skipped[r], Listed)
        BY <1>3, <2>1, <2>3 DEF IsInTurn
      <3>2. x.start + 1 <= sequence
        BY <1>1, <1>3, <3>1 DEF IsBehind, ReaderValues
      <3>3. IsBehind(wait, Listed, todo, Comes, sequence)
        BY <1>3, <1>7, <3>2 DEF IsBehind
      <3>4. \A f : IsPast(x, f)
        BY <1>1 DEF IsPast
      <3>5. \A f : MayRead(wait, f) <=> MayRead(x, f)
        BY <1>7 DEF MayRead
      <3> QED BY <3>1, <3>3, <3>4, <3>5 DEF HasTaken
    <2> QED BY <2>2, <2>3 DEF IsInTurn
  <1> QED BY <1>1, <1>2, <1>8, <1>9, SelfInTurn

LEMMA LeavingInTurn ==
    ASSUME SimpleConstants, SimpleInv, InTurnInv, NEW r \in Readers, WriteFails(r) \/ ThreadExits(r)
    PROVE  InTurnInv'
  <1>1. PICK pc \in {"exit", "gone"} : reader' = [reader EXCEPT ![r] = [reader[r] EXCEPT !.pc = pc]]
    BY DEF WriteFails, ThreadExits
  <1>2. UNCHANGED <<logs, sequence, todo, prune, delivered, skipped>>
    BY DEF WriteFails, ThreadExits, bufferVars
  <1>3. IsInTurn([reader[r] EXCEPT !.pc = pc], delivered[r], skipped[r], Listed, todo, Comes, sequence)
    BY BeforeInTurn, LeavingIsInTurn
  <1> QED BY <1>1, <1>2, <1>3, SelfInTurn

LEMMA InitInTurn ==
    ASSUME SimpleConstants, Init
    PROVE  InTurnInv
  <1>1. /\ skipped = [r \in Readers |-> {}] /\ delivered = [r \in Readers |-> << >>]
        /\ reader = [r \in Readers |-> Idle]
    BY DEF Init
  <1>2. Idle.pc = "idle" /\ ~Idle.deadline
    BY DEF Idle
  <1> QED BY <1>1, <1>2 DEF InTurnInv, ReadersInTurn, IsInTurn, WaitsForNews

LEMMA NextInTurn ==
    ASSUME SimpleConstants, UntilNotified, SimpleInv, InTurnInv, Next
    PROVE  InTurnInv'
  <1>1. ASSUME NEW m \in Messages, Refuse(m) PROVE InTurnInv'
    BY <1>1, UnnoticedIsInTurn DEF Refuse
  <1>2. ASSUME NEW c \in Clears, StartClear(c) PROVE InTurnInv'
    BY <1>2, UnnoticedIsInTurn DEF StartClear, bufferVars
  <1>3. ASSUME ClearPrune PROVE InTurnInv'
    <2>1. todo = << >>
      BY <1>3, BeforeInTurn DEF ClearPrune, NOBODY
    <2> QED BY <1>3, <2>1, UnnoticedIsInTurn DEF ClearPrune, bufferVars
  <1>4. ASSUME ClearGoesOn PROVE InTurnInv'
    <2>1. todo = << >>
      BY <1>4, BeforeInTurn DEF ClearGoesOn
    <2> QED BY <1>4, <2>1, UnnoticedIsInTurn DEF ClearGoesOn, bufferVars
  <1>5. ASSUME NEW id \in Logs, NEW size \in BufferSizes, SetSize(id, size) PROVE InTurnInv'
    BY <1>5, UnnoticedIsInTurn DEF SetSize
  <1>6. ASSUME PruneBegin PROVE InTurnInv'
    BY <1>6, UnnoticedIsInTurn DEF PruneBegin
  <1>7. ASSUME NEW m \in Messages, Log(m) PROVE InTurnInv'
    BY <1>7, LogInTurn
  <1>8. ASSUME NEW r \in Readers, ReaderStep(r) PROVE InTurnInv'
    BY <1>8, LoopTopInTurn, FlushElementInTurn, WriteSucceedsInTurn, FlushReturnsInTurn, LeavingInTurn
       DEF ReaderStep
  <1>9. ASSUME NEW r \in Readers, Deadline(r) PROVE FALSE
    BY <1>9, BeforeInTurn DEF Deadline, IsInTurn, WaitsForNews
  <1>10. \A size \in Reinits : FALSE
    BY DEF UntilNotified
  <1> QED BY <1>1, <1>2, <1>3, <1>4, <1>5, <1>6, <1>7, <1>8, <1>9, <1>10, LogInternalInTurn,
             NotifyInTurn, ClearKicksInTurn, ConnectInTurn, PruneStepInTurn
          DEF Next, CommonStep

(***************************************************************************)
(* Without deadlines, and until Init() runs again, nothing is missing: of   *)
(* the elements of its logs that are in the list, from the first a client   *)
(* got to where its thread waits, it got every one but those that Prune()   *)
(* told the thread to skip.  NotifyNewLog() alone wakes such a thread, and  *)
(* Prune() and Clear() keep the message that it wakes for; a deadline or    *)
(* Init() may wake it with nothing to read, and it goes past a number that  *)
(* is yet to be logged.                                                     *)
(***************************************************************************)
THEOREM SkippedAloneIsMissing ==
    ASSUME SimpleConstants, UntilNotified
    PROVE  Spec => []OnlySkippedIsMissing
  <1>1. Init => SimpleInv /\ InTurnInv
    BY InitSimpleInv, InitInTurn
  <1>2. SimpleInv /\ InTurnInv /\ [Next]_vars => InTurnInv'
    BY NextInTurn, UnnoticedIsInTurn DEF vars, bufferVars
  <1>3. InTurnInv => OnlySkippedIsMissing
    <2> SUFFICES ASSUME InTurnInv, NEW r \in Readers, reader[r].pc \in {"wait", "wait_until"},
                        delivered[r] # << >>, NEW k \in DOMAIN logs, MayRead(reader[r], logs[k]),
                        logs[k].seq > delivered[r][1], logs[k].seq < reader[r].start
                 PROVE  logs[k].seq \in ToSet(delivered[r]) \cup skipped[r]
      BY DEF OnlySkippedIsMissing, MissesOnlySkipped
    <2>1. /\ WaitsForNews(reader[r], delivered[r])
          /\ ~reader[r].release => HasTaken(reader[r], delivered[r], skipped[r], Listed)
      BY DEF InTurnInv, ReadersInTurn, IsInTurn
    <2>2. reader[r].pc = "wait" /\ HasTaken(reader[r], delivered[r], skipped[r], Listed)
      BY <2>1 DEF WaitsForNews
    <2>3. logs[k] \in Listed
      BY DEF Listed, ToSet
    <2> QED BY <2>2, <2>3 DEF HasTaken, IsPast
  <1> QED BY <1>1, <1>2, <1>3, SimpleInvariant, PTL DEF Spec

=============================================================================
