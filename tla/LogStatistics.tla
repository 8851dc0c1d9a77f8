---------------------------- MODULE LogStatistics ----------------------------
(***************************************************************************)
(* logd/LogStatistics.{h,cpp}: what each log holds and has held, and the     *)
(* tables by uid, pid, tid and tag that pruning and `logcat -S` go by.       *)
(*                                                                          *)
(* A value of type LogStatistics is the record made by NewStatistics.  Its   *)
(* field "table" is all the LogHashtables in one function: the key names the *)
(* table, then the log when there is one per log, then the key proper.       *)
(* Sizes are size_t: subtraction wraps at 2^SizeBits.                        *)
(***************************************************************************)
EXTENDS LogBufferElement, FiniteSets, FiniteSetsExt

CONSTANTS Logs,               \* the log ids
          Enable,             \* logd.statistics
          TrackTotalSize,     \* track_total_size
          KMinPrune, KMaxPrune,
          HourSec,            \* an hour, in units of time
          SizeModulus         \* 2 ^ width of size_t

AID_ROOT == 0
AID_SYSTEM == 1000
MIXED == -1                   \* (uid_t)-1, (pid_t)-1: messages of several

Wrap(n) == n % SizeModulus
Both(f, g) == [x \in DOMAIN f \cup DOMAIN g |-> IF x \in DOMAIN g THEN g[x] ELSE f[x]]

NewStatistics(now) ==
    [sizes |-> [i \in Logs |-> 0], elements |-> [i \in Logs |-> 0],
     droppedElements |-> [i \in Logs |-> 0],
     sizesTotal |-> [i \in Logs |-> 0], elementsTotal |-> [i \in Logs |-> 0],
     oldest |-> [i \in Logs |-> now], newest |-> [i \in Logs |-> now],
     newestDropped |-> [i \in Logs |-> now],
     table |-> << >>]

-----------------------------------------------------------------------------
(***************************************************************************)
(* The tables.                                                              *)
(***************************************************************************)
Keys(e) ==
    IF e.id = "kernel" THEN {}
    ELSE {<<"uid", e.id, e.uid>>}
         \cup (IF e.uid = AID_SYSTEM THEN {<<"pidSystem", e.id, e.pid>>} ELSE {})
         \cup (IF ~Enable THEN {}
               ELSE {<<"pid", e.pid>>, <<"tid", e.tid>>}
                    \cup (IF e.tag = 0 THEN {}
                          ELSE {<<IF e.id = "security" THEN "securityTag" ELSE "tag", e.tag>>}))

\* TagNameKey(): by name, and only for messages that are still there
TagNameKeys(e) ==
    IF Enable /\ e.id # "kernel" /\ e.dropped = 0
    THEN {<<"tagName", e.tag, IF IsBinary(e.id) THEN "" ELSE e.name>>} ELSE {}

\* EntryBaseDropped and its subclasses: a new entry, and Add() to one.  The
\* entries by pid and tid follow the last sender, the others remember that
\* there were several.
NewEntry(e) == [size |-> e.total_len, dropped |-> e.dropped, uid |-> e.uid, pid |-> e.pid]
AddEntry(kind, x, e) ==
    [size |-> Wrap(x.size + e.total_len), dropped |-> x.dropped + e.dropped,
     uid |-> IF kind \in {"pid", "pidSystem", "tid"} \/ x.uid = e.uid THEN e.uid ELSE MIXED,
     pid |-> IF kind = "tid" \/ x.pid = e.pid THEN e.pid ELSE MIXED]

TableAdd(t, ks, e) ==
    Both(t, [k \in ks |-> IF k \in DOMAIN t THEN AddEntry(k[1], t[k], e) ELSE NewEntry(e)])

\* LogHashtable::Subtract(): an entry that comes down to nothing is erased.
TableSubtract(t, ks, e) ==
    LET less(k) == [t[k] EXCEPT !.size = Wrap(@ - e.total_len), !.dropped = Wrap(@ - e.dropped)]
        gone == {k \in ks \cap DOMAIN t : less(k).size = 0 /\ less(k).dropped = 0}
    IN  [k \in DOMAIN t \ gone |-> IF k \in ks THEN less(k) ELSE t[k]]

TableDrop_WholeSize(t, ks, e) ==
    [k \in DOMAIN t |-> IF k \in ks THEN [t[k] EXCEPT !.size = Wrap(@ - e.total_len), !.dropped = @ + 1]
                                    ELSE t[k]]
TableDrop(t, ks, e) ==
    [k \in DOMAIN t |-> IF k \in ks THEN [t[k] EXCEPT !.size = Wrap(@ - e.msg_len), !.dropped = @ + 1]
                                    ELSE t[k]]

TableErase(t, ks, e) ==
    [k \in DOMAIN t |-> IF k \in ks THEN [t[k] EXCEPT !.size = Wrap(@ - e.total_len)] ELSE t[k]]

-----------------------------------------------------------------------------
Tracked(e) == [e EXCEPT !.total_len = IF TrackTotalSize THEN @ ELSE e.msg_len]

AddTotal(s, id, size) ==
    [s EXCEPT !.sizesTotal[id] = @ + size, !.elementsTotal[id] = @ + 1]

\* Add(): "A major time update invalidates the statistics", so a jump of more
\* than an hour moves the oldest time along with the newest.
Clamped(shifted, stamp) == IF shifted > stamp /\ shifted - stamp < HourSec THEN stamp ELSE shifted

Stamped(s, e) ==
    IF s.newest[e.id] >= e.time THEN s
    ELSE LET diff == e.time - s.newest[e.id]
             moved == Clamped(diff + s.oldest[e.id], e.time)
             t == [s EXCEPT !.newest[e.id] = e.time]
         IN  IF diff > HourSec /\ moved <= e.time
             THEN [t EXCEPT !.oldest[e.id] = moved,
                            !.newestDropped[e.id] = IF @ < moved THEN moved ELSE @]
             ELSE t

Add(s, element) ==
    LET e == Tracked(element)
        counted == [s EXCEPT !.sizes[e.id] = Wrap(@ + e.total_len), !.elements[e.id] = @ + 1,
                             !.table = TableAdd(@, Keys(e) \cup TagNameKeys(e), e)]
    IN  Stamped(IF e.dropped > 0
                THEN [counted EXCEPT !.droppedElements[e.id] = @ + 1]
                ELSE AddTotal(counted, e.id, e.total_len), e)

Subtract(s, element) ==
    LET e == Tracked(element)
    IN  [s EXCEPT !.sizes[e.id] = Wrap(@ - e.total_len), !.elements[e.id] = @ - 1,
                  !.droppedElements[e.id] = IF e.dropped > 0 THEN @ - 1 ELSE @,
                  !.oldest[e.id] = IF @ < e.time THEN e.time ELSE @,
                  !.table = TableSubtract(@, Keys(e) \cup TagNameKeys(e), e)]

\* Drop(): e becomes chatty.  total_len is what the caller passed.
Drop(s, e) ==
    [s EXCEPT !.sizes[e.id] = Wrap(@ - e.msg_len), !.droppedElements[e.id] = @ + 1,
              !.newestDropped[e.id] = IF @ < e.time THEN e.time ELSE @,
              !.table = TableSubtract(TableDrop(@, Keys(e), e), TagNameKeys(e), e)]

\* Erase(): e is chatty and its count has gone to another chatty element.
Erased(s, element) ==
    LET e == [element EXCEPT !.total_len = IF TrackTotalSize THEN @ ELSE 0]
    IN  [s EXCEPT !.sizes[e.id] = Wrap(@ - e.total_len), !.elements[e.id] = @ - 1,
                  !.droppedElements[e.id] = @ - 1, !.table = TableErase(@, Keys(e), e)]

\* overhead_ is set by SerializedLogBuffer only.
Sizes(s, id) == s.sizes[id]

\* PidToUid() and PidToName() add an empty entry for a pid they do not know.
PidEntry(s, pid, uid) ==
    IF <<"pid", pid>> \in DOMAIN s.table THEN s
    ELSE [s EXCEPT !.table = Both(@, [k \in {<<"pid", pid>>} |->
                                          [size |-> 0, dropped |-> 0, uid |-> uid, pid |-> pid]])]

-----------------------------------------------------------------------------
(***************************************************************************)
(* MaxEntries(): the len largest entries of one table, largest first, by     *)
(* insertion, in whatever order the hash map gives them.                     *)
(***************************************************************************)
Insert(s, top, k, len) ==
    LET before == {j \in 1 .. Len(top) : s.table[top[j]].size >= s.table[k].size}
        at == Cardinality(before) + 1
    IN  SubSeq(SubSeq(top, 1, at - 1) \o <<k>> \o SubSeq(top, at, Len(top)),
               1, Min({len, Len(top) + 1}))

MaxEntries(s, order, len) ==
    LET add[n \in 0 .. Len(order)] == IF n = 0 THEN << >> ELSE Insert(s, add[n - 1], order[n], len)
    IN  add[Len(order)]

UidTable(s, id) == {k \in DOMAIN s.table : k[1] = "uid" /\ k[2] = id}
PidSystemTable(s, id) == {k \in DOMAIN s.table : k[1] = "pidSystem" /\ k[2] = id}
TagTable(s) == {k \in DOMAIN s.table : k[1] = "tag"}

\* Whatever order the hash map has, the two largest of the table are these.
TopTwo(s, ks, two) ==
    /\ two[1] \in ks /\ two[2] \in ks \ {two[1]}
    /\ \A k \in ks : s.table[k].size <= s.table[two[1]].size
    /\ \A k \in ks \ {two[1]} : s.table[k].size <= s.table[two[2]].size

NoWorst == [worst |-> -1, sizes |-> 0, second |-> 0]

WorstTwoWithThreshold(s, two, threshold) ==
    LET a == s.table[two[1]]   b == s.table[two[2]]
    IN  IF a.size > threshold /\ a.size > 10 * a.dropped
        THEN [worst |-> two[1][Len(two[1])], sizes |-> a.size,
              second |-> IF b.size < threshold THEN threshold ELSE b.size]
        ELSE [NoWorst EXCEPT !.sizes = a.size]

\* The possible results, one for each order of equal sizes
WorstTwo(s, ks, threshold) ==
    IF Cardinality(ks) < 2 THEN {NoWorst}
    ELSE {WorstTwoWithThreshold(s, two, threshold) : two \in {t \in ks \X ks : TopTwo(s, ks, t)}}

\* WorstTwoSystemPids(): 0 when there are not two
WorstTwoSystemPids(s, id, w) ==
    LET ks == {k \in PidSystemTable(s, id) : s.table[k].uid = AID_SYSTEM}
    IN  IF Cardinality(ks) < 2 THEN {[pid |-> 0, second |-> w.second]}
        ELSE {[pid |-> two[1][3],
               second |-> Wrap(w.sizes - s.table[two[1]].size + s.table[two[2]].size)] :
                  two \in {t \in ks \X ks : TopTwo(s, ks, t)}}

-----------------------------------------------------------------------------
(* ShouldPrune(): how many rows to prune from log id, 0 when it is not full  *)
Between(lo, n, hi) == Min({hi, Max({lo, n})})

PruneRows(s, id, max_size) ==
    LET sizes == s.sizes[id]
        size_over == sizes - (max_size * 9) \div 10
        elements == s.elements[id] - s.droppedElements[id]
    IN  IF sizes <= max_size THEN 0
        ELSE Between(Max({elements \div 100, KMinPrune}), (elements * size_over) \div sizes, KMaxPrune)

(* Format(): the span of time each log covers, where it makes sense, and the *)
(* span of all of them.                                                      *)
Spans(s, mask, month) ==
    {i \in mask : s.newest[i] > s.oldest[i] /\ s.newest[i] - s.oldest[i] <= month}
Span(s, i) == s.newest[i] - s.oldest[i]
TotalSpan(s, mask, month) ==
    LET ids == Spans(s, mask, month)
        widest == Max({Span(s, i) : i \in ids})
        all == Max({s.newest[i] : i \in ids}) - Min({s.oldest[i] : i \in ids})
    IN  IF ids = {} THEN 0
        ELSE IF all < MapThenSumSet(LAMBDA i : Span(s, i), ids) /\ all > widest
        THEN all ELSE widest
=============================================================================
