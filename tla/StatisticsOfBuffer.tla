-------------------------- MODULE StatisticsOfBuffer --------------------------
(***************************************************************************)
(* LogStatistics as its clients call it: elements are added, pruned, turned  *)
(* into chatty ones and coalesced in any order, the clock may be set back or *)
(* jump ahead, and pids are looked up.                                       *)
(***************************************************************************)
EXTENDS LogStatistics, SequencesExt

CONSTANTS Sources,        \* messages that may be logged: elements without seq and time
          Times,          \* times they may have
          Month,          \* a month, in units of time
          MaxElements,    \* bound: elements held at once
          MaxAdded        \* bound: elements ever added

VARIABLES contents,       \* the elements in the log buffer
          stats, added
vars == <<contents, stats, added>>

Init == /\ contents = {} /\ added = 0
        /\ stats = NewStatistics(0)

\* LogInternal() of a buffer.  The ChattyLogBuffer, which does not track total sizes,
\* adds a chatty element for identical lines.
LogInternal ==
    /\ added < MaxAdded /\ Cardinality(contents) < MaxElements
    /\ \E x \in Sources, t \in Times, d \in IF TrackTotalSize THEN {0} ELSE {0, 2} :
          LET e == [x EXCEPT !.seq = added + 1, !.time = t, !.dropped = d]
          IN  /\ contents' = contents \cup {e}
              /\ stats' = Add(stats, ToLogStatisticsElement(e))
    /\ added' = added + 1

\* SimpleLogBuffer::Log() of a message that is not loggable
NotLoggable ==
    /\ added < MaxAdded
    /\ \E x \in Sources : stats' = AddTotal(stats, x.id, x.len)
    /\ added' = added + 1 /\ UNCHANGED <<contents>>

\* Erase(it)
Expire == \E e \in contents :
              /\ contents' = contents \ {e}
              /\ stats' = Subtract(stats, ToLogStatisticsElement(e))
              /\ UNCHANGED added

\* stats()->Drop(..), element.SetDropped(1)
MakeChatty == \E e \in contents :
                  /\ ~TrackTotalSize /\ e.dropped = 0
                  /\ stats' = Drop(stats, ToLogStatisticsElement(e))
                  /\ contents' = (contents \ {e}) \cup {SetDropped(e, 1)}
                  /\ UNCHANGED added

\* LogBufferElementLast::coalesce(), Erase(it, true)
Coalesce == \E a, b \in contents :
                /\ ~TrackTotalSize /\ a.seq < b.seq /\ a.dropped > 0 /\ b.dropped > 0
                /\ a.id = b.id /\ a.uid = b.uid /\ a.pid = b.pid /\ a.tid = b.tid
                /\ contents' = (contents \ {a, b}) \cup {SetDropped(a, a.dropped + b.dropped)}
                /\ stats' = Erased(stats, ToLogStatisticsElement(b))
                /\ UNCHANGED added

\* LogKlog and LogAudit look up the uid of a pid they read in a message.
LookUp == \E x \in Sources : /\ stats' = PidEntry(stats, x.pid, x.uid)
                            /\ UNCHANGED <<contents, added>>

Next == LogInternal \/ NotLoggable \/ Expire \/ MakeChatty \/ Coalesce \/ LookUp

Spec == Init /\ [][Next]_vars

-----------------------------------------------------------------------------
SumOver(op(_), S) == MapThenSumSet(op, S)
Of(id) == {e \in contents : e.id = id}
Counted(e) == (IF TrackTotalSize THEN ElementOverhead ELSE 0) + msg_len(e)
With(k) == {e \in contents : LET x == ToLogStatisticsElement(e)
                             IN  k \in Keys(x) \cup TagNameKeys(x)}

(* The counters of every log, in bytes and elements, are what the buffer     *)
(* holds, whatever was dropped and coalesced (Add, Subtract, Drop, Erase).   *)
CountersMatch ==
    \A i \in Logs : /\ stats.sizes[i] = SumOver(Counted, Of(i))
                    /\ stats.elements[i] = Cardinality(Of(i))
                    /\ stats.droppedElements[i] = Cardinality({e \in Of(i) : e.dropped > 0})

Rows == DOMAIN stats.table \cup UNION {Keys(ToLogStatisticsElement(e)) : e \in contents}

\* A chatty element takes over the count of one with another tag, so the tables by tag
\* of a buffer with chatty elements are off; the one by tag name is TagNamesMatch.
Accounted(k) ==
    /\ k[1] # "tagName"
    /\ k[1] \in {"tag", "securityTag"} => TrackTotalSize

(* Every other table adds up to the elements of the buffer with its key,     *)
(* whatever was dropped, coalesced and expired, and in whatever order.       *)
TablesMatch ==
    \A k \in Rows :
        Accounted(k) => /\ k \in DOMAIN stats.table
                        /\ stats.table[k].size = SumOver(Counted, With(k))
                        /\ stats.table[k].dropped = SumOver(dropped_count, With(k))

(* "Subtract only msg_len from statistics, since a chatty element will       *)
(* remain": the table by tag name adds up to the messages that are still in  *)
(* the buffer.                                                               *)
TagNamesMatch ==
    \A k \in DOMAIN stats.table \cup UNION {TagNameKeys(ToLogStatisticsElement(e)) : e \in contents} :
        k[1] = "tagName" => /\ k \in DOMAIN stats.table
                            /\ stats.table[k].size = SumOver(Counted, With(k))

(* However the clock is set, the oldest time of a log is not after its       *)
(* newest, so that the spans of Format() and ReportInteresting() are not     *)
(* negative.                                                                 *)
SpanNotNegative == \A i \in Logs : stats.oldest[i] <= stats.newest[i]

(* "Total reports the greater of the individual maximum time span, or the    *)
(* validated minimum start and maximum end time span if it makes sense": it  *)
(* lies between the widest span and the sum of the spans.                    *)
TotalSpanBetween ==
    \A mask \in SUBSET Logs \ {{}} :
        LET ids == Spans(stats, mask, Month)
        IN  /\ \A i \in ids : TotalSpan(stats, mask, Month) >= Span(stats, i)
            /\ TotalSpan(stats, mask, Month) <= SumOver(LAMBDA i : Span(stats, i), ids)

(* "Returns a sorted array of up to len highest entries sorted by size":     *)
(* MaxEntries() gives that whatever the order of the hash map.               *)
TopEntries ==
    \A i \in Logs, len \in 1 .. 2 :
        LET ks == UidTable(stats, i) IN
        \A order \in SetToSeqs(ks) :
            LET top == MaxEntries(stats, order, len)
                size(j) == stats.table[top[j]].size
            IN  /\ Len(top) = Min({len, Cardinality(ks)}) /\ IsInjective(top)
                /\ \A j \in 1 .. Len(top) - 1 : size(j) >= size(j + 1)
                /\ \A k \in ks \ ToSet(top) : \A j \in DOMAIN top : size(j) >= stats.table[k].size
=============================================================================
