--------------------------- MODULE ChattyLogBuffer ---------------------------
(***************************************************************************)
(* logd/ChattyLogBuffer.{h,cpp}: a SimpleLogBuffer that squashes identical   *)
(* messages as they come in and prunes by the worst sender, leaving "chatty" *)
(* elements that count what they stand for.                                  *)
(*                                                                          *)
(* last_logged[i] and duplicate[i] are the elements that are held back, or   *)
(* NIL.  mLastWorst and mLastWorstPidOfSystem are watermarks: they map a log *)
(* and a uid, tag or pid to an iterator.  Messages have two fields more:     *)
(* avc, the text behind "avc: " of an audit message or "", and count, the    *)
(* number in an event of liblog.  The rules may change at any step: Init()   *)
(* of PruneList takes no lock.                                               *)
(***************************************************************************)
EXTENDS SimpleLogBuffer, PruneList

CONSTANTS Filters,            \* the filters that setPruneList may be given
          LIBLOG_LOG_TAG, Minute, TooOld, EXPIRE_RATELIMIT, EXPIRE_THRESHOLD,
          USHRT_MAX, INT32_MAX

NIL == [seq |-> 0]
worstUidEnabledForLogid == {"main", "system", "radio", "events"}

VARIABLES last_logged, duplicate, mLastWorst, mLastWorstPidOfSystem, rules,
          expired,            \* history: how many messages of each log were pruned
          logged              \* history: the sum of what the LIBLOG events reported
watermarks == <<mLastWorst, mLastWorstPidOfSystem>>
chattyVars == <<last_logged, duplicate, watermarks, rules, expired, logged>>
allVars == <<vars, chattyVars>>

ChattyInit ==
    /\ Init
    /\ last_logged = [i \in Logs |-> NIL] /\ duplicate = [i \in Logs |-> NIL]
    /\ mLastWorst = << >> /\ mLastWorstPidOfSystem = << >>
    /\ rules \in {InitList(f) : f \in Filters} /\ expired = [i \in Logs |-> 0] /\ logged = 0

Rekey(f, k, v) == [x \in DOMAIN f \cup {k} |-> IF x = k THEN v ELSE f[x]]
Unkey(f, ks) == [x \in DOMAIN f \ ks |-> f[x]]

-----------------------------------------------------------------------------
(* Identical(): the bytes of a binary message begin with its tag.             *)
ByTag == {"events", "security"}
Identical(e, l) ==
    IF /\ <<e.uid, e.pid, e.tid>> = <<l.uid, l.pid, l.tid>>
       /\ msg_len(e) > 0 /\ msg_len(l) > 0 /\ e.time <= l.time + Minute
    THEN IF <<e.tag, e.msg, e.count>> = <<l.tag, l.msg, l.count>> THEN "SAME"
         ELSE IF <<e.tag, e.msg>> = <<l.tag, l.msg>> /\ e.id = "events" /\ GetTag(e) = LIBLOG_LOG_TAG
         THEN "SAME_LIBLOG"
         ELSE IF l.id \in ByTag /\ e.tag # l.tag THEN "DIFFERENT"
         ELSE IF e.avc # "" /\ e.avc = l.avc THEN "SAME"
         ELSE "DIFFERENT"
    ELSE "DIFFERENT"

\* LogInternal(): what goes to the list now, and what is held back
DroppedCount(n) == IF n = USHRT_MAX THEN 1 ELSE n + 1

Held(i, toList, l, d) ==
    /\ todo' = toList /\ lock' = IF toList = << >> THEN NOBODY ELSE "log"
    /\ last_logged' = [last_logged EXCEPT ![i] = l] /\ duplicate' = [duplicate EXCEPT ![i] = d]

\* The copy in duplicate is not in the list yet once it stands for messages.
Saved(i) == IF duplicate[i] = NIL THEN << >>
            ELSE IF duplicate[i].dropped > 0 THEN <<duplicate[i], last_logged[i]>>
            ELSE <<last_logged[i]>>

Summed(e, total) == [e EXCEPT !.count = total]
Restarted(e, total) == e

ChattyLog(m) ==
    LET e == [m EXCEPT !.seq = sequence]
        i == m.id
        l == last_logged[i]
        d == duplicate[i]
        match == Identical(e, l)
        total == l.count + e.count
    IN
    /\ lock = NOBODY /\ todo = << >> /\ sequence <= MaxLogged
    /\ sequence' = sequence + 1 /\ logged' = logged + m.count
    /\ \/ /\ i = "security"
          /\ Held(i, <<e>>, l, d) /\ UNCHANGED stats
       \/ /\ i # "security" /\ l = NIL
          /\ Held(i, <<e>>, e, d) /\ UNCHANGED stats
       \/ /\ i # "security" /\ l # NIL /\ match = "DIFFERENT"
          /\ Held(i, Saved(i) \o <<e>>, e, NIL) /\ UNCHANGED stats
       \/ /\ i # "security" /\ l # NIL /\ match # "DIFFERENT" /\ d = NIL
          /\ Held(i, << >>, e, l) /\ UNCHANGED stats
       \/ /\ i # "security" /\ l # NIL /\ match = "SAME_LIBLOG" /\ d # NIL /\ total > INT32_MAX
          /\ Held(i, <<l>>, Restarted(e, total), d) /\ UNCHANGED stats
       \/ /\ i # "security" /\ l # NIL /\ match = "SAME_LIBLOG" /\ d # NIL /\ total <= INT32_MAX
          /\ Held(i, << >>, Summed(e, total), d) /\ stats' = AddTotal(stats, i, msg_len(l))
       \/ /\ i # "security" /\ l # NIL /\ match = "SAME" /\ d # NIL
          /\ Held(i, IF d.dropped = USHRT_MAX THEN <<d>> ELSE << >>, e,
                  SetDropped(l, DroppedCount(d.dropped)))
          /\ stats' = AddTotal(stats, i, msg_len(l))
    /\ UNCHANGED <<logs, oldest, max_size, reader, prune, clear, commands, delivered, skipped,
                   watermarks, rules, expired>>

-----------------------------------------------------------------------------
(* Erase(): the watermarks that point to the element go first. *)
WorstKey(e) == IF e.id \in ByTag THEN GetTag(e) ELSE e.uid

Stale(e) == {k \in DOMAIN mLastWorst : k = <<e.id, WorstKey(e)>> /\ mLastWorst[k] = e.seq}
StalePid(e) == {k \in DOMAIN mLastWorstPidOfSystem :
                   k = <<e.id, e.pid>> /\ mLastWorstPidOfSystem[k] = e.seq}

Weight(e) == IF e.dropped > 0 THEN e.dropped ELSE 1

ChattyErase(e) ==
    /\ Erase(e.seq)
    /\ mLastWorst' = Unkey(mLastWorst, Stale(e))
    /\ mLastWorstPidOfSystem' = Unkey(mLastWorstPidOfSystem, StalePid(e))
    /\ stats' = Subtract(stats, ToLogStatisticsElement(e))
    /\ expired' = [expired EXCEPT ![e.id] = @ + Weight(e)]

CoalescedStats(before, e) == Erased(before, ToLogStatisticsElement(e))

\* Erase(it, true): the count has gone to the element into
EraseCoalesced(e, into, count, before) ==
    /\ logs' = RemoveAt([logs EXCEPT ![Pos(into)] = SetDropped(@, count)], Pos(e.seq))
    /\ oldest' = OldestErased(e.seq)
    /\ mLastWorst' = Unkey(mLastWorst, Stale(e))
    /\ mLastWorstPidOfSystem' = Unkey(mLastWorstPidOfSystem, StalePid(e))
    /\ stats' = CoalescedStats(before, e)
    /\ UNCHANGED expired

\* LogBufferElementLast: the last chatty element of each sender in this pass
Sender(e) == <<e.uid, e.pid, e.tid>>
Coalesced_Replaced(n, more) == n
Coalesced(n, more) == n + more
CanCoalesce(e, n) ==
    /\ Sender(e) \in DOMAIN prune.last
    /\ n + logs[Pos(prune.last[Sender(e)])].dropped <= USHRT_MAX
CoalesceInto(e, n, before) ==
    LET into == prune.last[Sender(e)]
    IN  EraseCoalesced(e, into, Coalesced(n, logs[Pos(into)].dropped), before)

\* clear(element): what is old and counts enough is not added to any more
LastCleared(e) ==
    Unkey(prune.last, {k \in DOMAIN prune.last :
                          LET f == logs[Pos(prune.last[k])]
                          IN  f.dropped >= EXPIRE_THRESHOLD /\ e.time - EXPIRE_RATELIMIT > f.time})

-----------------------------------------------------------------------------
(***************************************************************************)
(* Prune(): prune.pc is "uid" in the loop for one uid, "outer" and "inner"   *)
(* in the first pass, "second" and "third" in the others.                    *)
(***************************************************************************)
unpruned == <<max_size, sequence, lock, todo, clear, commands, delivered, skipped,
              last_logged, duplicate, rules, logged>>
KeepList == UNCHANGED <<logs, oldest, stats, watermarks, expired>>

\* The iterator behind the element; Erase() returns it too.
Past(p) == [p EXCEPT !.it = After(@)]

ChattyPruneBegin ==
    /\ prune.pc = "begin"
    /\ \E r \in OldestReaders(prune.id) :
          prune' = [pc |-> IF prune.uid # AID_ROOT THEN "uid" ELSE "outer", id |-> prune.id,
                    rows |-> prune.rows, all |-> prune.rows = ULONG_MAX, uid |-> prune.uid,
                    result |-> FALSE, reader |-> r, it |-> GetOldest(prune.id),
                    high |-> prune.id # "security" /\ rules.high # << >>]
    /\ oldest' = IF prune.uid # AID_ROOT THEN OldestFound(prune.id) ELSE oldest
    /\ UNCHANGED <<logs, stats, watermarks, expired, reader, unpruned>>

PruneOfUid ==
    LET e == logs[Pos(prune.it)] IN
    /\ prune.pc = "uid"
    /\ \/ prune.it = END /\ PruneReturns(TRUE) /\ KeepList /\ UNCHANGED reader
       \/ /\ prune.it # END /\ (e.id # prune.id \/ e.uid # prune.uid)
          /\ prune' = Past(prune) /\ KeepList /\ UNCHANGED reader
       \/ /\ prune.it # END /\ e.id = prune.id /\ e.uid = prune.uid /\ Blocks(prune.reader, e)
          /\ KickReader(prune.reader, prune.id, prune.rows) /\ PruneReturns(FALSE) /\ KeepList
       \/ /\ prune.it # END /\ e.id = prune.id /\ e.uid = prune.uid /\ ~Blocks(prune.reader, e)
          /\ ChattyErase(e) /\ UNCHANGED reader
          /\ \/ prune.rows = 1 /\ PruneReturns(TRUE)
             \/ prune.rows # 1 /\ prune' = [Past(prune) EXCEPT !.rows = @ - 1]
    /\ UNCHANGED unpruned

\* The worst sender, with the pid of system that is worst, or 0
Offenders(id) ==
    LET threshold == max_size[id] \div 8
        two == IF id \notin worstUidEnabledForLogid \/ ~rules.worst_uid THEN {NoWorst}
               ELSE WorstTwo(stats, IF id \in ByTag THEN TagTable(stats) ELSE UidTable(stats, id), threshold)
        with(w, pid, second) == [worst |-> w.worst, sizes |-> w.sizes, second |-> second, pid |-> pid]
    IN  UNION {IF id \notin ByTag /\ w.worst = AID_SYSTEM /\ rules.worst_pid
               THEN {with(w, p.pid, p.second) : p \in WorstTwoSystemPids(stats, id, w)}
               ELSE {with(w, 0, w.second)} : w \in two}

\* Where to begin: a watermark of the offender, unless there is little to prune
Watermark(o) ==
    LET id == prune.id
    IN  IF prune.rows <= 1 \/ o.worst = -1 THEN END
        ELSE IF o.pid # 0 /\ <<id, o.pid>> \in DOMAIN mLastWorstPidOfSystem
        THEN mLastWorstPidOfSystem[<<id, o.pid>>]
        ELSE IF <<id, o.worst>> \in DOMAIN mLastWorst THEN mLastWorst[<<id, o.worst>>] ELSE END

Second == [pc |-> "second", id |-> prune.id, rows |-> prune.rows, reader |-> prune.reader,
           result |-> FALSE, it |-> GetOldest(prune.id), skipped |-> FALSE,
           low |-> prune.id # "security" /\ rules.low # << >> /\ ~prune.all]

Outer ==
    /\ prune.pc = "outer"
    /\ \/ /\ prune.all \/ prune.rows = 0
          /\ prune' = Second /\ oldest' = OldestFound(prune.id)
       \/ /\ ~prune.all /\ prune.rows > 0
          /\ \E o \in Offenders(prune.id) :
             \/ /\ o.worst = -1 /\ ~prune.high
                /\ prune' = Second /\ oldest' = OldestFound(prune.id)
             \/ /\ o.worst # -1 \/ prune.high
                /\ LET from == Watermark(o)
                   IN  /\ prune' = [pc |-> "inner", id |-> prune.id, rows |-> prune.rows, all |-> FALSE,
                                    uid |-> prune.uid, result |-> FALSE, reader |-> prune.reader,
                                    high |-> prune.high, worst |-> o.worst, sizes |-> o.sizes,
                                    second |-> o.second, pid |-> o.pid, kick |-> FALSE,
                                    leading |-> from = END, gc |-> prune.rows <= 1,
                                    it |-> IF from = END THEN GetOldest(prune.id) ELSE from,
                                    last |-> << >>,
                                    newest |-> IF logs = << >> THEN 0 ELSE logs[Len(logs)].time]
                       /\ oldest' = IF from = END THEN OldestFound(prune.id) ELSE oldest
    /\ UNCHANGED <<logs, stats, watermarks, expired, reader, unpruned>>

\* The end of the inner loop: once more if an offender was found
InnerBreaks(p) == prune' = [p EXCEPT !.pc = "broken"]
Again_Always(p) == rules.worst_uid
Again(p) == p.kick /\ rules.worst_uid
InnerBroken ==
    /\ prune.pc = "broken"
    /\ \/ /\ ~Again(prune)
          /\ prune' = Second /\ oldest' = OldestFound(prune.id)
       \/ /\ Again(prune)
          /\ prune' = [prune EXCEPT !.pc = "outer"] /\ UNCHANGED oldest
    /\ UNCHANGED <<logs, stats, watermarks, expired, reader, unpruned>>

TakesMark(e) == ~prune.gc /\ WorstKey(e) = prune.worst

\* A chatty element is passed: it becomes the watermark of its sender.
MarkChatty(e) ==
    LET k == <<e.id, WorstKey(e)>>   p == <<e.id, e.pid>>
    IN  /\ mLastWorst' = IF (TakesMark(e) /\ prune.pid = 0) \/ k \notin DOMAIN mLastWorst
                         THEN Rekey(mLastWorst, k, e.seq) ELSE mLastWorst
        /\ mLastWorstPidOfSystem' =
              IF prune.pid # 0 /\ ((~prune.gc /\ e.pid = prune.pid) \/ p \notin DOMAIN mLastWorstPidOfSystem)
              THEN Rekey(mLastWorstPidOfSystem, p, e.seq) ELSE mLastWorstPidOfSystem

\* sizes - len, or a loop that ends because another sender is worse now
NextOffence(p, len) ==
    IF p.sizes < p.second THEN InnerBreaks(p)
    ELSE prune' = [p EXCEPT !.sizes = Wrap(@ - len)]

\* "Do not let chatty eliding trigger any reader mitigation"
InnerLocked(e) == Blocks(prune.reader, e)

Inner ==
    LET e == logs[Pos(prune.it)]
        next == Past(prune)
        worst == WorstKey(e) = prune.worst /\ prune.pid \in {0, e.pid}
        old == e.time < prune.newest - TooOld \/ e.time > prune.newest
        high == prune.high /\ IsHighPriority(rules, e)
        locked == InnerLocked(e)
        mine == e.id = prune.id
        leads == e.dropped > 0 /\ prune.leading
        joins == e.dropped > 0 /\ ~prune.leading /\ CanCoalesce(e, e.dropped)
        forgets == e.dropped > 0 /\ Sender(e) \in DOMAIN prune.last
        last == IF forgets THEN Unkey(prune.last, {Sender(e)}) ELSE prune.last
    IN
    /\ prune.pc = "inner"
    /\ \/ prune.it = END /\ InnerBreaks(prune) /\ KeepList
       \/ prune.it # END /\ locked /\ InnerBreaks(prune) /\ KeepList
       \/ prune.it # END /\ ~locked /\ ~mine /\ prune' = next /\ KeepList
       \/ prune.it # END /\ ~locked /\ mine /\ leads /\ ChattyErase(e) /\ prune' = next
       \/ prune.it # END /\ ~locked /\ mine /\ joins /\ CoalesceInto(e, e.dropped, stats) /\ prune' = next
       \/ /\ prune.it # END /\ ~locked /\ mine /\ ~leads /\ ~joins /\ high
          /\ ChattyErase(e)
          /\ LET p == [next EXCEPT !.last = Unkey(LastCleared(e), IF forgets THEN {Sender(e)} ELSE {}),
                                   !.rows = IF e.dropped > 0 THEN @ ELSE @ - 1]
                 kicked == [p EXCEPT !.kick = TRUE]
             IN  \/ e.dropped > 0 /\ prune' = p
                 \/ e.dropped = 0 /\ p.rows = 0 /\ InnerBreaks(p)
                 \/ e.dropped = 0 /\ p.rows # 0 /\ WorstKey(e) # prune.worst /\ prune' = p
                 \/ /\ e.dropped = 0 /\ p.rows # 0 /\ WorstKey(e) = prune.worst
                    \* the length is read from the element that was erased
                    /\ \E len \in {0, e.len} : NextOffence(kicked, len)
       \/ prune.it # END /\ ~locked /\ mine /\ ~leads /\ ~joins /\ ~high /\ old
          /\ InnerBreaks(prune) /\ KeepList
       \/ /\ prune.it # END /\ ~locked /\ mine /\ ~leads /\ ~joins /\ ~high /\ ~old /\ e.dropped > 0
          /\ MarkChatty(e)
          /\ prune' = [next EXCEPT !.last = Rekey(last, Sender(e), e.seq)]
          /\ UNCHANGED <<logs, oldest, stats, expired>>
       \/ /\ prune.it # END /\ ~locked /\ mine /\ ~high /\ ~old /\ e.dropped = 0 /\ ~worst
          /\ prune' = [next EXCEPT !.leading = FALSE, !.last = LastCleared(e)] /\ KeepList
       \/ /\ prune.it # END /\ ~locked /\ mine /\ ~high /\ ~old /\ e.dropped = 0 /\ worst
          /\ LET p == [prune EXCEPT !.rows = @ - 1]
                 q == [next EXCEPT !.rows = @ - 1, !.kick = TRUE]
                 chatty == SetDropped(e, 1)
                 dropped == Drop(stats, ToLogStatisticsElement(e))
             IN  \/ p.rows = 0 /\ InnerBreaks(p) /\ KeepList
                 \/ p.rows # 0 /\ prune.leading /\ ChattyErase(e) /\ NextOffence(q, e.len)
                 \/ /\ p.rows # 0 /\ ~prune.leading /\ CanCoalesce(e, 1)
                    /\ EraseCoalesced(chatty, prune.last[Sender(e)],
                                      Coalesced(1, logs[Pos(prune.last[Sender(e)])].dropped), dropped)
                    /\ NextOffence(q, e.len)
                 \/ /\ p.rows # 0 /\ ~prune.leading /\ ~CanCoalesce(e, 1)
                    /\ logs' = [logs EXCEPT ![Pos(e.seq)] = chatty] /\ stats' = dropped
                    /\ MarkChatty(e)
                    /\ NextOffence([q EXCEPT !.last = Rekey(prune.last, Sender(e), e.seq)], e.len)
                    /\ UNCHANGED <<oldest, expired>>
    /\ UNCHANGED <<reader, unpruned>>

\* The second pass leaves what has a low priority, the third does not.
LaterPass ==
    LET e == logs[Pos(prune.it)]
        low == /\ prune.pc = "second" /\ prune.low /\ e.dropped = 0 /\ IsLowPriority(rules, e)
        ends == prune.rows = 0 \/ prune.it = END
        again == prune.pc = "second" /\ prune.skipped /\ prune.rows > 0
        stop(it) == IF again
                    THEN prune' = [prune EXCEPT !.pc = "third", !.it = GetOldest(prune.id)]
                         /\ oldest' = OldestFound(prune.id)
                    ELSE PruneReturns(prune.rows = 0 \/ it = END) /\ UNCHANGED oldest
        keep == UNCHANGED <<logs, stats, watermarks, expired>>
    IN
    /\ prune.pc \in {"second", "third"}
    /\ \/ ends /\ stop(prune.it) /\ keep /\ UNCHANGED reader
       \/ /\ ~ends /\ e.id # prune.id
          /\ prune' = Past(prune) /\ keep /\ UNCHANGED <<oldest, reader>>
       \/ /\ ~ends /\ e.id = prune.id /\ Blocks(prune.reader, e)
          /\ stop(prune.it) /\ keep
          /\ IF again THEN UNCHANGED reader ELSE KickReader(prune.reader, prune.id, prune.rows)
       \/ /\ ~ends /\ e.id = prune.id /\ ~Blocks(prune.reader, e) /\ low
          /\ prune' = [Past(prune) EXCEPT !.skipped = TRUE] /\ keep /\ UNCHANGED <<oldest, reader>>
       \/ /\ ~ends /\ e.id = prune.id /\ ~Blocks(prune.reader, e) /\ ~low
          /\ ChattyErase(e) /\ prune' = [Past(prune) EXCEPT !.rows = @ - 1] /\ UNCHANGED reader
    /\ UNCHANGED unpruned

\* setPruneList, without logd_lock
SetPruneList(f) ==
    /\ commands < MaxCommands /\ commands' = commands + 1
    /\ rules' = InitList(f) /\ rules' # rules
    /\ UNCHANGED <<bufferVars, sequence, reader, lock, todo, prune, clear, delivered, skipped,
                   last_logged, duplicate, watermarks, expired, logged>>

-----------------------------------------------------------------------------
PruneNext == ChattyPruneBegin \/ PruneOfUid \/ Outer \/ Inner \/ InnerBroken \/ LaterPass

ChattyNext == \/ CommonStep /\ UNCHANGED chattyVars
              \/ PruneNext
              \/ \E m \in Messages : ChattyLog(m)
              \/ \E f \in Filters : SetPruneList(f)

ChattySpec == ChattyInit /\ [][ChattyNext]_allVars /\ WF_allVars(PruneNext)

-----------------------------------------------------------------------------
(* DEBUG_CHECK_FOR_STALE_ENTRIES: a watermark never outlives its element, and *)
(* points to an element of its log.                                          *)
WatermarksAreLive ==
    /\ \A k \in DOMAIN mLastWorst : \E j \in DOMAIN logs : logs[j].seq = mLastWorst[k] /\ logs[j].id = k[1]
    /\ \A k \in DOMAIN mLastWorstPidOfSystem :
          \E j \in DOMAIN logs : logs[j].seq = mLastWorstPidOfSystem[k] /\ logs[j].pid = k[2]

(* While Prune() moves through the list its iterators are to elements of it.  *)
PruneIteratorsAreLive ==
    /\ prune.pc \in {"uid", "inner", "second", "third"} => prune.it = END \/ InList(prune.it)
    /\ prune.pc = "inner" => \A k \in DOMAIN prune.last :
                                 InList(prune.last[k]) /\ logs[Pos(prune.last[k])].dropped > 0

\* What is in the list or on its way there, and the last message that is held back
Counted(weight(_)) ==
    LET listed(n, e) == n + weight(e)
        waiting == IF prune.pc = "none" \/ lock # "log" THEN todo ELSE Tail(todo)
        last(i) == IF duplicate[i] = NIL THEN 0 ELSE weight(last_logged[i])
    IN  FoldLeft(listed, FoldLeft(listed, 0, logs), waiting) + MapThenSumSet(last, Logs)
Squashed(i) == IF duplicate[i] = NIL THEN 0 ELSE duplicate[i].dropped

(* What was logged and not pruned is in the list, or counted by a chatty      *)
(* element, or held back: squashing and coalescing lose no message.          *)
EveryMessageIsCounted ==
    Counted(Weight) + MapThenSumSet(LAMBDA i : Squashed(i) + expired[i], Logs) = sequence - 1

\* What the events of LIBLOG report that are in the list or held back
Reported(e) == IF e.dropped = 0 THEN e.count ELSE 0

(* The sum of LIBLOG events never counts an event twice, also where it would *)
(* pass INT32_MAX and starts again.                                          *)
LiblogIsNotInflated == Counted(Reported) <= logged

(* A message is sent to a client once, although the list is not sorted by     *)
(* sequence number: what was held back enters it late.                       *)
SentOnce == \A r \in Readers : \A j, k \in DOMAIN delivered[r] : j # k => delivered[r][j] # delivered[r][k]
=============================================================================
