--------------------------- MODULE SimpleLogBuffer ---------------------------
(***************************************************************************)
(* logd/SimpleLogBuffer.{h,cpp}: one list of elements for all logs, pruned   *)
(* from its oldest end up to what the readers still need, with the reader    *)
(* threads that flush it and Clear().                                        *)
(*                                                                          *)
(* An iterator is the sequence number of its element, END is logs_.end().    *)
(* logd_lock is held by "log" (LogListener), "clear" (CommandListener) or a  *)
(* reader, from one unlock to the next; a loop takes one step an iteration.  *)
(*                                                                          *)
(* reader[r].pc: "idle" not connected; "start", "woken" and "timed_out" want *)
(* the lock, at the top of ThreadFunction()'s loop or out of a wait; "flush" *)
(* is in FlushTo(); "write" writes to the client without the lock; "wait"    *)
(* and "wait_until" wait on the condition; "exit" leaves; "gone" has left.   *)
(* The tail and the start time of a reader are in module LogReaderThread.    *)
(***************************************************************************)
EXTENDS LogStatistics, SequencesExt

CONSTANTS Readers,
          Request,      \* what each reader asks for: [mask, uid, deadline, non_block]
          Messages,     \* elements that may be logged, without seq and dropped
          BufferSizes,  \* sizes SetSize() may give a log
          Reinits,      \* sizes that Init() may find in the properties when it runs again
          Clears,       \* the Clear() commands: [id, uid]
          MaxLogged,    \* bound: messages logged
          MaxCommands   \* bound: commands, and messages that are refused

END == 0
NOBODY == "nobody"

Element == [id : Logs, uid : Int, pid : Int, tid : Int, seq : Nat, time : Int, len : Int,
            tag : Int, msg : STRING, dropped : Nat, avc : STRING, count : Int]
RequestValues == [mask : SUBSET Logs, uid : Int, deadline : BOOLEAN, non_block : BOOLEAN]

\* What the proofs assume: messages, requests and commands have the fields of their
\* types, sizes are numbers, and a reader is none of the others that hold logd_lock.
SimpleConstants ==
    /\ Messages \subseteq Element
    /\ \A r \in Readers : Request[r] \in RequestValues
    /\ Clears \subseteq [id : Logs, uid : Int]
    /\ BufferSizes \subseteq Nat /\ Reinits \subseteq Nat
    /\ \A r \in Readers : r \notin {NOBODY, "log", "clear"}
    /\ SizeModulus \in Nat \ {0} /\ ElementOverhead \in Int
    /\ KMinPrune \in Int /\ KMaxPrune \in Int

VARIABLES logs, oldest, stats, sequence, max_size,
          reader, lock,
          todo,         \* the elements that Log() still has to add to the list
          prune,        \* the Prune() under way
          clear,        \* the Clear() under way
          commands,
          delivered,    \* history: what each client was sent
          skipped       \* history: what each reader was told to skip
bufferVars == <<logs, oldest, stats, max_size>>
vars == <<bufferVars, sequence, reader, lock, todo, prune, clear, commands, delivered, skipped>>

NoPrune == [pc |-> "none", result |-> FALSE]
NoClear == [pc |-> "none", retry |-> 0]
Idle == [pc |-> "idle", start |-> 0, it |-> END, mask |-> {}, uid |-> 0, deadline |-> FALSE,
         non_block |-> FALSE, release |-> FALSE, skip |-> [i \in Logs |-> 0],
         last_tid |-> [i \in Logs |-> 0], drop_chatty |-> TRUE]

Init ==
    /\ logs = << >> /\ oldest = [i \in Logs |-> END] /\ stats = NewStatistics(0) /\ sequence = 1
    /\ max_size \in [Logs -> BufferSizes]
    /\ reader = [r \in Readers |-> Idle]
    /\ lock = NOBODY /\ todo = << >> /\ prune = NoPrune /\ clear = NoClear /\ commands = 0
    /\ delivered = [r \in Readers |-> << >>] /\ skipped = [r \in Readers |-> {}]

Pos(it) == CHOOSE k \in DOMAIN logs : logs[k].seq = it
InList(it) == \E k \in DOMAIN logs : logs[k].seq = it
After(it) == IF Pos(it) = Len(logs) THEN END ELSE logs[Pos(it) + 1].seq

-----------------------------------------------------------------------------
(***************************************************************************)
(* The reader threads as the buffer sees them.                              *)
(***************************************************************************)
Connected == {r \in Readers : reader[r].pc \notin {"idle", "gone"}}
IsWatching(r, id) == id \in reader[r].mask

TriggerReader(x) ==
    [x EXCEPT !.pc = IF @ \in {"wait", "wait_until"} THEN "woken" ELSE @]
Release(x) == TriggerReader([x EXCEPT !.release = TRUE])
TriggerSkip(x, id, n) == [x EXCEPT !.skip[id] = n]
CleanSkip(x) == [x EXCEPT !.skip = [i \in Logs |-> 0]]

\* LogReaderList::NotifyNewLog()
NotifyNewLog(id) ==
    [r \in Readers |-> IF r \in Connected /\ IsWatching(r, id) /\ ~reader[r].deadline
                       THEN TriggerReader(reader[r]) ELSE reader[r]]

\* The reader that Prune() finds: the one furthest back, one with a deadline first
OldestReaders(id) ==
    LET all == {r \in Connected : IsWatching(r, id)}
        back == {r \in all : \A q \in all : reader[r].start <= reader[q].start}
        due == {r \in back : reader[r].deadline}
    IN  IF all = {} THEN {NOBODY} ELSE IF due = {} THEN back ELSE due

Blocks_Newer(r, e) == r # NOBODY /\ reader[r].start < e.seq
Blocks(r, e) == r # NOBODY /\ reader[r].start <= e.seq

KickReader(r, id, rows) ==
    reader' = [reader EXCEPT ![r] =
                  IF Sizes(stats, id) > 2 * max_size[id] THEN Release(@)
                  ELSE IF @.deadline THEN TriggerReader(@)
                  ELSE TriggerSkip(@, id, rows)]

-----------------------------------------------------------------------------
(***************************************************************************)
(* The list.                                                                *)
(***************************************************************************)
GetOldest(id) ==
    LET from == IF oldest[id] = END THEN 1 ELSE Pos(oldest[id])
        found == {k \in from .. Len(logs) : logs[k].id = id}
    IN  IF found = {} THEN END ELSE logs[Min(found)].seq

OldestFound(id) == [oldest EXCEPT ![id] = IF GetOldest(id) = END THEN @ ELSE GetOldest(id)]

OldestErased_Stale(it) == oldest
OldestErased(it) == [i \in Logs |-> IF oldest[i] = it THEN After(it) ELSE oldest[i]]

Erase(it) == /\ logs' = RemoveAt(logs, Pos(it))
             /\ oldest' = OldestErased(it)

\* Log(): a message that is not loggable is only counted, without the lock.
Log(m) ==
    /\ lock = NOBODY /\ sequence <= MaxLogged
    /\ todo' = <<[m EXCEPT !.seq = sequence]>> /\ lock' = "log" /\ sequence' = sequence + 1
    /\ UNCHANGED <<bufferVars, reader, prune, clear, commands, delivered, skipped>>

Refuse(m) ==
    /\ m.id # "security" /\ todo = << >> /\ commands < MaxCommands
    /\ stats' = AddTotal(stats, m.id, m.len) /\ commands' = commands + 1
    /\ UNCHANGED <<logs, oldest, max_size, sequence, reader, lock, todo, prune, clear, delivered, skipped>>

\* LogInternal(): to the end of the list, then MaybePrune()
NewPrune(id, rows, uid) == [pc |-> "begin", id |-> id, rows |-> rows, uid |-> uid,
                            result |-> FALSE]

LogInternal ==
    /\ lock = "log" /\ prune.pc = "none" /\ todo # << >>
    /\ LET e == Head(todo)
           s == Add(stats, ToLogStatisticsElement(e))
           rows == PruneRows(s, e.id, max_size[e.id])
       IN  /\ logs' = Append(logs, e) /\ stats' = s
           /\ prune' = IF rows = 0 THEN [NoPrune EXCEPT !.pc = "return"] ELSE NewPrune(e.id, rows, 0)
    /\ UNCHANGED <<oldest, max_size, sequence, reader, lock, todo, clear, commands, delivered, skipped>>

Notify ==
    /\ lock = "log" /\ prune.pc = "return"
    /\ reader' = NotifyNewLog(Head(todo).id)
    /\ todo' = Tail(todo) /\ prune' = NoPrune
    /\ lock' = IF Len(todo) = 1 THEN NOBODY ELSE lock
    /\ UNCHANGED <<bufferVars, sequence, clear, commands, delivered, skipped>>

-----------------------------------------------------------------------------
(* Prune() *)
PruneBegin ==
    /\ prune.pc = "begin"
    /\ \E r \in OldestReaders(prune.id) :
          prune' = [pc |-> "loop", id |-> prune.id, rows |-> prune.rows, uid |-> prune.uid,
                    result |-> FALSE, reader |-> r, it |-> GetOldest(prune.id)]
    /\ oldest' = OldestFound(prune.id)
    /\ UNCHANGED <<logs, stats, max_size, sequence, reader, lock, todo, clear, commands, delivered, skipped>>

Forget(e) == Subtract(stats, ToLogStatisticsElement(e))

PruneReturns(result) == prune' = [NoPrune EXCEPT !.pc = "return", !.result = result]

PruneStep ==
    /\ prune.pc = "loop"
    /\ \/ prune.it = END /\ PruneReturns(TRUE) /\ UNCHANGED <<logs, oldest, stats, reader>>
       \/ /\ prune.it # END
          /\ LET e == logs[Pos(prune.it)]
                 mine == e.id = prune.id /\ (prune.uid = 0 \/ e.uid = prune.uid)
             IN  \/ /\ ~mine
                    /\ prune' = [prune EXCEPT !.it = After(@)]
                    /\ UNCHANGED <<logs, oldest, stats, reader>>
                 \/ /\ mine /\ Blocks(prune.reader, e)
                    /\ KickReader(prune.reader, prune.id, prune.rows)
                    /\ PruneReturns(FALSE)
                    /\ UNCHANGED <<logs, oldest, stats>>
                 \/ /\ mine /\ ~Blocks(prune.reader, e)
                    /\ Erase(prune.it) /\ stats' = Forget(e)
                    /\ \/ prune.rows = 1 /\ PruneReturns(TRUE)
                       \/ prune.rows # 1 /\ prune' = [prune EXCEPT !.it = After(@), !.rows = @ - 1]
                    /\ UNCHANGED reader
    /\ UNCHANGED <<max_size, sequence, lock, todo, clear, commands, delivered, skipped>>

-----------------------------------------------------------------------------
(* Clear(): three tries a second apart, a probe, then the readers are        *)
(* disconnected and there is one more.                                       *)
ULONG_MAX == 1000

StartClear(c) ==
    /\ clear.pc = "none" /\ commands < MaxCommands
    /\ clear' = [pc |-> "try", id |-> c.id, uid |-> c.uid, retry |-> 0]
    /\ commands' = commands + 1
    /\ UNCHANGED <<bufferVars, sequence, reader, lock, todo, prune, delivered, skipped>>

ClearPrune ==
    /\ clear.pc \in {"try", "probe", "last"} /\ lock = NOBODY
    /\ lock' = "clear"
    /\ prune' = NewPrune(clear.id, IF clear.pc = "probe" THEN 1 ELSE ULONG_MAX, clear.uid)
    /\ UNCHANGED <<bufferVars, sequence, reader, todo, clear, commands, delivered, skipped>>

Retried_Never(n) == n
Retried(n) == n + 1

\* What follows Prune(), after a sleep(1) if it was a try
ClearGoesOn ==
    /\ lock = "clear" /\ prune.pc = "return"
    /\ clear' = CASE clear.pc = "try" /\ prune.result -> [NoClear EXCEPT !.retry = clear.retry]
                  [] clear.pc = "try" /\ ~prune.result ->
                         [clear EXCEPT !.retry = Retried(@), !.pc = IF Retried(clear.retry) = 3 THEN "probe" ELSE @]
                  [] clear.pc = "probe" -> [clear EXCEPT !.pc = IF prune.result THEN "last" ELSE "kick"]
                  [] clear.pc = "last" -> NoClear
    /\ prune' = NoPrune /\ lock' = NOBODY
    /\ UNCHANGED <<bufferVars, sequence, reader, todo, commands, delivered, skipped>>

ClearKicks ==
    /\ clear.pc = "kick" /\ lock = NOBODY
    /\ reader' = [r \in Readers |-> IF r \in Connected /\ IsWatching(r, clear.id)
                                    THEN Release(reader[r]) ELSE reader[r]]
    /\ clear' = [clear EXCEPT !.pc = "last"]
    /\ UNCHANGED <<bufferVars, sequence, lock, todo, prune, commands, delivered, skipped>>

SetSize(id, size) ==
    /\ lock = NOBODY /\ commands < MaxCommands
    /\ max_size' = [max_size EXCEPT ![id] = size] /\ commands' = commands + 1
    /\ UNCHANGED <<logs, oldest, stats, sequence, reader, lock, todo, prune, clear, delivered, skipped>>

\* Init(), again: the sizes from the properties, and every reader looks at its logs
Reinit(size) ==
    /\ lock = NOBODY /\ commands < MaxCommands
    /\ max_size' = [i \in Logs |-> size] /\ commands' = commands + 1
    /\ reader' = [r \in Readers |-> TriggerReader(reader[r])]
    /\ UNCHANGED <<logs, oldest, stats, sequence, lock, todo, prune, clear, delivered, skipped>>

-----------------------------------------------------------------------------
(***************************************************************************)
(* The readers.                                                             *)
(***************************************************************************)
\* LogReader::onDataAvailable(): from the beginning, or from now
Connect(r, start) ==
    /\ reader[r].pc = "idle" /\ lock = NOBODY
    /\ reader' = [reader EXCEPT ![r] = [@ EXCEPT !.pc = "start", !.start = start,
                     !.mask = Request[r].mask, !.uid = Request[r].uid,
                     !.deadline = Request[r].deadline, !.non_block = Request[r].non_block]]
    /\ UNCHANGED <<bufferVars, sequence, lock, todo, prune, clear, commands, delivered, skipped>>

\* FlushTo(): where to begin, found from the end of the list
FlushStart(start) ==
    LET upto == {k \in DOMAIN logs : logs[k].seq <= start}
        last == Max(upto)
    IN  IF logs = << >> THEN END
        ELSE IF start <= 1 \/ upto = {} THEN logs[1].seq
        ELSE IF logs[last].seq = start THEN start ELSE After(logs[last].seq)

\* ThreadFunction(): the top of the loop, and the return of wait_until()
LoopTop(r) ==
    LET x == reader[r] IN
    /\ x.pc \in {"start", "woken", "timed_out"} /\ lock = NOBODY
    /\ \/ x.release /\ reader' = [reader EXCEPT ![r].pc = "exit"] /\ lock' = r
       \/ /\ ~x.release /\ x.deadline /\ x.pc = "start"
          /\ reader' = [reader EXCEPT ![r].pc = "wait_until"] /\ UNCHANGED lock
       \/ /\ ~x.release /\ (x.deadline => x.pc # "start")
          /\ reader' = [reader EXCEPT ![r].pc = "flush", ![r].it = FlushStart(x.start),
                                      ![r].deadline = @ /\ x.pc # "timed_out"]
          /\ lock' = r
    /\ UNCHANGED <<bufferVars, sequence, todo, prune, clear, commands, delivered, skipped>>

Deadline(r) ==
    /\ reader[r].pc = "wait_until"
    /\ reader' = [reader EXCEPT ![r].pc = "timed_out"]
    /\ UNCHANGED <<bufferVars, sequence, lock, todo, prune, clear, commands, delivered, skipped>>

\* FilterSecondPass()
FilterSecondPass(x, e) ==
    IF x.skip[e.id] > 0 THEN "kSkip" ELSE IF x.release THEN "kStop" ELSE "kWrite"

MayRead(x, e) == (x.uid = 0 \/ x.uid = e.uid) /\ e.id \in x.mask

\* FlushTo(): one element, to continue, break or unlock()
FlushElement(r) ==
    LET x == reader[r]
        e == logs[Pos(x.it)]
        past == [x EXCEPT !.start = e.seq, !.it = After(x.it)]
        same == x.last_tid[e.id] = e.tid
    IN
    /\ x.pc = "flush" /\ x.it # END /\ lock = r
    /\ \/ /\ ~MayRead(x, e)
          /\ reader' = [reader EXCEPT ![r] = past] /\ UNCHANGED <<lock, skipped>>
       \/ /\ MayRead(x, e) /\ FilterSecondPass(x, e) = "kSkip"
          /\ reader' = [reader EXCEPT ![r] = [past EXCEPT !.skip[e.id] = @ - 1]]
          /\ skipped' = [skipped EXCEPT ![r] = @ \cup {e.seq}] /\ UNCHANGED lock
       \/ /\ MayRead(x, e) /\ FilterSecondPass(x, e) = "kStop"
          /\ reader' = [reader EXCEPT ![r] = [past EXCEPT !.it = END]] /\ UNCHANGED <<lock, skipped>>
       \/ /\ MayRead(x, e) /\ FilterSecondPass(x, e) = "kWrite" /\ x.drop_chatty /\ e.dropped > 0
          /\ reader' = [reader EXCEPT ![r] = past] /\ UNCHANGED <<lock, skipped>>
       \/ /\ MayRead(x, e) /\ FilterSecondPass(x, e) = "kWrite" /\ ~(x.drop_chatty /\ e.dropped > 0)
          /\ reader' = [reader EXCEPT ![r] = [x EXCEPT !.start = e.seq, !.pc = "write",
                           !.drop_chatty = FALSE,
                           !.last_tid[e.id] = IF e.dropped > 0 /\ ~same THEN 0 ELSE e.tid]]
          /\ lock' = NOBODY /\ UNCHANGED skipped
    /\ UNCHANGED <<bufferVars, sequence, todo, prune, clear, commands, delivered>>

Onward(it) == After(it)

\* The client gets the element, and FlushTo() goes on behind it.
WriteSucceeds(r) ==
    /\ reader[r].pc = "write" /\ lock = NOBODY
    /\ delivered' = [delivered EXCEPT ![r] = Append(@, reader[r].it)]
    /\ reader' = [reader EXCEPT ![r].pc = "flush", ![r].it = Onward(@)]
    /\ lock' = r
    /\ UNCHANGED <<bufferVars, sequence, todo, prune, clear, commands, skipped>>

\* The client is gone, or was shut down.
WriteFails(r) ==
    /\ reader[r].pc = "write" /\ lock = NOBODY
    /\ reader' = [reader EXCEPT ![r].pc = "exit"] /\ lock' = r
    /\ UNCHANGED <<bufferVars, sequence, todo, prune, clear, commands, delivered, skipped>>

\* The reader goes behind the last element it looked at.
NextStart_Two(x) == x.start + 2
NextStart(x) == x.start + 1

Ends(x) == x.non_block \/ x.release

FlushReturns(r) ==
    LET x == CleanSkip([reader[r] EXCEPT !.start = NextStart(reader[r])]) IN
    /\ reader[r].pc = "flush" /\ reader[r].it = END /\ lock = r
    /\ \/ /\ Ends(x)
          /\ reader' = [reader EXCEPT ![r] = [x EXCEPT !.pc = "exit"]] /\ UNCHANGED lock
       \/ /\ ~Ends(x)
          /\ reader' = [reader EXCEPT ![r] = [x EXCEPT !.pc = IF x.deadline THEN "wait_until" ELSE "wait"]]
          /\ lock' = NOBODY
    /\ UNCHANGED <<bufferVars, sequence, todo, prune, clear, commands, delivered, skipped>>

ThreadExits(r) ==
    /\ reader[r].pc = "exit" /\ lock = r
    /\ reader' = [reader EXCEPT ![r].pc = "gone"] /\ lock' = NOBODY
    /\ UNCHANGED <<bufferVars, sequence, todo, prune, clear, commands, delivered, skipped>>

-----------------------------------------------------------------------------
ReaderStep(r) == \/ LoopTop(r) \/ FlushElement(r) \/ WriteSucceeds(r) \/ WriteFails(r)
                 \/ FlushReturns(r) \/ ThreadExits(r)

CommonStep ==
    \/ LogInternal \/ Notify
    \/ \E c \in Clears : StartClear(c)
    \/ ClearPrune \/ ClearGoesOn \/ ClearKicks
    \/ \E id \in Logs, size \in BufferSizes : SetSize(id, size)
    \/ \E size \in Reinits : Reinit(size)
    \/ \E m \in Messages : Refuse(m)
    \/ \E r \in Readers : \/ \E s \in {1, sequence} : Connect(r, s)
                          \/ Deadline(r) \/ ReaderStep(r)

Next == \/ CommonStep \/ PruneBegin \/ PruneStep
        \/ \E m \in Messages : Log(m)

\* What must go on by itself: what holds the lock, and the wait for it
LogStep == LogInternal \/ Notify \/ PruneBegin \/ PruneStep
ClearStep == ClearPrune \/ ClearGoesOn \/ ClearKicks
FlushStep(r) == FlushElement(r) \/ FlushReturns(r) \/ ThreadExits(r)
Fairness == /\ WF_vars(LogStep) /\ SF_vars(ClearStep)
            /\ \A r \in Readers : SF_vars(LoopTop(r)) /\ WF_vars(FlushStep(r)) /\ WF_vars(Deadline(r))

Spec == Init /\ [][Next]_vars /\ Fairness

-----------------------------------------------------------------------------
(* "We never prune logs equal to or newer than any LogReaderThreads' `start` *)
(* value, so the `element` pointer is safe here without the lock": the       *)
(* element a reader writes to its client is in the list, and a step that is  *)
(* taken meanwhile neither erases nor changes it.                            *)
ElementIsKept ==
    \A r \in Readers : (reader[r].pc = "write" /\ reader'[r].pc = "write") =>
        \E k \in DOMAIN logs : /\ logs[k].seq = reader[r].it
                               /\ \E j \in DOMAIN logs' : logs'[j] = logs[k]

(* "Keeps track of the iterator to the oldest log message of a given log     *)
(* type": oldest_ is an element of the list, and none of that log is before  *)
(* it, after any pruning and clearing of any log.                            *)
OldestIsExact ==
    \A i \in Logs : oldest[i] # END =>
        /\ InList(oldest[i])
        /\ \A k \in 1 .. Pos(oldest[i]) - 1 : logs[k].id # i

(* The counters of each log are those of its elements in the list.           *)
StatsMatchList ==
    \A i \in Logs : stats.elements[i] = Cardinality({k \in DOMAIN logs : logs[k].id = i})

(* "A misbehaving or slow reader has its connection dropped if we hit too    *)
(* much memory pressure": a message leaves its log above twice the size it   *)
(* may have only if a reader that holds on to the log has been released.     *)
PressureReleases ==
    (lock = "log" /\ prune.pc = "return") =>
        LET i == Head(todo).id
        IN  Sizes(stats, i) > 2 * max_size[i] =>
                \E r \in Connected : IsWatching(r, i) /\ reader[r].release

(* A reader that waits has gone past all there is in its logs:              *)
(* NotifyNewLog() cannot come between the end of FlushTo() and wait().       *)
NoLostWakeup ==
    \A r \in Readers : (reader[r].pc = "wait" /\ lock # "log") =>
        \A k \in DOMAIN logs : MayRead(reader[r], logs[k]) => logs[k].seq < reader[r].start

(* A client gets the entries in the order of the buffer, each at most once.  *)
InOrder == \A r \in Readers : \A j, k \in DOMAIN delivered[r] : j < k => delivered[r][j] < delivered[r][k]

(* What a reader that waits was not sent of its logs, from the first it was  *)
(* sent up to where it is, it was told to skip.                              *)
MissesOnlySkipped(r) ==
    reader[r].pc \in {"wait", "wait_until"} /\ delivered[r] # << >> =>
        \A k \in DOMAIN logs :
            (MayRead(reader[r], logs[k]) /\ logs[k].seq > delivered[r][1] /\ logs[k].seq < reader[r].start)
                => logs[k].seq \in ToSet(delivered[r]) \cup skipped[r]

OnlySkippedIsMissing == \A r \in Readers : MissesOnlySkipped(r)
=============================================================================
