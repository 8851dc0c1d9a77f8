-------------------------------- MODULE Logd --------------------------------
(***************************************************************************)
(* The serialized log buffer with everything that runs on it: the writers   *)
(* and commands of SerializedLogBuffer, the threads of LogReaderThread and  *)
(* the listener thread of logd/LogReader.cpp that creates and releases them. *)
(***************************************************************************)
EXTENDS LogReaderThread

CONSTANTS
    LOG_ID_SECURITY,
    Requests        \* what a client may ask for: see RequestAssumption

ASSUME RequestAssumption ==
    \A q \in Requests : /\ q.tail \in Nat
                        /\ q.start \in Nat
                        /\ q.pid \in Nat
                        /\ q.uid \in Nat
                        /\ q.lids \subseteq LogIds
                        /\ {q.timeout, q.non_block, q.privileged, q.can_read_security}
                              \subseteq BOOLEAN

vars == <<thread, state, logd_lock, chunk, logs, max_size, stats, sequence, pending,
          clear, late, commands, delivered>>

-----------------------------------------------------------------------------
(***************************************************************************)
(* LogReader::onDataAvailable() runs in one listener thread, for one client *)
(* at a time.                                                               *)
(***************************************************************************)
ListenerBusyWith(r) ==
    \/ thread[r].pc = "found"
    \/ thread[r].pc \in {"flush", "stop"} /\ thread[r].pass = "find"

ListenerFree == \A r \in Readers : ~ListenerBusyWith(r)

NoRequest == [tail |-> 0, start |-> EPOCH, timeout |-> FALSE, lids |-> {}, pid |-> 0,
              non_block |-> FALSE, privileged |-> FALSE, uid |-> 0,
              can_read_security |-> FALSE]

\* The fields of a LogReaderThread, and the locals of onDataAvailable()
NewThread(q, pc) ==
    [pc             |-> pc,
     pass           |-> "find",
     log_id         |-> 0,
     out            |-> 0,
     request        |-> q,
     log_mask       |-> IF q.can_read_security THEN q.lids ELSE q.lids \ {LOG_ID_SECURITY},
     pid            |-> q.pid,
     uid            |-> q.uid,
     privileged     |-> q.privileged,
     non_block      |-> q.non_block,
     tail           |-> q.tail,
     count          |-> 0,
     index          |-> 0,
     start_time     |-> q.start,
     deadline       |-> q.timeout /\ q.start # EPOCH,
     release        |-> FALSE,
     sequence       |-> 1,
     last           |-> 1,
     start_time_set |-> FALSE]

\* A command arrives.  With a start time, the entries are searched for it first.
OnDataAvailable(r) ==
    /\ thread[r].pc = "idle"
    /\ ListenerFree
    /\ \E q \in Requests :
          \/ /\ q.start = EPOCH
             /\ thread' = [thread EXCEPT ![r] = NewThread(q, "found")]
             /\ UNCHANGED <<logd_lock, state>>
          \/ /\ q.start # EPOCH
             /\ LockFree
             /\ logd_lock' = {r}
             /\ thread' = [thread EXCEPT ![r] = NewThread(q, "flush")]
             /\ state' = WithState(Temp(r), NewFlushToState(1, NewThread(q, "flush").log_mask))
    /\ UNCHANGED <<bufferVars, delivered>>

\* The search is over: its state is destroyed and the lock released.
FindReturns(r) ==
    /\ thread[r].pc = "stop" /\ thread[r].pass = "find"
    /\ logd_lock = {r}
    /\ chunk' = DetachAll(Temp(r))
    /\ state' = WithoutState(Temp(r))
    /\ logd_lock' = {}
    /\ \/ /\ thread[r].start_time_set
          /\ thread' = [thread EXCEPT ![r].pc = "found"]
       \/ /\ ~thread[r].start_time_set /\ thread[r].non_block
          /\ thread' = [thread EXCEPT ![r].pc = "gone"]
       \/ /\ ~thread[r].start_time_set /\ ~thread[r].non_block
          /\ thread' = [thread EXCEPT ![r].pc = "found", ![r].sequence = sequence]
    /\ UNCHANGED <<logs, max_size, stats, sequence, pending, clear, late, commands, delivered>>

\* The LogReaderThread is created and put into reader_threads_.
CreateThread(r) ==
    /\ thread[r].pc = "found"
    /\ LockFree
    /\ state' = WithState(Main(r), NewFlushToState(thread[r].sequence, thread[r].log_mask))
    /\ thread' = [thread EXCEPT ![r].pc = "start", ![r].pass = "second",
                                ![r].last = 1, ![r].start_time_set = FALSE]
    /\ UNCHANGED <<bufferVars, logd_lock, delivered>>

\* DoSocketDelete(): the client hung up, or sent a second command.
DoSocketDelete(r) ==
    /\ ListenerFree
    /\ LockFree
    /\ r \in reader_threads
    /\ ~thread[r].release
    /\ thread' = [thread EXCEPT ![r] = Release(@)]
    /\ UNCHANGED <<bufferVars, logd_lock, state, delivered>>

-----------------------------------------------------------------------------
Init ==
    /\ BufferInit
    /\ thread = [r \in Readers |-> NewThread(NoRequest, "idle")]
    /\ state = [s \in {} |-> 0]
    /\ delivered = [r \in Readers |-> << >>]

Next ==
    \/ BufferNext /\ UNCHANGED delivered
    \/ \E r \in Readers :
          \/ OnDataAvailable(r) \/ FindReturns(r) \/ CreateThread(r) \/ DoSocketDelete(r)
          \/ ReaderStep(r) \/ DeadlinePasses(r)

Spec == Init /\ [][Next]_vars

(***************************************************************************)
(* A thread that can run does, and gets logd_lock when it is free; a write  *)
(* to a client ends, if only by LOGD_SNDTIMEO; time passes.  Nothing is     *)
(* assumed of clients and commands, nor that a writer logs at all.          *)
(***************************************************************************)
Fairness ==
    /\ \A w \in Writers : WF_vars(Log(w) /\ UNCHANGED delivered)
    /\ WF_vars(ClearStep /\ UNCHANGED delivered)
    /\ \A r \in Readers : /\ WF_vars(FindReturns(r))
                          /\ WF_vars(CreateThread(r))
                          /\ WF_vars(ReaderStep(r))
                          /\ WF_vars(DeadlinePasses(r))

FairSpec == Spec /\ Fairness

-----------------------------------------------------------------------------
(***************************************************************************)
(* Types                                                                    *)
(***************************************************************************)
Entry == [sequence : Nat, realtime : Nat, uid : Nat, pid : Nat, msg_len : Nat]

Chunk == [contents : Nat, entries : Seq(Entry), write_offset : Nat, reader_ref_count : Int,
          writer_active : BOOLEAN, highest_sequence_number : Nat, compressed_log : Nat,
          readers : SUBSET States]

Position == [buffer_it : ChunkIds, read_offset : Nat]

\* The FlushToStates that have positions in the logs I
FlushToState(I) == [start : Nat, log_mask : SUBSET LogIds, logs_needed : SUBSET LogIds,
                    log_positions : [I -> Position]]

Thread == [pc : {"idle", "found", "start", "flush", "stop", "write", "wait", "woken",
                 "wait_until", "notified", "timed_out", "exit", "gone"},
           pass : {"find", "first", "second"}, log_id : 0 .. LOG_ID_MAX, out : Nat,
           request : Requests \cup {NoRequest}, log_mask : SUBSET LogIds,
           pid : Nat, uid : Nat, privileged : BOOLEAN, non_block : BOOLEAN,
           tail : Nat, count : Nat, index : Nat, start_time : Nat,
           deadline : BOOLEAN, release : BOOLEAN,
           sequence : Nat, last : Nat, start_time_set : BOOLEAN]

\* Every variable has its type; a list names chunks, a heap cell is a chunk.  The
\* values of stats, which are sums, are pinned by StatsMatchBuffer and SizeIsBounded.
TypeOK ==
    /\ logd_lock \in {{}} \cup {{h} : h \in Readers \cup {"command"}}
    /\ DOMAIN chunk \subseteq ChunkIds
    /\ \A c \in DOMAIN chunk : chunk[c] \in Chunk
    /\ logs \in [LogIds -> Seq(ChunkIds)]
    /\ max_size \in [LogIds -> Sizes \cap (kLogBufferMinSize .. kLogBufferMaxSize)]
    /\ sequence \in Nat
    /\ DOMAIN pending \subseteq Writers
    /\ \A w \in DOMAIN pending : pending[w] \in [log_id : LogIds, entry : Entry]
    /\ clear \in [log_id : Nat, uid : Nat, new_logs : Seq(ChunkIds),
                  contains_uid_logs : BOOLEAN, entry : Nat]
    /\ late \in [Readers -> SUBSET Nat]
    /\ commands \in [set_sizes : Nat, reinits : Nat, clears : Nat, uid_clears : Nat]
    /\ DOMAIN state \subseteq States
    /\ \A s \in DOMAIN state : /\ DOMAIN state[s].log_positions \subseteq LogIds
                               /\ state[s] \in FlushToState(DOMAIN state[s].log_positions)
    /\ thread \in [Readers -> Thread]
    /\ delivered \in [Readers -> Seq(Nat)]

-----------------------------------------------------------------------------
(***************************************************************************)
(* The chunks and the positions in them                                     *)
(***************************************************************************)
Clearing == logd_lock = {"command"}

\* The chunk ClearLogsByUid() is copying from, on which it holds a reference
IsBeingCopied(c) == Clearing /\ clear.entry # 0 /\ c = Head(logs[clear.log_id])

\* The lists: the logs, and the new_logs of a running ClearLogsByUid()
Lists == {logs[i] : i \in LogIds} \cup {clear.new_logs}

(***************************************************************************)
(* A position of a FlushToState never refers to an erased chunk: it is in a *)
(* chunk of its log, at or before the end of what was written there, and    *)
(* the chunk knows the state as a reader, so that NotifyReadersOfPrune()    *)
(* will reach it (std::list iterators kept across unlock() in FlushTo()).   *)
(***************************************************************************)
PositionsAreValid ==
    \A s \in DOMAIN state : \A i \in DOMAIN state[s].log_positions :
        LET pos == state[s].log_positions[i]
        IN  /\ pos.buffer_it \in Elements(logs[i]) \cap DOMAIN chunk
            /\ s \in chunk[pos.buffer_it].readers
            /\ pos.read_offset <= Len(chunk[pos.buffer_it].entries)
            /\ i \notin state[s].logs_needed
                  => pos.read_offset < Len(chunk[pos.buffer_it].entries)

(***************************************************************************)
(* reader_ref_count_ counts exactly the states positioned in the chunk and  *)
(* the copy ClearLogsByUid() is making: the CHECKs in DecReaderRefCount(),  *)
(* DetachReader(), SerializedFlushToState::Prune() and ~SerializedLogChunk() *)
(* cannot fire, and no reference is leaked.                                 *)
(***************************************************************************)
RefCountsAreExact ==
    \A c \in DOMAIN chunk :
        /\ chunk[c].readers =
              {s \in DOMAIN state : \E i \in DOMAIN state[s].log_positions :
                                        state[s].log_positions[i].buffer_it = c}
        /\ chunk[c].reader_ref_count =
              Cardinality(chunk[c].readers) + (IF IsBeingCopied(c) THEN 1 ELSE 0)

(***************************************************************************)
(* The contents of a chunk are in memory whenever log_entry() may be called *)
(* on it (its CHECK), are freed when the last reader of a finished chunk    *)
(* leaves, and no entry was written past their end (CanLog()).              *)
(***************************************************************************)
ContentsAreAvailable ==
    \A c \in DOMAIN chunk :
        IF chunk[c].writer_active \/ chunk[c].reader_ref_count > 0
        THEN chunk[c].write_offset <= chunk[c].contents
        ELSE chunk[c].contents = 0

(***************************************************************************)
(* Only the newest chunk of a log is writable, all others are compressed:   *)
(* Log() always finds a chunk that is not compressed (the CHECK in          *)
(* FinishWriting()), across pruning, clearing and resizing.                 *)
(***************************************************************************)
OnlyNewestIsWritable ==
    \A list \in Lists : \A k \in 1 .. Len(list) :
        LET c == chunk[list[k]]
        IN  /\ c.writer_active <=> c.compressed_log = 0
            /\ c.writer_active => k = Len(list)
            /\ ~c.writer_active => k < Len(list) \/ (Clearing /\ list = clear.new_logs
                                                       /\ ~clear.contains_uid_logs)

Distinct(list) == \A k, m \in 1 .. Len(list) : list[k] = list[m] => k = m

\* No chunk is in two places of the lists, and every one of them is live.
ListsAreDisjoint ==
    /\ Distinct(clear.new_logs)
    /\ Elements(clear.new_logs) \subseteq DOMAIN chunk
    /\ \A i \in LogIds : /\ Distinct(logs[i])
                          /\ Elements(logs[i]) \subseteq DOMAIN chunk
                          /\ Elements(logs[i]) \cap Elements(clear.new_logs) = {}
    /\ \A i, j \in LogIds : i # j => Elements(logs[i]) \cap Elements(logs[j]) = {}

\* Every chunk is in exactly one place of one list: nothing is leaked or shared.
ChunksAreListed ==
    \A c \in DOMAIN chunk : \E list \in Lists : c \in Elements(list)

ChunksAreOwned == ListsAreDisjoint /\ ChunksAreListed

\* Pruning, clearing and resizing rewrite the lists of chunks and leave no chunk out of
\* them or in two of them, and none behind the newest that can still be written.
ListsAreSound == ChunksAreOwned /\ OnlyNewestIsWritable

(***************************************************************************)
(* What makes PositionsAreValid inductive                                   *)
(***************************************************************************)

\* ClearLogsByUid() detaches the readers of a chunk before it copies and erases it.
ClearIsConsistent ==
    /\ ~Clearing => clear.new_logs = << >> /\ clear.entry = 0
    /\ Clearing => clear.log_id \in LogIds
    /\ Clearing /\ clear.entry # 0 => /\ logs[clear.log_id] # << >>
                                     /\ chunk[Head(logs[clear.log_id])].readers = {}

\* A thread has its FlushToState, and a search or first pass its own, while it runs.
NeedsMain(t) ==
    \/ t.pc \in {"start", "write", "wait", "woken", "wait_until", "notified", "timed_out", "exit"}
    \/ t.pc \in {"flush", "stop"} /\ t.pass # "find"

NeedsTemp(t) == t.pc \in {"flush", "stop"} /\ t.pass # "second"

ThreadsHaveStates ==
    \A r \in Readers : /\ NeedsMain(thread[r]) => Main(r) \in DOMAIN state
                       /\ NeedsTemp(thread[r]) => Temp(r) \in DOMAIN state
                       /\ thread[r].pc = "write" => thread[r].pass = "second"

\* The first inductive invariant: a step from a state in it ends in a state in it.
IInv ==
    /\ TypeOK
    /\ PositionsAreValid
    /\ ListsAreDisjoint
    /\ ClearIsConsistent
    /\ ThreadsHaveStates
    /\ \A c \in DOMAIN chunk : IsFiniteSet(chunk[c].readers)

(***************************************************************************)
(* What makes RefCountsAreExact, ContentsAreAvailable and ListsAreSound     *)
(* inductive, on top of IInv                                                *)
(***************************************************************************)

\* A chunk on which ClearLogsByUid() holds as many references as copies says
IsSound(c, copies) ==
    /\ c.reader_ref_count = Cardinality(c.readers) + copies
    /\ c.writer_active <=> c.compressed_log = 0
    /\ IF c.writer_active \/ c.reader_ref_count > 0 THEN c.write_offset <= c.contents
                                                    ELSE c.contents = 0
    /\ \A k \in 1 .. Len(c.entries) : c.entries[k].msg_len <= LOGGER_ENTRY_MAX_PAYLOAD

Copies(c) == IF IsBeingCopied(c) THEN 1 ELSE 0

ChunksAreSound == \A c \in DOMAIN chunk : IsSound(chunk[c], Copies(c))

\* Log() has cut what is longer than an entry may be.
PendingAreCut ==
    \A w \in DOMAIN pending : pending[w].entry.msg_len <= LOGGER_ENTRY_MAX_PAYLOAD

\* Every reader of a chunk has a position in it: the converse of PositionsAreValid.
ReadersArePositioned ==
    \A c \in DOMAIN chunk : \A s \in chunk[c].readers :
        /\ s \in DOMAIN state
        /\ \E i \in DOMAIN state[s].log_positions : state[s].log_positions[i].buffer_it = c

NewestIsWritable(list, heap) ==
    \A c \in Elements(list) : heap[c].writer_active <=> c = list[Len(list)]

NoneIsWritable(list, heap) == \A c \in Elements(list) : ~heap[c].writer_active

\* The chunks ClearLogsByUid() moves to new_logs are finished until the last one comes,
\* or until it opens a new chunk there, which it does before it copies an entry.
NewestAreWritable ==
    /\ \A i \in LogIds : NewestIsWritable(logs[i], chunk)
    /\ Clearing => IF clear.contains_uid_logs \/ logs[clear.log_id] = << >>
                   THEN NewestIsWritable(clear.new_logs, chunk)
                   ELSE NoneIsWritable(clear.new_logs, chunk)
    /\ Clearing /\ clear.entry # 0 => clear.contains_uid_logs

ChunkInv ==
    /\ PendingAreCut
    /\ ChunksAreSound
    /\ ReadersArePositioned
    /\ ChunksAreListed
    /\ NewestAreWritable

\* A FlushToState lives no longer than a thread needs it.
StatesHaveThreads ==
    \A r \in Readers : /\ Main(r) \in DOMAIN state => NeedsMain(thread[r])
                       /\ Temp(r) \in DOMAIN state => NeedsTemp(thread[r])

\* Everything that is proved inductive of the buffer and the references into it
BufferInv == IInv /\ StatesHaveThreads /\ ChunkInv

(***************************************************************************)
(* What makes TailIsRespected inductive                                     *)
(***************************************************************************)

\* The thread is not created yet.
IsUncreated(t) ==
    \/ t.pc \in {"idle", "found"}
    \/ t.pc \in {"flush", "stop"} /\ t.pass = "find"

\* The second pass of a thread that runs only one has not begun.
IsBeforeSecondPass(t) ==
    \/ IsUncreated(t)
    \/ t.pc \in {"start", "wait_until", "notified", "timed_out"}
    \/ t.pc \in {"flush", "stop"} /\ t.pass = "first"

\* What a thread t has sent or is sending, if it has sent n
Sent(t, n) == IF t.pc = "write" THEN n + 1 ELSE n

\* Of the count entries of the first pass the second skips all but the last tail.
IsCounted(t, n) ==
    /\ t.non_block = t.request.non_block
    /\ IsUncreated(t) => n = 0
    /\ t.non_block => /\ t.tail = t.request.tail
                      /\ t.pc \notin {"wait", "woken"}
                      /\ IsBeforeSecondPass(t) => t.index = 0 /\ n = 0
    /\ t.non_block /\ t.tail # 0 =>
          /\ t.index <= t.count
          /\ Sent(t, n) <= t.index
          /\ t.count > t.tail => Sent(t, n) = 0 \/ Sent(t, n) <= t.index - (t.count - t.tail)

TailsAreCounted == \A r \in Readers : IsCounted(thread[r], Len(delivered[r]))

(***************************************************************************)
(* What makes DeliveredInOrder inductive                                    *)
(***************************************************************************)
LastOf(d) == d[Len(d)]

\* What client r was sent is not above the start of its thread.
StartFollows ==
    \A r \in Readers :
        /\ IsUncreated(thread[r]) => delivered[r] = << >>
        /\ Main(r) \in DOMAIN state /\ delivered[r] # << >>
              => LastOf(delivered[r]) <= state[Main(r)].start
        /\ thread[r].pc = "write" => thread[r].out = state[Main(r)].start

\* The entry numbers a thread t that has been sent d came to last
CameTo(t, d) ==
    (IF d # << >> THEN {LastOf(d)} ELSE {}) \cup (IF t.pc = "write" THEN {t.out} ELSE {})

LastRead(r) == CameTo(thread[r], delivered[r])

NumbersIn(heap) ==
    UNION {{heap[c].entries[k].sequence : k \in 1 .. Len(heap[c].entries)} : c \in DOMAIN heap}

\* No two entries in heap have the same number.
EntriesDiffer(heap) ==
    \A c, d \in DOMAIN heap : \A k \in 1 .. Len(heap[c].entries), m \in 1 .. Len(heap[d].entries) :
        heap[c].entries[k].sequence = heap[d].entries[m].sequence => c = d /\ k = m

\* The entries p of the writers have different numbers, all below n.
PendingDiffer(p, n) ==
    \A w \in DOMAIN p :
        /\ p[w].entry.sequence < n
        /\ \A v \in DOMAIN p : p[v].entry.sequence = p[w].entry.sequence => v = w

\* The numbers N were handed out before n, and are those of no entry in p.
AreTaken(N, p, n) == \A x \in N : x < n /\ \A w \in DOMAIN p : p[w].entry.sequence # x

\* No two entries have the same number, which only ClearLogsByUid() makes untrue.
NumbersAreUnique ==
    /\ ~Clearing
    /\ PendingDiffer(pending, sequence)
    /\ \A r \in Readers : AreTaken(LastRead(r), pending, sequence)
    /\ AreTaken(NumbersIn(chunk), pending, sequence)
    /\ EntriesDiffer(chunk)

Precedes(list, c, d) == \E a, b \in 1 .. Len(list) : a < b /\ list[a] = c /\ list[b] = d

\* The position is behind entry k of chunk c of the list.
HasPassed(pos, list, c, k) ==
    \/ c = pos.buffer_it /\ k <= pos.read_offset
    \/ Precedes(list, c, pos.buffer_it)

\* Every entry whose number is in L is behind the positions P.
Passed(L, P, lists, heap) ==
    \A i \in LogIds : \A c \in Elements(lists[i]) : \A k \in 1 .. Len(heap[c].entries) :
        heap[c].entries[k].sequence \in L =>
            i \in DOMAIN P /\ HasPassed(P[i], lists[i], c, k)

\* The entries that thread r came to last are behind it while they are in the buffer.
LastReadIsPassed ==
    \A r \in Readers : Main(r) \in DOMAIN state =>
        Passed(LastRead(r), state[Main(r)].log_positions, logs, chunk)

\* What is being written was not written before.
NotWrittenTwice ==
    \A r \in Readers : thread[r].pc = "write" /\ delivered[r] # << >> =>
        thread[r].out # LastOf(delivered[r])

ReadOnce ==
    commands.uid_clears = 0 => NumbersAreUnique /\ LastReadIsPassed /\ NotWrittenTwice

\* What is proved inductive of the buffer and its readers
LogdInv == BufferInv /\ TailsAreCounted /\ StartFollows /\ ReadOnce

-----------------------------------------------------------------------------
(***************************************************************************)
(* Sizes and statistics                                                     *)
(***************************************************************************)

\* The entries of log i, oldest first, as one set
EntriesOf(i) == UNION {{chunk[c].entries[k] : k \in 1 .. Len(chunk[c].entries)} :
                          c \in Elements(logs[i])}

\* LogStatistics agrees with the buffer whenever no critical section is open:
\* Add() and Subtract() are balanced over logging, pruning and clearing.
StatsMatchBuffer ==
    LockFree => \A i \in LogIds :
        /\ stats[i].mElements = ElementsIn(chunk, logs[i], Len(logs[i]))
        /\ stats[i].mSizes = SizesIn(chunk, logs[i], Len(logs[i]))

\* The size a log is said to use never exceeds its limit: MaybePrune() frees enough.
SizeIsBounded == \A i \in LogIds : stats[i].overhead <= max_size[i]

\* MaybePrune() at the end of Log() never prunes the entry that was just logged.
NewEntrySurvives ==
    [][\A w \in DOMAIN pending : \A i \in LogIds :
          (w \notin DOMAIN pending' /\ i = pending[w].log_id) =>
             pending[w].entry \in EntriesOf(i)']_vars

(***************************************************************************)
(* What makes these inductive                                               *)
(***************************************************************************)
Stat == [mSizes : Int, mElements : Int, overhead : Nat]

\* The chunk of the list that can be written is not larger than a log of that size.
Fits(list, heap, size) ==
    \A c \in Elements(list) : heap[c].writer_active => SIZEOF_CHUNK + heap[c].contents <= size

\* What ClearLogsByUid() has dropped or copied of the chunk it is in, at its entry n
Visited(heap, list, n) ==
    IF n = 0 THEN << >> ELSE SubSeq(heap[Head(list)].entries, 1, n - 1)

\* stat counts what is in the list and in the copied chunks, what was visited only once.
Balances(stat, heap, list, copied, visited) ==
    /\ stat.mElements = (ElementsIn(heap, list, Len(list)) - Len(visited))
                             + ElementsIn(heap, copied, Len(copied))
    /\ stat.mSizes = (SizesIn(heap, list, Len(list)) - TotalLens(visited))
                             + SizesIn(heap, copied, Len(copied))

\* A log of that size, of which ClearLogsByUid() has copied so much.
IsMeasured(stat, size, heap, list, copied, n) ==
    /\ stat \in Stat /\ stat.overhead <= size
    /\ Fits(list, heap, size) /\ Fits(copied, heap, size)
    /\ n # 0 => n <= Len(heap[Head(list)].entries) + 1
    /\ Balances(stat, heap, list, copied, Visited(heap, list, n))

SizeInv ==
    /\ DOMAIN stats = LogIds
    /\ \A i \in LogIds :
          IF Clearing /\ i = clear.log_id
          THEN IsMeasured(stats[i], max_size[i], chunk, logs[i], clear.new_logs, clear.entry)
          ELSE IsMeasured(stats[i], max_size[i], chunk, logs[i], << >>, 0)

-----------------------------------------------------------------------------
(***************************************************************************)
(* What a client receives                                                   *)
(***************************************************************************)

\* What a client asked for, of what is in the log: the entries newer than its start
\* time, of its pid, and of its uid unless it is privileged.
Wants(r, entry) ==
    LET q == thread[r].request
    IN  /\ q.tail = 0
        /\ q.privileged \/ q.uid = entry.uid
        /\ q.pid = 0 \/ q.pid = entry.pid
        /\ q.start = EPOCH \/ entry.realtime > q.start

Received(r) == {delivered[r][k] : k \in 1 .. Len(delivered[r])}

\* The entries of one client arrive in the order of their sequence numbers,
\* whatever is pruned, cleared or logged while the lock is released for a write,
\* and only the clearing of one uid makes a reader come to an entry again.
DeliveredInOrder ==
    \A r \in Readers : \A k \in 1 .. Len(delivered[r]) - 1 :
        /\ delivered[r][k] <= delivered[r][k + 1]
        /\ commands.uid_clears = 0 => delivered[r][k] # delivered[r][k + 1]

\* A thread in wait() has nothing left to read: a NotifyNewLog() that comes
\* while it is flushing or writing is lost, but the entry is not.
NoLostWakeup ==
    \A r \in Readers : thread[r].pc = "wait" =>
        \A i \in thread[r].log_mask : \A entry \in EntriesOf(i) :
            entry.sequence < state[Main(r)].start

\* A thread in wait() has sent everything its client asked for that is still
\* in the buffer, but for entries that were logged below the start the thread had
\* by then: set_start(start + 1) also ends a flush that found nothing.
NothingMissedButLate ==
    \A r \in Readers : thread[r].pc = "wait" =>
        \A i \in thread[r].log_mask : \A entry \in EntriesOf(i) :
            Wants(r, entry) => entry.sequence \in Received(r) \cup late[r]

\* Between the first and the last entry a client was sent there is no gap: an
\* entry it asked for that is in the buffer was sent in its turn.
NoGap ==
    \A r \in Readers : \A i \in thread[r].log_mask : \A entry \in EntriesOf(i) :
        /\ delivered[r] # << >>
        /\ Wants(r, entry)
        /\ delivered[r][1] < entry.sequence
        /\ entry.sequence < delivered[r][Len(delivered[r])]
        => entry.sequence \in Received(r)

\* CreateLogPosition() finds "the first chunk and then first log entry within that
\* chunk that is greater or equal to start()": the chunks it passes over hold none.
SearchIsExact ==
    \A i \in LogIds : \A k \in 1 .. Len(logs[i]) : \A start \in 1 .. sequence :
        IsStartChunk(k, start, logs[i], chunk) =>
            \A j \in 1 .. k - 1 : \A m \in 1 .. Len(chunk[logs[i][j]].entries) :
                chunk[logs[i][j]].entries[m].sequence < start

\* dumpAndClose with a tail ("logcat -t N") sends at most N entries, whatever is
\* logged between the pass that counts and the pass that sends.
TailIsRespected ==
    \A r \in Readers : thread[r].request.non_block /\ thread[r].request.tail # 0 =>
        Len(delivered[r]) <= thread[r].request.tail

-----------------------------------------------------------------------------
(***************************************************************************)
(* What must happen                                                         *)
(***************************************************************************)

\* A client that hung up is let go of: its thread leaves wait(), wait_until() or a
\* blocked write, and is destroyed with the references it holds.
ReleaseCompletes ==
    \A r \in Readers : thread[r].release ~> thread[r].pc = "gone"

\* An entry the thread of r has not come to yet
IsUnread(r, n) ==
    /\ r \in reader_threads
    /\ n >= state[Main(r)].start
    /\ \E i \in thread[r].log_mask : \E entry \in EntriesOf(i) : entry.sequence = n

\* Every entry that is in a watched log is eventually come to by every connected
\* reader, also one that waits for its deadline, unless it is pruned before.
UnreadIsRead ==
    \A r \in Readers : \A n \in 1 .. MaxSequence : IsUnread(r, n) ~> ~IsUnread(r, n)
=============================================================================
