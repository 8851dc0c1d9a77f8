------------------------ MODULE SerializedLogBuffer ------------------------
(***************************************************************************)
(* logd/SerializedLogBuffer.{h,cpp}: the log buffers, the writers that log   *)
(* into them and the commands that clear and resize them.                   *)
(*                                                                          *)
(* logs[i] is the std::list of log i as a sequence of chunk identities;      *)
(* chunk is the heap, its domain the live chunks.  A critical section of    *)
(* logd_lock is one action, except FlushTo() (module LogReaderThread) and   *)
(* ClearLogsByUid(), whose loops take one action per iteration while        *)
(* logd_lock holds their owner.                                             *)
(***************************************************************************)
EXTENDS LogReaderList

CONSTANTS
    LOG_ID_MAX,                 \* the number of log buffers
    Writers,                    \* the threads that call Log()
    Messages,                   \* what they may log: see MessageAssumption
    LOGGER_ENTRY_MAX_PAYLOAD,
    kLogBufferMinSize, kLogBufferMaxSize, kChunkSizeDivisor,
    Sizes,                      \* the arguments SetSize() is called with
    CompressedSizes,            \* the sizes Compress() may produce
    ChunkIds,                   \* identities of chunks
    MaxSequence,                \* bound: the last sequence number handed out
    MaxUidClears, MaxClears, MaxSetSizes, MaxReinits   \* bounds: commands run

LogIds == 0 .. LOG_ID_MAX - 1

IsValidBufferSize(size) == kLogBufferMinSize <= size /\ size <= kLogBufferMaxSize

ASSUME LogIdAssumption == LOG_ID_MAX \in Nat
ASSUME ReaderAssumption == "command" \notin Readers
ASSUME MessageAssumption ==
    \A m \in Messages : /\ m.log_id \in LogIds
                        /\ m.realtime \in Nat
                        /\ m.uid \in Nat
                        /\ m.pid \in Nat
                        /\ m.msg_len \in Nat
ASSUME SizeAssumption ==
    /\ LOGGER_ENTRY_MAX_PAYLOAD \in Nat
    /\ kLogBufferMinSize \in Nat /\ kLogBufferMaxSize \in Nat
    /\ kChunkSizeDivisor \in Nat \ {0}
    /\ Sizes \subseteq Nat
    /\ CompressedSizes \subseteq Nat \ {0}
ASSUME EntryAssumption == LOGGER_ENTRY_MAX_PAYLOAD > 0 /\ MaxSequence \in Nat \ {0}

(***************************************************************************)
(* The buffer sizes that are accepted leave room in an empty chunk for the  *)
(* largest entry, and room in the buffer for one chunk: with the code's     *)
(* constants, 64 KiB / 4 against a 4 KiB payload.                           *)
(***************************************************************************)
ASSUME CapacityAssumption ==
    \A size \in Sizes : IsValidBufferSize(size) =>
        /\ size \div kChunkSizeDivisor \in Nat
        /\ SIZEOF_ENTRY + LOGGER_ENTRY_MAX_PAYLOAD <= size \div kChunkSizeDivisor
        /\ SIZEOF_CHUNK + size \div kChunkSizeDivisor <= size

VARIABLES
    logd_lock,     \* {} or {the holder}: a reader, or "command"
    chunk, logs, max_size,
    stats,         \* per log: LogStatistics' mSizes, mElements and overhead_
    sequence,      \* sequence_: the next sequence number
    pending,       \* the entries of writers that are between fetch_add and the lock
    clear,         \* the local variables of a running ClearLogsByUid()
    late,          \* history: the entries logged below a reader's start
    commands       \* counters behind the Max... bounds

bufferVars == <<chunk, logs, max_size, stats, sequence, pending, clear, late, commands>>

LockFree == logd_lock = {}

(***************************************************************************)
(* The list of log i, while ClearLogsByUid() runs, is split between the     *)
(* chunks not visited yet (logs[i]) and clear.new_logs.                      *)
(***************************************************************************)
NoClear == [log_id |-> 0, uid |-> 0, new_logs |-> << >>, contains_uid_logs |-> FALSE,
            entry |-> 0]

Allocate(heap, id, new) ==
    [c \in (DOMAIN heap) \cup {id} |-> IF c = id THEN new ELSE heap[c]]

Free(heap, ids) == [c \in (DOMAIN heap) \ ids |-> heap[c]]

Elements(list) == {list[k] : k \in 1 .. Len(list)}

\* operator new; ChunkIds bounds the chunks that are live at a time.
FreshChunk(heap) == CHOOSE c \in ChunkIds : c \notin DOMAIN heap

CanAllocate(heap) == \E c \in ChunkIds : c \notin DOMAIN heap

(***************************************************************************)
(* LogToLogBuffer(): the heap and the list after entry was logged at the     *)
(* end of list.  A chunk that is full is finished, with zsize its           *)
(* compressed size, and a new one is pushed.                                *)
(***************************************************************************)
NeedsChunk(heap, list, entry) ==
    IF list = << >> THEN TRUE ELSE ~CanLog(heap[list[Len(list)]], total_len(entry))

PushChunk(heap, list, size, zsize) ==
    LET finished == IF list = << >> THEN heap
                    ELSE [heap EXCEPT ![list[Len(list)]] = FinishWriting(@, zsize)]
    IN  Allocate(finished, FreshChunk(heap), NewChunk(size \div kChunkSizeDivisor))

LogToLogBuffer(heap, list, size, entry, zsize) ==
    IF NeedsChunk(heap, list, entry)
    THEN LET new == FreshChunk(heap)
         IN  [heap |-> [PushChunk(heap, list, size, zsize) EXCEPT ![new] = LogEntry(@, entry)],
              list |-> Append(list, new)]
    ELSE [heap |-> [heap EXCEPT ![list[Len(list)]] = LogEntry(@, entry)],
          list |-> list]

\* CompressedSizes where a chunk is finished, one arbitrary value elsewhere
ZSizes(heap, list, entry) ==
    IF list # << >> /\ NeedsChunk(heap, list, entry) THEN CompressedSizes ELSE {0}

\* A loop that adds up the numbers of the sequence f: its total after k rounds
Sums(f) ==
    LET sum[k \in 0 .. Len(f)] == IF k = 0 THEN 0 ELSE sum[k - 1] + f[k]
    IN  sum

\* GetSizeUsed() of the first n chunks of list
SizeUsed(heap, list, n) == Sums([k \in 1 .. Len(list) |-> PruneSize(heap[list[k]])])[n]

(***************************************************************************)
(* Prune(log_id, bytes_to_free) erases the n oldest chunks: as few as free  *)
(* bytes_to_free, or all of them, and at least one if there is one.         *)
(***************************************************************************)
IsPruneCount(n, heap, list, bytes_to_free) ==
    /\ n < Len(list) => SizeUsed(heap, list, n) >= bytes_to_free
    /\ \A m \in 1 .. n - 1 : SizeUsed(heap, list, m) < bytes_to_free
    /\ list # << >> => n > 0

\* Mutant: only the compressed chunks are counted.
IsMaybePruneCount_OnlyFinished(n, heap, list, size) ==
    LET total == IF list = << >> THEN 0 ELSE SizeUsed(heap, list, Len(list) - 1)
    IN  IF total > size THEN IsPruneCount(n, heap, list, total - size) ELSE n = 0

\* Mutant: what is used is freed, not what is too much.
IsMaybePruneCount_FreesAll(n, heap, list, size) ==
    LET total == SizeUsed(heap, list, Len(list))
    IN  IF total > size THEN IsPruneCount(n, heap, list, total) ELSE n = 0

\* MaybePrune(log_id) prunes only a list that has outgrown size.
IsMaybePruneCount(n, heap, list, size) ==
    LET total == SizeUsed(heap, list, Len(list))
    IN  IF total > size THEN IsPruneCount(n, heap, list, total - size) ELSE n = 0

\* Mutant: the last chunk to prune is forgotten, not destroyed.
Pruned_OneShort(list, n) == {list[k] : k \in 1 .. n - 1}

Pruned(list, n) == {list[k] : k \in 1 .. n}

Unpruned(list, n) == SubSeq(list, n + 1, Len(list))

\* Mutant: the readers of a pruned chunk are not told.
NotifyReadersOfPrune_None(log_id, heap, ids) == state

\* NotifyReadersOfPrune(log_id) on every chunk in ids: the readers' side of it
NotifyReadersOfPrune(log_id, heap, ids) ==
    [s \in DOMAIN state |->
        IF \E c \in ids : s \in heap[c].readers THEN PruneState(state[s], log_id)
                                                ELSE state[s]]

\* LogStatistics::Add() and Subtract(), with track_total_size_
AddToStats(stat, entry) ==
    [stat EXCEPT !.mSizes = @ + total_len(entry), !.mElements = @ + 1]

\* Mutant: the entry is still counted.
SubtractFromStats_OnlySize(stat, entry) == [stat EXCEPT !.mSizes = @ - total_len(entry)]

SubtractFromStats(stat, entry) ==
    [stat EXCEPT !.mSizes = @ - total_len(entry), !.mElements = @ - 1]

TotalLens(entries) == Sums([k \in 1 .. Len(entries) |-> total_len(entries[k])])[Len(entries)]

\* The sizes and the number of the entries in the first n chunks of list
SizesIn(heap, list, n) == Sums([k \in 1 .. Len(list) |-> TotalLens(heap[list[k]].entries)])[n]
ElementsIn(heap, list, n) == Sums([k \in 1 .. Len(list) |-> Len(heap[list[k]].entries)])[n]

\* RemoveChunkFromStats() on the first n chunks of list
RemoveChunksFromStats(stat, heap, list, n) ==
    [stat EXCEPT !.mSizes    = @ - SizesIn(heap, list, n),
                 !.mElements = @ - ElementsIn(heap, list, n)]

\* The entry is logged below the start the reader already has, or was found for it.
ComesLate(r, entry) ==
    \/ r \in reader_threads /\ entry.sequence < state[Main(r)].start
    \/ thread[r].pc = "found" /\ entry.sequence < thread[r].sequence

(***************************************************************************)
(* Log(), up to the lock.  An empty message is refused, a long one cut, and *)
(* one that ShouldLog() refuses changes nothing here.  The sequence number  *)
(* is taken before logd_lock is.                                            *)
(***************************************************************************)
TakeSequence(w) ==
    /\ w \notin DOMAIN pending
    /\ sequence <= MaxSequence
    /\ \E m \in Messages :
          LET entry == [sequence |-> sequence,
                        realtime |-> m.realtime,
                        uid      |-> m.uid,
                        pid      |-> m.pid,
                        msg_len  |-> IF m.msg_len > LOGGER_ENTRY_MAX_PAYLOAD
                                     THEN LOGGER_ENTRY_MAX_PAYLOAD ELSE m.msg_len]
          IN  /\ m.msg_len # 0
              /\ pending' = [v \in (DOMAIN pending) \cup {w} |->
                                IF v = w THEN [log_id |-> m.log_id, entry |-> entry]
                                         ELSE pending[v]]
    /\ sequence' = sequence + 1
    /\ UNCHANGED <<logd_lock, chunk, logs, max_size, stats, clear, late, commands, thread, state>>

(***************************************************************************)
(* Log(), under the lock: LogToLogBuffer(), the statistics, MaybePrune() and *)
(* NotifyNewLog().                                                          *)
(***************************************************************************)
Log(w) ==
    /\ w \in DOMAIN pending
    /\ LockFree
    /\ LET i     == pending[w].log_id
           entry == pending[w].entry
       IN  \E zsize \in ZSizes(chunk, logs[i], entry) :
           LET logged == LogToLogBuffer(chunk, logs[i], max_size[i], entry, zsize)
           IN  \E n \in 0 .. Len(logged.list) :
               /\ NeedsChunk(chunk, logs[i], entry) => CanAllocate(chunk)
               /\ IsMaybePruneCount(n, logged.heap, logged.list, max_size[i])
               /\ chunk' = Free(logged.heap, Pruned(logged.list, n))
               /\ logs' = [logs EXCEPT ![i] = Unpruned(logged.list, n)]
               /\ state' = NotifyReadersOfPrune(i, logged.heap, Pruned(logged.list, n))
               /\ stats' = [stats EXCEPT ![i] =
                     [RemoveChunksFromStats(AddToStats(@, entry), logged.heap, logged.list, n)
                         EXCEPT !.overhead = SizeUsed(chunk', logs'[i], Len(logs'[i]))]]
               /\ thread' = TriggerReaders(thread,
                     NotifiedOfNewLog(i) \cup (IF n > 0 THEN NotifiedOfPrune(i) ELSE {}))
               /\ late' = [r \in Readers |->
                     IF ComesLate(r, entry) THEN late[r] \cup {entry.sequence} ELSE late[r]]
    /\ pending' = [v \in (DOMAIN pending) \ {w} |-> pending[v]]
    /\ UNCHANGED <<logd_lock, max_size, sequence, clear, commands>>

(***************************************************************************)
(* SetSize(): an invalid size is refused, a valid one takes effect and the  *)
(* list is pruned to it.                                                    *)
(***************************************************************************)
SetSize(i, size) ==
    /\ LockFree
    /\ commands.set_sizes < MaxSetSizes
    /\ IsValidBufferSize(size)
    /\ max_size' = [max_size EXCEPT ![i] = size]
    /\ \E n \in 0 .. Len(logs[i]) :
          /\ IsMaybePruneCount(n, chunk, logs[i], size)
          /\ chunk' = Free(chunk, Pruned(logs[i], n))
          /\ logs' = [logs EXCEPT ![i] = Unpruned(logs[i], n)]
          /\ state' = NotifyReadersOfPrune(i, chunk, Pruned(logs[i], n))
          /\ stats' = [stats EXCEPT ![i] =
                [RemoveChunksFromStats(@, chunk, logs[i], n)
                    EXCEPT !.overhead = SizeUsed(chunk', logs'[i], Len(logs'[i]))]]
          /\ thread' = TriggerReaders(thread, IF n > 0 THEN NotifiedOfPrune(i) ELSE {})
    /\ commands' = [commands EXCEPT !.set_sizes = @ + 1]
    /\ UNCHANGED <<logd_lock, sequence, pending, clear, late>>

(***************************************************************************)
(* Init() as the reinit command runs it: SetSize() on every log, which are  *)
(* SetSize() actions, then every reader is triggered.                       *)
(***************************************************************************)
ReinitTrigger ==
    /\ LockFree
    /\ commands.reinits < MaxReinits
    /\ thread' = TriggerReaders(thread, reader_threads)
    /\ commands' = [commands EXCEPT !.reinits = @ + 1]
    /\ UNCHANGED <<logd_lock, chunk, logs, max_size, stats, sequence, pending, clear, late, state>>

\* Clear(id, 0): Prune(id, ULONG_MAX)
ClearAll(i) ==
    /\ LockFree
    /\ commands.clears < MaxClears
    /\ chunk' = Free(chunk, Elements(logs[i]))
    /\ logs' = [logs EXCEPT ![i] = << >>]
    /\ state' = NotifyReadersOfPrune(i, chunk, Elements(logs[i]))
    /\ stats' = [stats EXCEPT ![i] = RemoveChunksFromStats(@, chunk, logs[i], Len(logs[i]))]
    /\ thread' = TriggerReaders(thread, IF logs[i] # << >> THEN NotifiedOfPrune(i) ELSE {})
    /\ commands' = [commands EXCEPT !.clears = @ + 1]
    /\ UNCHANGED <<logd_lock, max_size, sequence, pending, clear, late>>

(***************************************************************************)
(* Clear(id, uid) for uid # 0: UidClear() wakes the readers that have a     *)
(* deadline, then ClearLogsByUid() runs under the lock.                     *)
(***************************************************************************)
UidClear(i, uid) ==
    /\ LockFree
    /\ commands.uid_clears < MaxUidClears
    /\ uid # 0
    /\ logd_lock' = {"command"}
    /\ clear' = [NoClear EXCEPT !.log_id = i, !.uid = uid]
    /\ thread' = TriggerReaders(thread, NotifiedOfPrune(i))
    /\ commands' = [commands EXCEPT !.uid_clears = @ + 1]
    /\ UNCHANGED <<chunk, logs, max_size, stats, sequence, pending, late, state>>

\* Mutant: only the first entry of the chunk is looked at.
ContainsUid_First(c) == chunk[c].entries # << >> /\ chunk[c].entries[1].uid = clear.uid

ContainsUid(c) == \E k \in 1 .. Len(chunk[c].entries) : chunk[c].entries[k].uid = clear.uid

\* Mutant: the readers stay attached.
WithoutReaders_Kept(c) == c

\* NotifyReadersOfPrune(): the chunk's side of it
WithoutReaders(c) ==
    [c EXCEPT !.readers = {}, !.reader_ref_count = @ - Cardinality(c.readers),
              !.contents = IF c.readers # {} /\ c.reader_ref_count = Cardinality(c.readers)
                              /\ ~c.writer_active
                           THEN 0 ELSE @]

\* ClearLogsByUid(): the next chunk is visited, and has no entry of the uid so far.
ClearSpliceChunk ==
    LET i == clear.log_id
        c == Head(logs[i])
    IN  /\ logd_lock = {"command"}
        /\ clear.entry = 0
        /\ logs[i] # << >>
        /\ ~clear.contains_uid_logs
        /\ ~ContainsUid(c)
        /\ state' = NotifyReadersOfPrune(i, chunk, {c})
        /\ chunk' = [chunk EXCEPT ![c] = DecReaderRefCount(IncReaderRefCount(WithoutReaders(@)))]
        /\ logs' = [logs EXCEPT ![i] = Tail(@)]
        /\ clear' = [clear EXCEPT !.new_logs = Append(@, c)]
        /\ UNCHANGED <<logd_lock, max_size, stats, sequence, pending, late, commands, thread>>

\* ClearLogsByUid(): the next chunk is visited, and its entries are to be copied.
ClearOpenChunk ==
    LET i   == clear.log_id
        c   == Head(logs[i])
        new == FreshChunk(chunk)
        opened == [chunk EXCEPT ![c] = IncReaderRefCount(WithoutReaders(@))]
    IN  /\ logd_lock = {"command"}
        /\ clear.entry = 0
        /\ logs[i] # << >>
        /\ state' = NotifyReadersOfPrune(i, chunk, {c})
        /\ \/ /\ clear.contains_uid_logs
              /\ chunk' = opened
              /\ clear' = [clear EXCEPT !.entry = 1]
           \/ /\ ~clear.contains_uid_logs
              /\ ContainsUid(c)
              /\ CanAllocate(chunk)
              /\ chunk' = Allocate(opened, new, NewChunk(max_size[i] \div kChunkSizeDivisor))
              /\ clear' = [clear EXCEPT !.contains_uid_logs = TRUE, !.entry = 1,
                                        !.new_logs = Append(@, new)]
        /\ UNCHANGED <<logd_lock, logs, max_size, stats, sequence, pending, late, commands, thread>>

\* ClearLogsByUid(): one entry of the chunk is dropped or logged again.
ClearEntry ==
    LET i     == clear.log_id
        c     == Head(logs[i])
        entry == chunk[c].entries[clear.entry]
    IN  /\ logd_lock = {"command"}
        /\ clear.entry # 0
        /\ clear.entry <= Len(chunk[c].entries)
        /\ \/ /\ entry.uid = clear.uid
              /\ stats' = [stats EXCEPT ![i] = SubtractFromStats(@, entry)]
              /\ clear' = [clear EXCEPT !.entry = @ + 1]
              /\ UNCHANGED chunk
           \/ /\ entry.uid # clear.uid
              /\ NeedsChunk(chunk, clear.new_logs, entry) => CanAllocate(chunk)
              /\ \E zsize \in ZSizes(chunk, clear.new_logs, entry) :
                 LET logged == LogToLogBuffer(chunk, clear.new_logs, max_size[i], entry, zsize)
                 IN  /\ chunk' = logged.heap
                     /\ clear' = [clear EXCEPT !.entry = @ + 1, !.new_logs = logged.list]
              /\ UNCHANGED stats
        /\ UNCHANGED <<logd_lock, logs, max_size, sequence, pending, late, commands, thread, state>>

\* ClearLogsByUid(): the chunk's entries are done, it is erased.
ClearEraseChunk ==
    LET i == clear.log_id
        c == Head(logs[i])
    IN  /\ logd_lock = {"command"}
        /\ clear.entry # 0
        /\ clear.entry > Len(chunk[c].entries)
        /\ chunk' = Free(chunk, {c})
        /\ logs' = [logs EXCEPT ![i] = Tail(@)]
        /\ clear' = [clear EXCEPT !.entry = 0]
        /\ UNCHANGED <<logd_lock, max_size, stats, sequence, pending, late, commands, thread, state>>

\* ClearLogsByUid(): std::swap(new_logs, log_buffer), and Clear() returns.
ClearSwap ==
    LET i == clear.log_id
    IN  /\ logd_lock = {"command"}
        /\ logs[i] = << >>
        /\ logs' = [logs EXCEPT ![i] = clear.new_logs]
        /\ clear' = NoClear
        /\ logd_lock' = {}
        /\ UNCHANGED <<chunk, max_size, stats, sequence, pending, late, commands, thread, state>>

BufferInit ==
    /\ logd_lock = {}
    /\ chunk = [c \in {} |-> 0]
    /\ logs = [i \in LogIds |-> << >>]
    /\ max_size \in [LogIds -> {size \in Sizes : IsValidBufferSize(size)}]
    /\ stats = [i \in LogIds |-> [mSizes |-> 0, mElements |-> 0, overhead |-> 0]]
    /\ sequence = 1
    /\ pending = [w \in {} |-> 0]
    /\ clear = NoClear
    /\ late = [r \in Readers |-> {}]
    /\ commands = [set_sizes |-> 0, reinits |-> 0, clears |-> 0, uid_clears |-> 0]

ClearStep ==
    ClearSpliceChunk \/ ClearOpenChunk \/ ClearEntry \/ ClearEraseChunk \/ ClearSwap

BufferNext ==
    \/ \E w \in Writers : TakeSequence(w) \/ Log(w)
    \/ \E i \in LogIds :
          \/ ClearAll(i)
          \/ \E size \in Sizes : SetSize(i, size)
          \/ \E m \in Messages : UidClear(i, m.uid)
    \/ ReinitTrigger
    \/ ClearStep
=============================================================================
