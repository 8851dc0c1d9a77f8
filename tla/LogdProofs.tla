----------------------------- MODULE LogdProofs -----------------------------
(***************************************************************************)
(* Proofs about Logd, for every number of logs, readers, writers and chunks *)
(* and every size: IInv is an inductive invariant of Spec.                  *)
(***************************************************************************)
EXTENDS Logd, SequenceTheorems, FiniteSetTheorems, TLAPS

-----------------------------------------------------------------------------
(***************************************************************************)
(* Lists of chunks                                                          *)
(***************************************************************************)

\* Appending adds one element to a list and keeps it free of duplicates.
LEMMA AppendElements ==
    ASSUME NEW S, NEW list \in Seq(S), NEW x \in S, x \notin Elements(list), Distinct(list)
    PROVE  /\ Append(list, x) \in Seq(S)
           /\ Elements(Append(list, x)) = Elements(list) \cup {x}
           /\ Distinct(Append(list, x))
  <1>1. /\ Append(list, x) \in Seq(S)
        /\ Len(Append(list, x)) = Len(list) + 1
        /\ \A k \in 1 .. Len(list) : Append(list, x)[k] = list[k]
        /\ Append(list, x)[Len(list) + 1] = x
    BY AppendProperties
  <1>2. Len(list) \in Nat
    BY LenProperties
  <1>3. Elements(Append(list, x)) = Elements(list) \cup {x}
    BY <1>1, <1>2 DEF Elements
  <1>4. Distinct(Append(list, x))
    BY <1>1, <1>2 DEF Distinct, Elements
  <1> QED BY <1>1, <1>3, <1>4

\* Pruning the n oldest chunks of a list leaves exactly the others in it.
LEMMA UnprunedElements ==
    ASSUME NEW S, NEW list \in Seq(S), NEW n \in 0 .. Len(list), Distinct(list)
    PROVE  /\ Unpruned(list, n) \in Seq(S)
           /\ Elements(Unpruned(list, n)) = Elements(list) \ Pruned(list, n)
           /\ Pruned(list, n) \subseteq Elements(list)
           /\ Distinct(Unpruned(list, n))
  <1>1. Len(list) \in Nat
    BY LenProperties
  <1>2. /\ Unpruned(list, n) \in Seq(S)
        /\ Len(Unpruned(list, n)) = Len(list) - n
        /\ \A k \in 1 .. Len(list) - n : Unpruned(list, n)[k] = list[n + k]
    BY <1>1, SubSeqProperties DEF Unpruned
  <1>3. Pruned(list, n) \subseteq Elements(list)
    BY <1>1 DEF Pruned, Elements
  <1>4. ASSUME NEW c
        PROVE  c \in Elements(Unpruned(list, n)) <=> c \in Elements(list) \ Pruned(list, n)
    <2>1. ASSUME c \in Elements(Unpruned(list, n))
          PROVE  c \in Elements(list) \ Pruned(list, n)
      <3>1. PICK k \in 1 .. Len(list) - n : c = list[n + k]
        BY <1>2, <2>1 DEF Elements
      <3> QED BY <1>1, <3>1 DEF Elements, Pruned, Distinct
    <2>2. ASSUME c \in Elements(list) \ Pruned(list, n)
          PROVE  c \in Elements(Unpruned(list, n))
      <3>1. PICK k \in 1 .. Len(list) : c = list[k]
        BY <2>2 DEF Elements
      <3>2. k > n
        BY <1>1, <2>2, <3>1 DEF Pruned
      <3>3. k - n \in 1 .. Len(list) - n /\ n + (k - n) = k
        BY <1>1, <3>2
      <3> QED BY <1>2, <3>1, <3>3 DEF Elements
    <2> QED BY <2>1, <2>2
  <1>5. Distinct(Unpruned(list, n))
    <2> SUFFICES ASSUME NEW k \in 1 .. Len(list) - n, NEW m \in 1 .. Len(list) - n,
                        list[n + k] = list[n + m]
                 PROVE  k = m
      BY <1>2 DEF Distinct
    <2>1. n + k \in 1 .. Len(list) /\ n + m \in 1 .. Len(list)
      BY <1>1
    <2>2. n + k = n + m
      BY <2>1 DEF Distinct
    <2> QED BY <1>1, <2>2
  <1> QED BY <1>2, <1>3, <1>4, <1>5

\* The tail of a list without duplicates has all its elements but the head.
LEMMA TailElements ==
    ASSUME NEW S, NEW list \in Seq(S), list # << >>, Distinct(list)
    PROVE  /\ Tail(list) \in Seq(S)
           /\ Head(list) \in Elements(list)
           /\ Elements(Tail(list)) = Elements(list) \ {Head(list)}
           /\ Distinct(Tail(list))
  <1>1. Len(list) \in Nat /\ Len(list) > 0 /\ Head(list) = list[1]
    BY LenProperties, EmptySeq
  <1>2. /\ Tail(list) \in Seq(S)
        /\ Len(Tail(list)) = Len(list) - 1
        /\ \A k \in 1 .. Len(list) - 1 : Tail(list)[k] = list[k + 1]
    BY HeadTailProperties
  <1>3. Head(list) \in Elements(list)
    BY <1>1 DEF Elements
  <1>4. ASSUME NEW c
        PROVE  c \in Elements(Tail(list)) <=> c \in Elements(list) \ {Head(list)}
    <2>1. ASSUME c \in Elements(Tail(list))
          PROVE  c \in Elements(list) \ {Head(list)}
      BY <1>1, <1>2, <2>1 DEF Elements, Distinct
    <2>2. ASSUME c \in Elements(list) \ {Head(list)}
          PROVE  c \in Elements(Tail(list))
      <3>1. PICK k \in 1 .. Len(list) : c = list[k]
        BY <2>2 DEF Elements
      <3>2. k - 1 \in 1 .. Len(list) - 1 /\ (k - 1) + 1 = k
        BY <1>1, <2>2, <3>1
      <3> QED BY <1>2, <3>1, <3>2 DEF Elements
    <2> QED BY <2>1, <2>2
  <1>5. Distinct(Tail(list))
    BY <1>1, <1>2 DEF Distinct
  <1> QED BY <1>2, <1>3, <1>4, <1>5

-----------------------------------------------------------------------------
(***************************************************************************)
(* Chunks and the heap                                                      *)
(***************************************************************************)
IsHeap(heap) ==
    /\ DOMAIN heap \subseteq ChunkIds
    /\ \A c \in DOMAIN heap : heap[c] \in Chunk /\ IsFiniteSet(heap[c].readers)

\* A chunk fresh from operator new has an identity that is not in use.
LEMMA FreshChunkIsFresh ==
    ASSUME NEW heap, CanAllocate(heap)
    PROVE  FreshChunk(heap) \in ChunkIds /\ FreshChunk(heap) \notin DOMAIN heap
  BY DEF CanAllocate, FreshChunk

\* A new chunk has no readers.
LEMMA NewChunkType ==
    ASSUME NEW size \in Nat
    PROVE  /\ NewChunk(size) \in Chunk
           /\ NewChunk(size).readers = {} /\ NewChunk(size).entries = << >>
  <1>1. << >> \in Seq(Entry)
    BY EmptySeq
  <1> QED BY <1>1 DEF NewChunk, Chunk

\* Finishing a chunk changes neither its readers nor its entries.
LEMMA FinishWritingType ==
    ASSUME NEW c \in Chunk, NEW zsize \in Nat
    PROVE  /\ FinishWriting(c, zsize) \in Chunk
           /\ FinishWriting(c, zsize).readers = c.readers
           /\ FinishWriting(c, zsize).entries = c.entries
  BY DEF FinishWriting, Chunk

\* Logging into a chunk adds an entry and leaves its readers alone.
LEMMA LogEntryType ==
    ASSUME NEW c \in Chunk, NEW entry \in Entry
    PROVE  /\ LogEntry(c, entry) \in Chunk
           /\ LogEntry(c, entry).readers = c.readers
           /\ Len(LogEntry(c, entry).entries) = Len(c.entries) + 1
           /\ Len(c.entries) \in Nat
  <1>1. c.entries \in Seq(Entry)
    BY DEF Chunk
  <1>2. /\ Append(c.entries, entry) \in Seq(Entry)
        /\ Len(Append(c.entries, entry)) = Len(c.entries) + 1
        /\ Len(c.entries) \in Nat
    BY <1>1, AppendProperties, LenProperties
  <1>3. total_len(entry) \in Nat
    BY SizeofAssumption DEF total_len, Entry
  <1>4. entry.sequence \in Nat /\ c.write_offset + total_len(entry) \in Nat
    BY <1>3 DEF Entry, Chunk
  <1>5. LogEntry(c, entry) = [c EXCEPT !.entries = Append(c.entries, entry),
                                       !.write_offset = c.write_offset + total_len(entry),
                                       !.highest_sequence_number = entry.sequence]
    BY DEF LogEntry
  <1> HIDE DEF LogEntry, total_len
  <1> QED BY <1>1, <1>2, <1>4, <1>5 DEF Chunk

\* A reference that is taken or returned changes neither readers nor entries.
LEMMA RefCountType ==
    ASSUME NEW c \in Chunk
    PROVE  /\ IncReaderRefCount(c) \in Chunk
           /\ IncReaderRefCount(c).readers = c.readers
           /\ IncReaderRefCount(c).entries = c.entries
           /\ DecReaderRefCount(c) \in Chunk
           /\ DecReaderRefCount(c).readers = c.readers
           /\ DecReaderRefCount(c).entries = c.entries
  <1> DEFINE x == IF c.reader_ref_count = 0 /\ ~c.writer_active THEN c.write_offset ELSE c.contents
             y == IF c.reader_ref_count = 1 /\ ~c.writer_active THEN 0 ELSE c.contents
             n == c.reader_ref_count + 1
             m == c.reader_ref_count - 1
  <1>1. x \in Nat /\ y \in Nat /\ n \in Int /\ m \in Int
    BY DEF Chunk
  <1>2. IncReaderRefCount(c) = [c EXCEPT !.reader_ref_count = n, !.contents = x]
    BY DEF IncReaderRefCount
  <1>3. DecReaderRefCount(c) = [c EXCEPT !.reader_ref_count = m, !.contents = y]
    BY DEF DecReaderRefCount
  <1> HIDE DEF x, y, n, m
  <1>4. /\ IncReaderRefCount(c) \in Chunk
        /\ IncReaderRefCount(c).readers = c.readers
        /\ IncReaderRefCount(c).entries = c.entries
    BY <1>1, <1>2 DEF Chunk
  <1>5. /\ DecReaderRefCount(c) \in Chunk
        /\ DecReaderRefCount(c).readers = c.readers
        /\ DecReaderRefCount(c).entries = c.entries
    BY <1>1, <1>3 DEF Chunk
  <1> QED BY <1>4, <1>5

\* Attaching and detaching a reader changes the set of readers by just that one.
LEMMA AttachReaderType ==
    ASSUME NEW c \in Chunk, NEW s \in States, IsFiniteSet(c.readers)
    PROVE  /\ AttachReader(c, s) \in Chunk
           /\ AttachReader(c, s).readers = c.readers \cup {s}
           /\ AttachReader(c, s).entries = c.entries
           /\ IsFiniteSet(AttachReader(c, s).readers)
  <1>1. /\ AttachReader(c, s) \in Chunk
        /\ AttachReader(c, s).readers = c.readers \cup {s}
        /\ AttachReader(c, s).entries = c.entries
    <2> DEFINE d == [c EXCEPT !.readers = c.readers \cup {s}]
    <2>1. d \in Chunk /\ d.readers = c.readers \cup {s} /\ d.entries = c.entries
      BY DEF Chunk
    <2>2. AttachReader(c, s) = IncReaderRefCount(d)
      BY DEF AttachReader
    <2> HIDE DEF d
    <2> QED BY <2>1, <2>2, RefCountType
  <1> QED BY <1>1, FS_AddElement

\* DetachReader() takes s out of the readers and leaves the entries alone.
LEMMA DetachReaderType ==
    ASSUME NEW c \in Chunk, NEW s, IsFiniteSet(c.readers)
    PROVE  /\ DetachReader(c, s) \in Chunk
           /\ DetachReader(c, s).readers = c.readers \ {s}
           /\ DetachReader(c, s).entries = c.entries
           /\ IsFiniteSet(DetachReader(c, s).readers)
  <1>1. /\ DetachReader(c, s) \in Chunk
        /\ DetachReader(c, s).readers = c.readers \ {s}
        /\ DetachReader(c, s).entries = c.entries
    <2> DEFINE d == [c EXCEPT !.readers = c.readers \ {s}]
    <2>1. d \in Chunk /\ d.readers = c.readers \ {s} /\ d.entries = c.entries
      BY DEF Chunk
    <2>2. DetachReader(c, s) = DecReaderRefCount(d)
      BY DEF DetachReader
    <2> HIDE DEF d
    <2> QED BY <2>1, <2>2, RefCountType
  <1> QED BY <1>1, FS_Subset

\* NotifyReadersOfPrune() leaves a chunk without readers.
LEMMA WithoutReadersType ==
    ASSUME NEW c \in Chunk, IsFiniteSet(c.readers)
    PROVE  /\ WithoutReaders(c) \in Chunk
           /\ WithoutReaders(c).readers = {}
           /\ WithoutReaders(c).entries = c.entries
  <1>1. Cardinality(c.readers) \in Nat
    BY FS_CardinalityType
  <1> DEFINE x == IF c.readers # {} /\ c.reader_ref_count = Cardinality(c.readers)
                     /\ ~c.writer_active
                  THEN 0 ELSE c.contents
             n == c.reader_ref_count - Cardinality(c.readers)
  <1>2. x \in Nat /\ n \in Int
    BY <1>1 DEF Chunk
  <1>3. WithoutReaders(c) = [c EXCEPT !.readers = {}, !.reader_ref_count = n, !.contents = x]
    BY DEF WithoutReaders
  <1> HIDE DEF x, n
  <1> QED BY <1>2, <1>3 DEF Chunk

(***************************************************************************)
(* LogToLogBuffer() keeps the chunks there are, their readers and entries,  *)
(* and puts what it allocates, without readers, at the end of the list.     *)
(***************************************************************************)
Extends(heap, list, logged) ==
    /\ IsHeap(logged.heap)
    /\ DOMAIN heap \subseteq DOMAIN logged.heap
    /\ logged.list \in Seq(ChunkIds) /\ Distinct(logged.list)
    /\ Elements(list) \subseteq Elements(logged.list)
    /\ Elements(logged.list) \subseteq
          Elements(list) \cup ((DOMAIN logged.heap) \ DOMAIN heap)
    /\ \A c \in DOMAIN heap : /\ logged.heap[c].readers = heap[c].readers
                              /\ Len(heap[c].entries) <= Len(logged.heap[c].entries)

\* The last element of a list is one of its elements.
LEMMA LastElement ==
    ASSUME NEW S, NEW list \in Seq(S), list # << >>
    PROVE  list[Len(list)] \in Elements(list)
  BY EmptySeq, LenProperties DEF Elements

\* LogToLogBuffer() only extends: entries are added, no reader and no chunk is lost.
LEMMA LogToLogBufferExtends ==
    ASSUME NEW heap, IsHeap(heap),
           NEW list \in Seq(ChunkIds), Distinct(list), Elements(list) \subseteq DOMAIN heap,
           NEW size \in Nat, size \div kChunkSizeDivisor \in Nat,
           NEW entry \in Entry, NEW zsize \in Nat,
           NeedsChunk(heap, list, entry) => CanAllocate(heap)
    PROVE  Extends(heap, list, LogToLogBuffer(heap, list, size, entry, zsize))
  <1> DEFINE logged == LogToLogBuffer(heap, list, size, entry, zsize)
             last == list[Len(list)]
             new == FreshChunk(heap)
             chunk0 == NewChunk(size \div kChunkSizeDivisor)
  <1> SUFFICES Extends(heap, list, logged)
    OBVIOUS
  <1>1. list # << >> => last \in Elements(list) /\ last \in DOMAIN heap
    BY LastElement
  <1>2. CASE NeedsChunk(heap, list, entry)
    <2>1. new \in ChunkIds /\ new \notin DOMAIN heap
      BY <1>2, FreshChunkIsFresh
    <2>2. chunk0 \in Chunk /\ chunk0.readers = {}
      BY NewChunkType
    <2>3. LogEntry(chunk0, entry) \in Chunk /\ LogEntry(chunk0, entry).readers = {}
      BY <2>2, LogEntryType
    <2> DEFINE finished == IF list = << >> THEN heap
                           ELSE [heap EXCEPT ![last] = FinishWriting(@, zsize)]
    <2>4. DOMAIN finished = DOMAIN heap
      OBVIOUS
    <2>5. ASSUME NEW c \in DOMAIN heap
          PROVE  finished[c] \in Chunk /\ finished[c].readers = heap[c].readers
                 /\ finished[c].entries = heap[c].entries
      <3>1. heap[c] \in Chunk
        BY DEF IsHeap
      <3>2. /\ FinishWriting(heap[c], zsize) \in Chunk
            /\ FinishWriting(heap[c], zsize).readers = heap[c].readers
            /\ FinishWriting(heap[c], zsize).entries = heap[c].entries
        BY <3>1, FinishWritingType
      <3> QED BY <3>1, <3>2
    <2>6. /\ logged.heap = [Allocate(finished, new, chunk0) EXCEPT ![new] = LogEntry(@, entry)]
          /\ logged.list = Append(list, new)
      BY <1>2 DEF LogToLogBuffer, PushChunk
    <2> HIDE DEF logged, new, chunk0, finished
    <2>7. DOMAIN logged.heap = (DOMAIN heap) \cup {new}
      BY <2>4, <2>6 DEF Allocate
    <2>8. logged.heap[new] = LogEntry(chunk0, entry)
      BY <2>6 DEF Allocate
    <2>9. \A c \in DOMAIN heap : logged.heap[c] = finished[c]
      BY <2>1, <2>4, <2>6 DEF Allocate
    <2>10. IsHeap(logged.heap)
      <3>1. \A c \in DOMAIN heap : finished[c] \in Chunk /\ IsFiniteSet(finished[c].readers)
        BY <2>5 DEF IsHeap
      <3>2. IsFiniteSet(LogEntry(chunk0, entry).readers)
        BY <2>3, FS_EmptySet
      <3> QED BY <2>1, <2>3, <2>7, <2>8, <2>9, <3>1, <3>2 DEF IsHeap
    <2>11. /\ logged.list \in Seq(ChunkIds)
           /\ Elements(logged.list) = Elements(list) \cup {new}
           /\ Distinct(logged.list)
      BY <2>1, <2>6, AppendElements
    <2>12. \A c \in DOMAIN heap : Len(heap[c].entries) \in Nat
      BY LenProperties DEF IsHeap, Chunk
    <2> QED BY <2>1, <2>5, <2>7, <2>9, <2>10, <2>11, <2>12 DEF Extends
  <1>3. CASE ~NeedsChunk(heap, list, entry)
    <2>1. list # << >>
      BY <1>3 DEF NeedsChunk
    <2>2. /\ logged.heap = [heap EXCEPT ![last] = LogEntry(@, entry)]
          /\ logged.list = list
      BY <1>3 DEF LogToLogBuffer
    <2>3. ASSUME NEW c \in DOMAIN heap
          PROVE  /\ logged.heap[c] \in Chunk
                 /\ logged.heap[c].readers = heap[c].readers
                 /\ Len(heap[c].entries) <= Len(logged.heap[c].entries)
      <3>1. heap[c] \in Chunk
        BY DEF IsHeap
      <3>2. /\ LogEntry(heap[c], entry) \in Chunk
            /\ LogEntry(heap[c], entry).readers = heap[c].readers
            /\ Len(LogEntry(heap[c], entry).entries) = Len(heap[c].entries) + 1
            /\ Len(heap[c].entries) \in Nat
        BY <3>1, LogEntryType
      <3>3. logged.heap[c] \in {heap[c], LogEntry(heap[c], entry)}
        BY <2>2
      <3> HIDE DEF logged
      <3> QED BY <3>1, <3>2, <3>3
    <2>4. DOMAIN logged.heap = DOMAIN heap
      BY <2>2
    <2> HIDE DEF logged
    <2>5. IsHeap(logged.heap)
      BY <2>3, <2>4 DEF IsHeap
    <2> QED BY <2>2, <2>3, <2>4, <2>5 DEF Extends
  <1> QED BY <1>2, <1>3

-----------------------------------------------------------------------------
(***************************************************************************)
(* FlushToStates                                                            *)
(***************************************************************************)
IsState(st) ==
    /\ DOMAIN st.log_positions \subseteq LogIds
    /\ st \in FlushToState(DOMAIN st.log_positions)

\* A position of s in log i: see PositionsAreValid
IsValidPosition(s, pos, list, heap) ==
    /\ pos.buffer_it \in Elements(list) \cap DOMAIN heap
    /\ s \in heap[pos.buffer_it].readers
    /\ pos.read_offset <= Len(heap[pos.buffer_it].entries)

HasValidPosition(s, i, st, list, heap) ==
    LET pos == st.log_positions[i]
    IN  /\ IsValidPosition(s, pos, list, heap)
        /\ i \notin st.logs_needed => pos.read_offset < Len(heap[pos.buffer_it].entries)

\* A new state has no position yet.
LEMMA NewFlushToStateType ==
    ASSUME NEW start \in Nat, NEW log_mask \in SUBSET LogIds
    PROVE  /\ IsState(NewFlushToState(start, log_mask))
           /\ DOMAIN NewFlushToState(start, log_mask).log_positions = {}
  BY DEF NewFlushToState, IsState, FlushToState

\* Prune() of a state resets the position in one log, and only that.
LEMMA PruneStateType ==
    ASSUME NEW st, IsState(st), NEW i \in LogIds
    PROVE  /\ IsState(PruneState(st, i))
           /\ DOMAIN PruneState(st, i).log_positions = (DOMAIN st.log_positions) \ {i}
           /\ \A j \in (DOMAIN st.log_positions) \ {i} :
                 PruneState(st, i).log_positions[j] = st.log_positions[j]
           /\ PruneState(st, i).logs_needed = st.logs_needed \cup {i}
  BY DEF PruneState, ResetPosition, IsState, FlushToState

\* Setting a position changes that of one log, and the rest only as told.
LEMMA SetPositionType ==
    ASSUME NEW st, IsState(st), NEW i \in LogIds, NEW pos \in Position
    PROVE  /\ IsState(SetPosition(st, i, pos))
           /\ DOMAIN SetPosition(st, i, pos).log_positions = (DOMAIN st.log_positions) \cup {i}
           /\ SetPosition(st, i, pos).log_positions[i] = pos
           /\ \A j \in (DOMAIN st.log_positions) \ {i} :
                 SetPosition(st, i, pos).log_positions[j] = st.log_positions[j]
           /\ SetPosition(st, i, pos).logs_needed = st.logs_needed
  BY DEF SetPosition, IsState, FlushToState

\* logs_needed may be set to any set of logs.
LEMMA LogsNeededType ==
    ASSUME NEW st, IsState(st), NEW needed \in SUBSET LogIds
    PROVE  /\ IsState([st EXCEPT !.logs_needed = needed])
           /\ [st EXCEPT !.logs_needed = needed].log_positions = st.log_positions
           /\ [st EXCEPT !.logs_needed = needed].logs_needed = needed
  BY DEF IsState, FlushToState

\* Popping an entry moves one position on by one and marks its log as to be looked at.
LEMMA PopNextUnreadLogType ==
    ASSUME NEW st, IsState(st), NEW i \in DOMAIN st.log_positions, NEW entry \in Entry
    PROVE  LET new == SetStart(PopNextUnreadLog(st, i), entry)
           IN  /\ IsState(new)
               /\ DOMAIN new.log_positions = DOMAIN st.log_positions
               /\ new.logs_needed = st.logs_needed \cup {i}
               /\ new.log_positions[i].buffer_it = st.log_positions[i].buffer_it
               /\ new.log_positions[i].read_offset = st.log_positions[i].read_offset + 1
               /\ \A j \in (DOMAIN st.log_positions) \ {i} :
                     new.log_positions[j] = st.log_positions[j]
  <1> DEFINE popped == PopNextUnreadLog(st, i)
             new == SetStart(popped, entry)
             pos == st.log_positions[i]
             moved == [st.log_positions EXCEPT ![i] = [pos EXCEPT !.read_offset = pos.read_offset + 1]]
  <1>1. pos \in Position /\ i \in LogIds /\ pos.read_offset \in Nat
    BY DEF IsState, FlushToState, Position
  <1>2. [pos EXCEPT !.read_offset = pos.read_offset + 1] \in Position
    BY <1>1 DEF Position
  <1>3. moved \in [DOMAIN st.log_positions -> Position]
    BY <1>2 DEF IsState, FlushToState
  <1>4. popped = [st EXCEPT !.log_positions = moved, !.logs_needed = st.logs_needed \cup {i}]
    BY DEF PopNextUnreadLog
  <1>5. /\ moved[i].buffer_it = pos.buffer_it
        /\ moved[i].read_offset = pos.read_offset + 1
        /\ \A j \in (DOMAIN st.log_positions) \ {i} : moved[j] = st.log_positions[j]
        /\ DOMAIN moved = DOMAIN st.log_positions
    BY <1>1 DEF Position
  <1> HIDE DEF moved, popped
  <1>6. /\ IsState(popped)
        /\ popped.log_positions = moved
        /\ popped.logs_needed = st.logs_needed \cup {i}
        /\ popped.start \in Nat
    BY <1>1, <1>3, <1>4, <1>5 DEF IsState, FlushToState
  <1> DEFINE start == IF entry.sequence < popped.start THEN popped.start ELSE entry.sequence
  <1>7. start \in Nat
    BY <1>6 DEF Entry
  <1>8. new = [popped EXCEPT !.start = start]
    BY DEF SetStart
  <1> HIDE DEF start, new
  <1>9. IsState(new) /\ new.log_positions = moved /\ new.logs_needed = st.logs_needed \cup {i}
    BY <1>6, <1>7, <1>8 DEF IsState, FlushToState
  <1>10. /\ IsState(new)
         /\ DOMAIN new.log_positions = DOMAIN st.log_positions
         /\ new.logs_needed = st.logs_needed \cup {i}
         /\ new.log_positions[i].buffer_it = st.log_positions[i].buffer_it
         /\ new.log_positions[i].read_offset = st.log_positions[i].read_offset + 1
         /\ \A j \in (DOMAIN st.log_positions) \ {i} :
               new.log_positions[j] = st.log_positions[j]
    BY <1>5, <1>9
  <1> QED BY <1>10 DEF new, popped

-----------------------------------------------------------------------------
(***************************************************************************)
(* IInv in parts                                                            *)
(***************************************************************************)
StatesOK == DOMAIN state \subseteq States /\ \A s \in DOMAIN state : IsState(state[s])

ThreadsOK == thread \in [Readers -> Thread]

CommandsOK ==
    /\ clear \in [log_id : Nat, uid : Nat, new_logs : Seq(ChunkIds),
                  contains_uid_logs : BOOLEAN, entry : Nat]
    /\ commands \in [set_sizes : Nat, reinits : Nat, clears : Nat, uid_clears : Nat]

LogsOK ==
    /\ logs \in [LogIds -> Seq(ChunkIds)]
    /\ max_size \in [LogIds -> Sizes \cap (kLogBufferMinSize .. kLogBufferMaxSize)]

WritersOK ==
    /\ sequence \in Nat
    /\ DOMAIN pending \subseteq Writers
    /\ \A w \in DOMAIN pending : pending[w] \in [log_id : LogIds, entry : Entry]

HistoryOK ==
    /\ late \in [Readers -> SUBSET Nat]
    /\ delivered \in [Readers -> Seq(Nat)]

LockOK == logd_lock \in {{}} \cup {{h} : h \in Readers \cup {"command"}}

Parts ==
    /\ IsHeap(chunk) /\ StatesOK /\ ThreadsOK /\ CommandsOK /\ LogsOK /\ WritersOK
    /\ HistoryOK /\ LockOK
    /\ PositionsAreValid /\ ListsAreDisjoint /\ ClearIsConsistent /\ ThreadsHaveStates

\* IInv, taken apart for the lemmas on the actions.
LEMMA PartsOfIInv == IInv => Parts
  BY DEF IInv, TypeOK, Parts, IsHeap, StatesOK, IsState, ThreadsOK, CommandsOK, LogsOK,
         WritersOK, HistoryOK, LockOK

\* The parts make IInv again, in the next state.
LEMMA IInvOfParts == ASSUME Parts' PROVE IInv'
  BY DEF IInv, TypeOK, Parts, IsHeap, StatesOK, IsState, ThreadsOK, CommandsOK, LogsOK,
         WritersOK, HistoryOK, LockOK

\* PositionsAreValid, one position at a time.
LEMMA PositionsByState ==
    PositionsAreValid <=> \A s \in DOMAIN state : \A i \in DOMAIN state[s].log_positions :
                             HasValidPosition(s, i, state[s], logs[i], chunk)
  BY DEF PositionsAreValid, HasValidPosition, IsValidPosition

\* The same in the next state.
LEMMA PositionsByStatePrimed ==
    ASSUME \A s \in DOMAIN state' : \A i \in DOMAIN state'[s].log_positions :
              HasValidPosition(s, i, state'[s], logs'[i], chunk')
    PROVE  PositionsAreValid'
  BY DEF PositionsAreValid, HasValidPosition, IsValidPosition

\* A valid position stays valid in a heap that only grew and kept its reader.
LEMMA ValidPositionKept ==
    ASSUME NEW s, NEW i, NEW st, NEW list, NEW heap, IsHeap(heap),
           IsState(st), i \in DOMAIN st.log_positions,
           HasValidPosition(s, i, st, list, heap),
           NEW st2, IsState(st2), i \in DOMAIN st2.log_positions,
           st2.log_positions[i] = st.log_positions[i],
           i \notin st2.logs_needed => i \notin st.logs_needed,
           NEW list2, NEW heap2, IsHeap(heap2),
           st.log_positions[i].buffer_it \in Elements(list2) \cap DOMAIN heap2,
           s \in heap2[st.log_positions[i].buffer_it].readers,
           Len(heap[st.log_positions[i].buffer_it].entries)
              <= Len(heap2[st.log_positions[i].buffer_it].entries)
    PROVE  HasValidPosition(s, i, st2, list2, heap2)
  <1> DEFINE pos == st.log_positions[i]
  <1>1. pos.read_offset \in Nat
    BY DEF IsState, FlushToState, Position
  <1>2. pos.buffer_it \in DOMAIN heap /\ pos.buffer_it \in DOMAIN heap2
    BY DEF HasValidPosition, IsValidPosition
  <1>3. Len(heap[pos.buffer_it].entries) \in Nat /\ Len(heap2[pos.buffer_it].entries) \in Nat
    BY <1>2, LenProperties DEF IsHeap, Chunk
  <1> QED BY <1>1, <1>3 DEF HasValidPosition, IsValidPosition

(***************************************************************************)
(* Prune(): logged is the heap and the list of log i before the chunks P    *)
(* are erased.                                                              *)
(***************************************************************************)
PruneTo(i, logged, P, list) ==
    /\ P \subseteq Elements(logged.list)
    /\ list \in Seq(ChunkIds)
    /\ Distinct(list)
    /\ Elements(list) = Elements(logged.list) \ P
    /\ chunk' = Free(logged.heap, P)
    /\ logs' = [logs EXCEPT ![i] = list]
    /\ state' = NotifyReadersOfPrune(i, logged.heap, P)

\* Erasing chunks from the front of a log, with NotifyReadersOfPrune() for each of
\* them, leaves no position in an erased chunk.
LEMMA PrunePreserves ==
    ASSUME Parts, ~Clearing, NEW i \in LogIds,
           NEW logged, Extends(chunk, logs[i], logged),
           NEW P, NEW list, PruneTo(i, logged, P, list),
           clear' = clear
    PROVE  /\ IsHeap(chunk') /\ StatesOK' /\ DOMAIN state' = DOMAIN state
           /\ logs' \in [LogIds -> Seq(ChunkIds)]
           /\ PositionsAreValid' /\ ListsAreDisjoint'
  <1> DEFINE heap == logged.heap
  <1>1. DOMAIN chunk' = (DOMAIN heap) \ P /\ \A c \in DOMAIN chunk' : chunk'[c] = heap[c]
    BY DEF PruneTo, Free
  <1>2. IsHeap(chunk')
    BY <1>1 DEF IsHeap, Extends
  <1>3. DOMAIN state' = DOMAIN state
    BY DEF PruneTo, NotifyReadersOfPrune
  <1>4. ASSUME NEW s \in DOMAIN state
        PROVE  \/ /\ \E c \in P : s \in heap[c].readers
                  /\ state'[s] = PruneState(state[s], i)
               \/ /\ ~ \E c \in P : s \in heap[c].readers
                  /\ state'[s] = state[s]
    BY DEF PruneTo, NotifyReadersOfPrune
  <1>5. \A s \in DOMAIN state : IsState(state[s])
    BY DEF Parts, StatesOK
  <1>6. ASSUME NEW s \in DOMAIN state
        PROVE  IsState(state'[s])
    BY <1>4, <1>5, PruneStateType
  <1>7. StatesOK'
    BY <1>3, <1>6 DEF Parts, StatesOK
  <1>8. logs' \in [LogIds -> Seq(ChunkIds)]
    BY DEF PruneTo, Parts, LogsOK
  <1>9. logs'[i] = list /\ \A j \in LogIds \ {i} : logs'[j] = logs[j]
    BY DEF PruneTo, Parts, LogsOK
  <1>10. \A j \in LogIds : /\ Elements(logs[j]) \subseteq DOMAIN chunk
                           /\ j # i => Elements(logs[j]) \cap Elements(logged.list) = {}
    BY DEF Parts, ListsAreDisjoint, Extends
  <1>11. \A j \in LogIds \ {i} : Elements(logs[j]) \subseteq DOMAIN chunk'
    BY <1>1, <1>10 DEF PruneTo, Extends
  <1>12. Elements(list) \subseteq DOMAIN chunk'
    <2>1. Elements(logged.list) \subseteq DOMAIN heap
      BY <1>10 DEF Extends
    <2> QED BY <1>1, <2>1 DEF PruneTo
  <1>13. ListsAreDisjoint'
    <2>1. clear.new_logs = << >> /\ Elements(clear.new_logs) = {}
      BY EmptySeq DEF Parts, ClearIsConsistent, Elements
    <2>2. ASSUME NEW j \in LogIds
          PROVE  Distinct(logs'[j]) /\ Elements(logs'[j]) \subseteq DOMAIN chunk'
      BY <1>9, <1>11, <1>12 DEF Parts, ListsAreDisjoint, PruneTo
    <2>3. ASSUME NEW j \in LogIds, NEW k \in LogIds, j # k
          PROVE  Elements(logs'[j]) \cap Elements(logs'[k]) = {}
      <3>1. Elements(list) \subseteq Elements(logged.list)
        BY DEF PruneTo
      <3>2. CASE j = i
        <4>1. Elements(logs[k]) \cap Elements(logged.list) = {} /\ logs'[k] = logs[k]
          BY <1>9, <1>10, <2>3, <3>2
        <4> QED BY <1>9, <3>1, <3>2, <4>1
      <3>3. CASE k = i
        <4>1. Elements(logs[j]) \cap Elements(logged.list) = {} /\ logs'[j] = logs[j]
          BY <1>9, <1>10, <2>3, <3>3
        <4> QED BY <1>9, <3>1, <3>3, <4>1
      <3>4. CASE j # i /\ k # i
        BY <1>9, <2>3, <3>4 DEF Parts, ListsAreDisjoint
      <3> QED BY <3>2, <3>3, <3>4
    <2> QED BY <2>1, <2>2, <2>3 DEF Parts, ListsAreDisjoint
  <1>14. PositionsAreValid'
    <2> SUFFICES ASSUME NEW s \in DOMAIN state, NEW j \in DOMAIN state'[s].log_positions
                 PROVE  HasValidPosition(s, j, state'[s], logs'[j], chunk')
      BY <1>3, PositionsByStatePrimed
    <2> DEFINE c == state[s].log_positions[j].buffer_it
    <2>1. /\ j \in DOMAIN state[s].log_positions
          /\ j \in LogIds
          /\ state'[s].log_positions[j] = state[s].log_positions[j]
          /\ j \notin state'[s].logs_needed => j \notin state[s].logs_needed
      BY <1>4, <1>5, PruneStateType DEF IsState
    <2>2. HasValidPosition(s, j, state[s], logs[j], chunk)
      BY <2>1, PositionsByState DEF Parts
    <2>3. /\ c \in Elements(logs[j]) /\ c \in DOMAIN chunk
          /\ s \in heap[c].readers
          /\ Len(chunk[c].entries) <= Len(heap[c].entries)
      BY <2>2 DEF HasValidPosition, IsValidPosition, Extends
    <2>4. c \notin P
      <3>1. CASE j # i
        BY <1>10, <2>1, <2>3, <3>1 DEF PruneTo
      <3>2. CASE j = i
        <4>1. state'[s] # PruneState(state[s], i)
          BY <1>5, <3>2, PruneStateType
        <4> QED BY <1>4, <2>3, <4>1
      <3> QED BY <3>1, <3>2
    <2>5. c \in Elements(logs'[j])
      BY <1>9, <2>1, <2>3, <2>4 DEF Extends, PruneTo
    <2>6. c \in DOMAIN chunk' /\ chunk'[c] = heap[c]
      BY <1>1, <2>3, <2>4 DEF Extends
    <2> HIDE DEF c
    <2>7. IsHeap(chunk) /\ IsState(state[s]) /\ IsState(state'[s])
      BY <1>5, <1>6 DEF Parts
    <2> QED BY <1>2, <2>1, <2>2, <2>3, <2>5, <2>6, <2>7, ValidPositionKept DEF c
  <1> QED BY <1>2, <1>3, <1>7, <1>8, <1>13, <1>14

-----------------------------------------------------------------------------
(***************************************************************************)
(* Threads                                                                  *)
(***************************************************************************)

\* t2 needs no FlushToState that t did not need.
NeedsNoMore(t2, t) ==
    /\ NeedsMain(t2) => NeedsMain(t)
    /\ NeedsTemp(t2) => NeedsTemp(t)
    /\ t2.pc = "write" => t.pc = "write"
    /\ t2.pass = t.pass

\* Waking a thread changes only where it is waiting.
LEMMA TriggerReaderType ==
    ASSUME NEW t \in Thread
    PROVE  TriggerReader(t) \in Thread /\ NeedsNoMore(TriggerReader(t), t)
  <1> DEFINE pc == CASE t.pc = "wait" -> "woken"
                     [] t.pc = "wait_until" -> "notified"
                     [] OTHER -> t.pc
  <1>1. TriggerReader(t) = [t EXCEPT !.pc = pc]
    BY DEF TriggerReader
  <1>2. \/ t.pc = "wait" /\ pc = "woken"
        \/ t.pc = "wait_until" /\ pc = "notified"
        \/ pc = t.pc
    OBVIOUS
  <1> HIDE DEF pc
  <1> QED BY <1>1, <1>2 DEF Thread, NeedsNoMore, NeedsMain, NeedsTemp

\* Waking several threads keeps each of them a thread with the same needs.
LEMMA TriggerReadersType ==
    ASSUME ThreadsOK, NEW R
    PROVE  /\ TriggerReaders(thread, R) \in [Readers -> Thread]
           /\ \A r \in Readers : NeedsNoMore(TriggerReaders(thread, R)[r], thread[r])
  <1>1. ASSUME NEW r \in Readers
        PROVE  /\ TriggerReaders(thread, R)[r] \in Thread
               /\ NeedsNoMore(TriggerReaders(thread, R)[r], thread[r])
    <2>1. thread[r] \in Thread
      BY DEF ThreadsOK
    <2>2. TriggerReader(thread[r]) \in Thread /\ NeedsNoMore(TriggerReader(thread[r]), thread[r])
      BY <2>1, TriggerReaderType
    <2>3. NeedsNoMore(thread[r], thread[r])
      BY DEF NeedsNoMore
    <2>4. TriggerReaders(thread, R)[r] \in {thread[r], TriggerReader(thread[r])}
      BY DEF TriggerReaders
    <2> QED BY <2>1, <2>2, <2>3, <2>4
  <1>2. TriggerReaders(thread, R) = [r \in Readers |-> TriggerReaders(thread, R)[r]]
    BY DEF TriggerReaders
  <1> QED BY <1>1, <1>2

\* A step after which no thread needs more than before, and no state is gone.
LEMMA ThreadsHaveStatesKept ==
    ASSUME ThreadsHaveStates, DOMAIN state \subseteq DOMAIN state',
           \A r \in Readers : NeedsNoMore(thread'[r], thread[r])
    PROVE  ThreadsHaveStates'
  BY DEF ThreadsHaveStates, NeedsNoMore, NeedsMain, NeedsTemp, Main, Temp

-----------------------------------------------------------------------------
(***************************************************************************)
(* The actions of SerializedLogBuffer                                       *)
(***************************************************************************)
\* A writer takes its sequence number, before the lock.
LEMMA TakeSequencePreserves ==
    ASSUME Parts, NEW w \in Writers, TakeSequence(w), delivered' = delivered
    PROVE  Parts'
  <1>1. PICK m \in Messages :
            LET entry == [sequence |-> sequence,
                          realtime |-> m.realtime,
                          uid      |-> m.uid,
                          pid      |-> m.pid,
                          msg_len  |-> IF m.msg_len > LOGGER_ENTRY_MAX_PAYLOAD
                                       THEN LOGGER_ENTRY_MAX_PAYLOAD ELSE m.msg_len]
            IN  pending' = [v \in (DOMAIN pending) \cup {w} |->
                               IF v = w THEN [log_id |-> m.log_id, entry |-> entry]
                                        ELSE pending[v]]
    BY DEF TakeSequence
  <1> DEFINE entry == [sequence |-> sequence,
                       realtime |-> m.realtime,
                       uid      |-> m.uid,
                       pid      |-> m.pid,
                       msg_len  |-> IF m.msg_len > LOGGER_ENTRY_MAX_PAYLOAD
                                    THEN LOGGER_ENTRY_MAX_PAYLOAD ELSE m.msg_len]
  <1>2. entry \in Entry /\ m.log_id \in LogIds
    BY MessageAssumption, SizeAssumption DEF Entry, Parts, WritersOK
  <1> HIDE DEF entry
  <1>3. [log_id |-> m.log_id, entry |-> entry] \in [log_id : LogIds, entry : Entry]
    BY <1>2
  <1>4. /\ DOMAIN pending' = (DOMAIN pending) \cup {w}
        /\ \A v \in DOMAIN pending' :
              pending'[v] = IF v = w THEN [log_id |-> m.log_id, entry |-> entry] ELSE pending[v]
    BY <1>1 DEF entry
  <1>5. sequence' \in Nat
    BY DEF TakeSequence, Parts, WritersOK
  <1>6. WritersOK'
    BY <1>3, <1>4, <1>5 DEF Parts, WritersOK
  <1> QED BY <1>6 DEF Parts, TakeSequence, StatesOK, ThreadsOK, CommandsOK, LogsOK, HistoryOK,
                      LockOK, PositionsAreValid, ListsAreDisjoint, ClearIsConsistent, Clearing,
                      ThreadsHaveStates

\* The state of a log before it is pruned: nothing was logged.
LEMMA ExtendsItself ==
    ASSUME Parts, NEW i \in LogIds
    PROVE  Extends(chunk, logs[i], [heap |-> chunk, list |-> logs[i]])
  <1>1. \A c \in DOMAIN chunk : Len(chunk[c].entries) \in Nat
    BY LenProperties DEF Parts, IsHeap, Chunk
  <1> QED BY <1>1 DEF Extends, Parts, LogsOK, ListsAreDisjoint

\* A chunk of a log of any valid size has a size.
LEMMA ChunkSize ==
    ASSUME Parts, NEW i \in LogIds
    PROVE  max_size[i] \in Nat /\ max_size[i] \div kChunkSizeDivisor \in Nat
  <1>1. max_size[i] \in Sizes /\ max_size[i] \in kLogBufferMinSize .. kLogBufferMaxSize
    BY DEF Parts, LogsOK
  <1>2. max_size[i] \in Nat /\ IsValidBufferSize(max_size[i])
    BY <1>1, SizeAssumption DEF IsValidBufferSize
  <1>3. max_size[i] \div kChunkSizeDivisor \in Nat
    BY <1>1, <1>2, CapacityAssumption, Zenon
  <1> QED BY <1>2, <1>3

\* What ClearLogsByUid() and Log() may compress a chunk to
LEMMA ZSizesType ==
    ASSUME NEW heap, NEW list, NEW entry, NEW zsize \in ZSizes(heap, list, entry)
    PROVE  zsize \in Nat
  <1>1. zsize \in CompressedSizes \/ zsize = 0
    BY Zenon DEF ZSizes
  <1>2. \A z \in CompressedSizes : z \in Nat
    BY SizeAssumption
  <1>3. 0 \in Nat
    OBVIOUS
  <1> QED BY <1>1, <1>2, <1>3, Zenon

\* While the lock is free no ClearLogsByUid() runs, nor while a reader holds it.
LEMMA NotClearing ==
    ASSUME LockFree \/ \E r \in Readers : logd_lock = {r}
    PROVE  ~Clearing
  BY ReaderAssumption DEF LockFree, Clearing

\* Log(), under the lock: LogToLogBuffer() and MaybePrune().
LEMMA LogPreserves ==
    ASSUME Parts, NEW w \in Writers, Log(w), delivered' = delivered
    PROVE  Parts'
  <1> DEFINE i == pending[w].log_id
             entry == pending[w].entry
  <1>1. i \in LogIds /\ entry \in Entry /\ w \in DOMAIN pending
    BY DEF Log, Parts, WritersOK
  <1>2. PICK zsize \in ZSizes(chunk, logs[i], entry) :
            LET logged == LogToLogBuffer(chunk, logs[i], max_size[i], entry, zsize)
            IN  \E n \in 0 .. Len(logged.list) :
                  /\ NeedsChunk(chunk, logs[i], entry) => CanAllocate(chunk)
                  /\ chunk' = Free(logged.heap, Pruned(logged.list, n))
                  /\ logs' = [logs EXCEPT ![i] = Unpruned(logged.list, n)]
                  /\ state' = NotifyReadersOfPrune(i, logged.heap, Pruned(logged.list, n))
                  /\ thread' = TriggerReaders(thread,
                        NotifiedOfNewLog(i) \cup (IF n > 0 THEN NotifiedOfPrune(i) ELSE {}))
                  /\ late' = [r \in Readers |->
                        IF ComesLate(r, entry) THEN late[r] \cup {entry.sequence} ELSE late[r]]
    BY DEF Log
  <1> DEFINE logged == LogToLogBuffer(chunk, logs[i], max_size[i], entry, zsize)
  <1>3. PICK n \in 0 .. Len(logged.list) :
            /\ NeedsChunk(chunk, logs[i], entry) => CanAllocate(chunk)
            /\ chunk' = Free(logged.heap, Pruned(logged.list, n))
            /\ logs' = [logs EXCEPT ![i] = Unpruned(logged.list, n)]
            /\ state' = NotifyReadersOfPrune(i, logged.heap, Pruned(logged.list, n))
            /\ thread' = TriggerReaders(thread,
                  NotifiedOfNewLog(i) \cup (IF n > 0 THEN NotifiedOfPrune(i) ELSE {}))
            /\ late' = [r \in Readers |->
                  IF ComesLate(r, entry) THEN late[r] \cup {entry.sequence} ELSE late[r]]
    BY <1>2
  <1>4. zsize \in Nat
    BY <1>2, ZSizesType
  <1>5. Extends(chunk, logs[i], logged)
    <2>1. /\ IsHeap(chunk) /\ logs[i] \in Seq(ChunkIds) /\ Distinct(logs[i])
          /\ Elements(logs[i]) \subseteq DOMAIN chunk
      BY <1>1 DEF Parts, LogsOK, ListsAreDisjoint
    <2>2. max_size[i] \in Nat /\ max_size[i] \div kChunkSizeDivisor \in Nat
      BY <1>1, ChunkSize
    <2> QED BY <1>1, <1>3, <1>4, <2>1, <2>2, LogToLogBufferExtends
  <1> HIDE DEF logged, i, entry
  <1>6. PruneTo(i, logged, Pruned(logged.list, n), Unpruned(logged.list, n))
    BY <1>3, <1>5, UnprunedElements DEF PruneTo, Extends
  <1>7. ~Clearing /\ logd_lock' = logd_lock /\ clear' = clear /\ max_size' = max_size
        /\ commands' = commands /\ sequence' = sequence
    BY DEF Log, LockFree, Clearing
  <1>8. /\ IsHeap(chunk') /\ StatesOK' /\ DOMAIN state' = DOMAIN state
        /\ logs' \in [LogIds -> Seq(ChunkIds)]
        /\ PositionsAreValid' /\ ListsAreDisjoint'
    BY <1>1, <1>5, <1>6, <1>7, PrunePreserves
  <1>9. ThreadsOK' /\ \A r \in Readers : NeedsNoMore(thread'[r], thread[r])
    BY <1>3, TriggerReadersType DEF Parts, ThreadsOK
  <1>10. ThreadsHaveStates'
    BY <1>8, <1>9, ThreadsHaveStatesKept DEF Parts
  <1>11. late' \in [Readers -> SUBSET Nat]
    BY <1>1, <1>3 DEF Parts, HistoryOK, Entry
  <1>12. WritersOK'
    BY <1>7 DEF Log, Parts, WritersOK
  <1>13. ClearIsConsistent'
    BY <1>7 DEF Parts, ClearIsConsistent, Clearing
  <1>14. LogsOK' /\ CommandsOK' /\ LockOK' /\ HistoryOK'
    BY <1>7, <1>8, <1>11 DEF Parts, LogsOK, CommandsOK, LockOK, HistoryOK
  <1> QED BY <1>8, <1>9, <1>10, <1>12, <1>13, <1>14 DEF Parts

\* SetSize() and the MaybePrune() it ends with.
LEMMA SetSizePreserves ==
    ASSUME Parts, NEW i \in LogIds, NEW size \in Sizes, SetSize(i, size), delivered' = delivered
    PROVE  Parts'
  <1>1. PICK n \in 0 .. Len(logs[i]) :
            /\ chunk' = Free(chunk, Pruned(logs[i], n))
            /\ logs' = [logs EXCEPT ![i] = Unpruned(logs[i], n)]
            /\ state' = NotifyReadersOfPrune(i, chunk, Pruned(logs[i], n))
            /\ thread' = TriggerReaders(thread, IF n > 0 THEN NotifiedOfPrune(i) ELSE {})
    BY DEF SetSize
  <1> DEFINE logged == [heap |-> chunk, list |-> logs[i]]
  <1>2. Extends(chunk, logs[i], logged)
    BY ExtendsItself
  <1>3. PruneTo(i, logged, Pruned(logs[i], n), Unpruned(logs[i], n))
    <2>1. logs[i] \in Seq(ChunkIds) /\ Distinct(logs[i])
      BY DEF Parts, LogsOK, ListsAreDisjoint
    <2> QED BY <1>1, <2>1, UnprunedElements DEF PruneTo
  <1>4. ~Clearing /\ logd_lock' = logd_lock /\ clear' = clear /\ sequence' = sequence
        /\ pending' = pending /\ late' = late
    BY DEF SetSize, LockFree, Clearing
  <1>5. /\ IsHeap(chunk') /\ StatesOK' /\ DOMAIN state' = DOMAIN state
        /\ logs' \in [LogIds -> Seq(ChunkIds)]
        /\ PositionsAreValid' /\ ListsAreDisjoint'
    <2> HIDE DEF logged
    <2> QED BY <1>2, <1>3, <1>4, PrunePreserves
  <1>6. ThreadsOK' /\ \A r \in Readers : NeedsNoMore(thread'[r], thread[r])
    BY <1>1, TriggerReadersType DEF Parts, ThreadsOK
  <1>7. ThreadsHaveStates'
    BY <1>5, <1>6, ThreadsHaveStatesKept DEF Parts
  <1>8. max_size' \in [LogIds -> Sizes \cap (kLogBufferMinSize .. kLogBufferMaxSize)]
    BY SizeAssumption DEF SetSize, IsValidBufferSize, Parts, LogsOK
  <1>9. CommandsOK'
    BY <1>4, SMTT(20) DEF SetSize, Parts, CommandsOK
  <1>10. ClearIsConsistent'
    BY <1>4 DEF Parts, ClearIsConsistent, Clearing
  <1>11. LogsOK' /\ LockOK' /\ HistoryOK' /\ WritersOK'
    BY <1>4, <1>5, <1>8 DEF Parts, LogsOK, LockOK, HistoryOK, WritersOK
  <1> QED BY <1>5, <1>6, <1>7, <1>9, <1>10, <1>11 DEF Parts

\* Clear() of a whole log.
LEMMA ClearAllPreserves ==
    ASSUME Parts, NEW i \in LogIds, ClearAll(i), delivered' = delivered
    PROVE  Parts'
  <1> DEFINE logged == [heap |-> chunk, list |-> logs[i]]
  <1>1. Extends(chunk, logs[i], logged)
    BY ExtendsItself
  <1>2. PruneTo(i, logged, Elements(logs[i]), << >>)
    <2>1. << >> \in Seq(ChunkIds) /\ Elements(<< >>) = {} /\ Distinct(<< >>)
      BY EmptySeq DEF Elements, Distinct
    <2> QED BY <2>1 DEF PruneTo, ClearAll
  <1>3. ~Clearing /\ logd_lock' = logd_lock /\ clear' = clear /\ sequence' = sequence
        /\ pending' = pending /\ late' = late /\ max_size' = max_size
    BY DEF ClearAll, LockFree, Clearing
  <1>4. /\ IsHeap(chunk') /\ StatesOK' /\ DOMAIN state' = DOMAIN state
        /\ logs' \in [LogIds -> Seq(ChunkIds)]
        /\ PositionsAreValid' /\ ListsAreDisjoint'
    <2> HIDE DEF logged
    <2> QED BY <1>1, <1>2, <1>3, PrunePreserves
  <1>5. ThreadsOK' /\ \A r \in Readers : NeedsNoMore(thread'[r], thread[r])
    BY TriggerReadersType DEF ClearAll, Parts, ThreadsOK
  <1>6. ThreadsHaveStates'
    BY <1>4, <1>5, ThreadsHaveStatesKept DEF Parts
  <1>7. CommandsOK'
    BY <1>3 DEF ClearAll, Parts, CommandsOK
  <1>8. ClearIsConsistent'
    BY <1>3 DEF Parts, ClearIsConsistent, Clearing
  <1>9. LogsOK' /\ LockOK' /\ HistoryOK' /\ WritersOK'
    BY <1>3, <1>4 DEF Parts, LogsOK, LockOK, HistoryOK, WritersOK
  <1> QED BY <1>4, <1>5, <1>6, <1>7, <1>8, <1>9 DEF Parts

\* The end of Init(): every reader is triggered.
LEMMA ReinitTriggerPreserves ==
    ASSUME Parts, ReinitTrigger, delivered' = delivered
    PROVE  Parts'
  <1>1. ThreadsOK' /\ \A r \in Readers : NeedsNoMore(thread'[r], thread[r])
    BY TriggerReadersType DEF ReinitTrigger, Parts, ThreadsOK
  <1>2. ThreadsHaveStates'
    BY <1>1, ThreadsHaveStatesKept DEF ReinitTrigger, Parts
  <1>3. CommandsOK'
    BY SMTT(20) DEF ReinitTrigger, Parts, CommandsOK
  <1> QED BY <1>1, <1>2, <1>3
          DEF Parts, ReinitTrigger, StatesOK, LogsOK, HistoryOK, WritersOK, LockOK,
              PositionsAreValid, ListsAreDisjoint, ClearIsConsistent, Clearing

\* Clear() of a uid takes the lock and starts ClearLogsByUid().
LEMMA UidClearPreserves ==
    ASSUME Parts, NEW i \in LogIds, NEW uid \in Nat, UidClear(i, uid), delivered' = delivered
    PROVE  Parts'
  <1>1. ThreadsOK' /\ \A r \in Readers : NeedsNoMore(thread'[r], thread[r])
    BY TriggerReadersType DEF UidClear, Parts, ThreadsOK
  <1>2. ThreadsHaveStates'
    BY <1>1, ThreadsHaveStatesKept DEF UidClear, Parts
  <1>3. << >> \in Seq(ChunkIds)
    BY EmptySeq
  <1>4. clear' = [log_id |-> i, uid |-> uid, new_logs |-> << >>,
                  contains_uid_logs |-> FALSE, entry |-> 0]
    BY DEF UidClear, NoClear
  <1>5. CommandsOK'
    <2>1. i \in Nat
      BY LogIdAssumption DEF LogIds
    <2>2. clear' \in [log_id : Nat, uid : Nat, new_logs : Seq(ChunkIds),
                     contains_uid_logs : BOOLEAN, entry : Nat]
      BY <1>3, <1>4, <2>1
    <2>3. commands' \in [set_sizes : Nat, reinits : Nat, clears : Nat, uid_clears : Nat]
      BY DEF UidClear, Parts, CommandsOK
    <2> QED BY <2>2, <2>3 DEF CommandsOK
  <1>6. clear.new_logs = << >>
    <2>1. ~Clearing
      BY NotClearing DEF UidClear
    <2> QED BY <2>1 DEF Parts, ClearIsConsistent
  <1>7. clear'.new_logs = << >> /\ clear'.entry = 0 /\ clear'.log_id = i
    BY <1>4
  <1>8. ListsAreDisjoint'
    BY <1>6, <1>7 DEF UidClear, Parts, ListsAreDisjoint
  <1>9. ClearIsConsistent'
    BY <1>7 DEF ClearIsConsistent
  <1> QED BY <1>1, <1>2, <1>5, <1>8, <1>9
          DEF Parts, UidClear, StatesOK, LogsOK, HistoryOK, WritersOK, LockOK, PositionsAreValid

-----------------------------------------------------------------------------
(***************************************************************************)
(* ClearLogsByUid()                                                         *)
(***************************************************************************)

\* What ClearLogsByUid() has in hand when it visits the chunk at the head of a list
LEMMA HeadOfClear ==
    ASSUME Parts, Clearing, logs[clear.log_id] # << >>
    PROVE  LET i == clear.log_id
               c == Head(logs[i])
           IN  /\ i \in LogIds
               /\ logs[i] \in Seq(ChunkIds) /\ Distinct(logs[i])
               /\ Tail(logs[i]) \in Seq(ChunkIds) /\ Distinct(Tail(logs[i]))
               /\ c \in Elements(logs[i]) /\ c \in DOMAIN chunk /\ c \in ChunkIds
               /\ Elements(Tail(logs[i])) = Elements(logs[i]) \ {c}
               /\ chunk[c] \in Chunk /\ IsFiniteSet(chunk[c].readers)
               /\ c \notin Elements(clear.new_logs)
               /\ \A j \in LogIds : j # i => c \notin Elements(logs[j])
  <1> DEFINE i == clear.log_id
             c == Head(logs[i])
  <1>1. i \in LogIds /\ logs[i] \in Seq(ChunkIds) /\ Distinct(logs[i])
    BY DEF Parts, ClearIsConsistent, LogsOK, ListsAreDisjoint
  <1>2. /\ Tail(logs[i]) \in Seq(ChunkIds) /\ Distinct(Tail(logs[i]))
        /\ c \in Elements(logs[i])
        /\ Elements(Tail(logs[i])) = Elements(logs[i]) \ {c}
    BY <1>1, TailElements
  <1>3. c \in DOMAIN chunk
    BY <1>1, <1>2 DEF Parts, ListsAreDisjoint
  <1>4. chunk[c] \in Chunk /\ IsFiniteSet(chunk[c].readers) /\ c \in ChunkIds
    BY <1>3 DEF Parts, IsHeap
  <1>5. /\ c \notin Elements(clear.new_logs)
        /\ \A j \in LogIds : j # i => c \notin Elements(logs[j])
    BY <1>1, <1>2 DEF Parts, ListsAreDisjoint
  <1> QED BY <1>1, <1>2, <1>3, <1>4, <1>5

(***************************************************************************)
(* The readers of the chunk c at the head of log i are told and detached.   *)
(* Afterwards no position is left in c.                                     *)
(***************************************************************************)
LEMMA NotifyReadersOfHead ==
    ASSUME Parts, Clearing, logs[clear.log_id] # << >>,
           state' = NotifyReadersOfPrune(clear.log_id, chunk, {Head(logs[clear.log_id])}),
           IsHeap(chunk'), DOMAIN chunk \subseteq DOMAIN chunk',
           \A d \in (DOMAIN chunk) \ {Head(logs[clear.log_id])} :
              chunk'[d] = chunk[d],
           \A j \in LogIds : \A d \in Elements(logs[j]) :
              d # Head(logs[clear.log_id]) => d \in Elements(logs'[j])
    PROVE  StatesOK' /\ DOMAIN state' = DOMAIN state /\ PositionsAreValid'
  <1> DEFINE i == clear.log_id
             c == Head(logs[i])
  <1>1. /\ i \in LogIds /\ c \in DOMAIN chunk
        /\ \A j \in LogIds : j # i => c \notin Elements(logs[j])
    BY HeadOfClear
  <1>2. DOMAIN state' = DOMAIN state
    BY DEF NotifyReadersOfPrune
  <1>3. ASSUME NEW s \in DOMAIN state
        PROVE  \/ s \in chunk[c].readers /\ state'[s] = PruneState(state[s], i)
               \/ s \notin chunk[c].readers /\ state'[s] = state[s]
    BY DEF NotifyReadersOfPrune
  <1>4. \A s \in DOMAIN state : IsState(state[s])
    BY DEF Parts, StatesOK
  <1>0. /\ \A d \in (DOMAIN chunk) \ {c} : chunk'[d] = chunk[d]
        /\ \A j \in LogIds : \A d \in Elements(logs[j]) : d # c => d \in Elements(logs'[j])
    OBVIOUS
  <1> HIDE DEF i, c
  <1>5. ASSUME NEW s \in DOMAIN state
        PROVE  IsState(state'[s])
    <2>1. IsState(state[s]) /\ IsState(PruneState(state[s], i))
      BY <1>1, <1>4, PruneStateType
    <2> QED BY <1>3, <2>1
  <1>6. StatesOK'
    BY <1>2, <1>5 DEF Parts, StatesOK
  <1>7. PositionsAreValid'
    <2> SUFFICES ASSUME NEW s \in DOMAIN state, NEW j \in DOMAIN state'[s].log_positions
                 PROVE  HasValidPosition(s, j, state'[s], logs'[j], chunk')
      BY <1>2, PositionsByStatePrimed
    <2> DEFINE d == state[s].log_positions[j].buffer_it
    <2>1. /\ j \in DOMAIN state[s].log_positions
          /\ j \in LogIds
          /\ state'[s].log_positions[j] = state[s].log_positions[j]
          /\ j \notin state'[s].logs_needed => j \notin state[s].logs_needed
          /\ j = i => state'[s] # PruneState(state[s], i)
      <3>1. IsState(state[s]) /\ DOMAIN state[s].log_positions \subseteq LogIds
        BY <1>4 DEF IsState
      <3> DEFINE pruned == PruneState(state[s], i)
      <3>2. /\ DOMAIN pruned.log_positions = (DOMAIN state[s].log_positions) \ {i}
            /\ \A k \in (DOMAIN state[s].log_positions) \ {i} :
                  pruned.log_positions[k] = state[s].log_positions[k]
            /\ pruned.logs_needed = state[s].logs_needed \cup {i}
        BY <1>1, <3>1, PruneStateType
      <3>3. state'[s] = pruned \/ state'[s] = state[s]
        BY <1>3
      <3> HIDE DEF pruned
      <3>4. j = i => state'[s] # pruned
        BY <3>2
      <3>5. /\ j \in DOMAIN state[s].log_positions
            /\ j \in LogIds
            /\ state'[s].log_positions[j] = state[s].log_positions[j]
            /\ j \notin state'[s].logs_needed => j \notin state[s].logs_needed
        BY <3>1, <3>2, <3>3
      <3> QED BY <3>4, <3>5 DEF pruned
    <2>2. HasValidPosition(s, j, state[s], logs[j], chunk)
      BY <2>1, PositionsByState DEF Parts
    <2>3. d \in Elements(logs[j]) /\ d \in DOMAIN chunk /\ s \in chunk[d].readers
      BY <2>2 DEF HasValidPosition, IsValidPosition
    <2>4. d # c
      BY <1>1, <1>3, <2>1, <2>3
    <2>5. d \in Elements(logs'[j]) /\ d \in DOMAIN chunk' /\ chunk'[d] = chunk[d]
      BY <1>0, <2>1, <2>3, <2>4
    <2>6. Len(chunk[d].entries) \in Nat
      BY <2>3, LenProperties DEF Parts, IsHeap, Chunk
    <2> HIDE DEF d
    <2>7. IsHeap(chunk) /\ IsState(state[s]) /\ IsState(state'[s])
      BY <1>4, <1>5 DEF Parts
    <2>8. Len(chunk[d].entries) <= Len(chunk'[d].entries)
      BY <2>5, <2>6
    <2> QED BY <2>1, <2>2, <2>3, <2>5, <2>7, <2>8, ValidPositionKept DEF d
  <1> QED BY <1>2, <1>6, <1>7

\* ClearLogsByUid(): a chunk moves from the log to new_logs, without its readers.
LEMMA ClearSpliceChunkPreserves ==
    ASSUME Parts, ClearSpliceChunk, delivered' = delivered
    PROVE  Parts'
  <1> DEFINE i == clear.log_id
             c == Head(logs[i])
             spliced == DecReaderRefCount(IncReaderRefCount(WithoutReaders(chunk[c])))
  <1>1. /\ Clearing /\ logs[i] # << >> /\ clear.entry = 0
        /\ state' = NotifyReadersOfPrune(i, chunk, {c})
        /\ chunk' = [chunk EXCEPT ![c] = spliced]
        /\ logs' = [logs EXCEPT ![i] = Tail(logs[i])]
        /\ clear' = [clear EXCEPT !.new_logs = Append(clear.new_logs, c)]
        /\ UNCHANGED <<logd_lock, max_size, stats, sequence, pending, late, commands, thread>>
    BY DEF ClearSpliceChunk, Clearing
  <1>2. /\ i \in LogIds
        /\ Tail(logs[i]) \in Seq(ChunkIds) /\ Distinct(Tail(logs[i]))
        /\ c \in Elements(logs[i]) /\ c \in DOMAIN chunk /\ c \in ChunkIds
        /\ Elements(Tail(logs[i])) = Elements(logs[i]) \ {c}
        /\ chunk[c] \in Chunk /\ IsFiniteSet(chunk[c].readers)
        /\ c \notin Elements(clear.new_logs)
        /\ \A j \in LogIds : j # i => c \notin Elements(logs[j])
    BY <1>1, HeadOfClear
  <1>3. spliced \in Chunk /\ IsFiniteSet(spliced.readers)
    <2>1. WithoutReaders(chunk[c]) \in Chunk /\ WithoutReaders(chunk[c]).readers = {}
      BY <1>2, WithoutReadersType
    <2>2. /\ IncReaderRefCount(WithoutReaders(chunk[c])) \in Chunk
          /\ IncReaderRefCount(WithoutReaders(chunk[c])).readers = {}
      BY <2>1, RefCountType
    <2>3. spliced \in Chunk /\ spliced.readers = {}
      BY <2>2, RefCountType
    <2> QED BY <2>3, FS_EmptySet
  <1> HIDE DEF i, c, spliced
  <1>4. DOMAIN chunk' = DOMAIN chunk /\ \A d \in (DOMAIN chunk) \ {c} : chunk'[d] = chunk[d]
    BY <1>1
  <1>5. IsHeap(chunk')
    BY <1>1, <1>2, <1>3, <1>4 DEF Parts, IsHeap
  <1>6. /\ logs' \in [LogIds -> Seq(ChunkIds)]
        /\ logs'[i] = Tail(logs[i])
        /\ \A j \in LogIds \ {i} : logs'[j] = logs[j]
    BY <1>1, <1>2 DEF Parts, LogsOK
  <1>7. \A j \in LogIds : \A d \in Elements(logs[j]) : d # c => d \in Elements(logs'[j])
    BY <1>2, <1>6
  <1>8. StatesOK' /\ DOMAIN state' = DOMAIN state /\ PositionsAreValid'
    BY <1>1, <1>4, <1>5, <1>7, NotifyReadersOfHead DEF i, c
  <1>9. /\ Append(clear.new_logs, c) \in Seq(ChunkIds)
        /\ Distinct(Append(clear.new_logs, c))
        /\ Elements(Append(clear.new_logs, c)) = Elements(clear.new_logs) \cup {c}
    BY <1>2, AppendElements DEF Parts, CommandsOK, ListsAreDisjoint
  <1>10. clear'.new_logs = Append(clear.new_logs, c) /\ clear'.entry = 0 /\ clear'.log_id = i
    BY <1>1 DEF Parts, CommandsOK, i
  <1>11. ListsAreDisjoint'
    <2>1. ASSUME NEW j \in LogIds
          PROVE  /\ Distinct(logs'[j])
                 /\ Elements(logs'[j]) \subseteq Elements(logs[j]) \ {c}
      BY <1>2, <1>6 DEF Parts, ListsAreDisjoint
    <2>2. Elements(clear'.new_logs) = Elements(clear.new_logs) \cup {c}
      BY <1>9, <1>10
    <2>3. \A j \in LogIds : Elements(logs[j]) \subseteq DOMAIN chunk'
                            /\ Elements(logs[j]) \cap Elements(clear.new_logs) = {}
      BY <1>4 DEF Parts, ListsAreDisjoint
    <2>4. \A j, k \in LogIds : j # k => Elements(logs[j]) \cap Elements(logs[k]) = {}
      BY DEF Parts, ListsAreDisjoint
    <2>5. Elements(clear'.new_logs) \subseteq DOMAIN chunk' /\ Distinct(clear'.new_logs)
      BY <1>2, <1>4, <1>9, <1>10 DEF Parts, ListsAreDisjoint
    <2>6. \A j \in LogIds : /\ Distinct(logs'[j])
                            /\ Elements(logs'[j]) \subseteq DOMAIN chunk'
                            /\ Elements(logs'[j]) \cap Elements(clear'.new_logs) = {}
      BY <2>1, <2>2, <2>3
    <2>7. \A j, k \in LogIds : j # k => Elements(logs'[j]) \cap Elements(logs'[k]) = {}
      BY <2>1, <2>4
    <2> QED BY <2>5, <2>6, <2>7 DEF ListsAreDisjoint
  <1>12. ClearIsConsistent'
    BY <1>1, <1>2, <1>10 DEF ClearIsConsistent, Clearing
  <1>13. CommandsOK'
    BY <1>1, <1>9 DEF Parts, CommandsOK
  <1>14. ThreadsHaveStates'
    BY <1>1, <1>8 DEF Parts, ThreadsHaveStates
  <1> QED BY <1>1, <1>5, <1>6, <1>8, <1>11, <1>12, <1>13, <1>14
          DEF Parts, ThreadsOK, LogsOK, HistoryOK, WritersOK, LockOK

\* ClearLogsByUid(): a chunk loses its readers before its entries are copied.
LEMMA ClearOpenChunkPreserves ==
    ASSUME Parts, ClearOpenChunk, delivered' = delivered
    PROVE  Parts'
  <1> DEFINE i == clear.log_id
             c == Head(logs[i])
             new == FreshChunk(chunk)
             held == IncReaderRefCount(WithoutReaders(chunk[c]))
             opened == [chunk EXCEPT ![c] = held]
             chunk0 == NewChunk(max_size[i] \div kChunkSizeDivisor)
  <1>1. /\ Clearing /\ logs[i] # << >> /\ clear.entry = 0
        /\ state' = NotifyReadersOfPrune(i, chunk, {c})
        /\ UNCHANGED <<logd_lock, logs, max_size, stats, sequence, pending, late, commands, thread>>
    BY DEF ClearOpenChunk, Clearing
  <1>2. \/ chunk' = opened /\ clear' = [clear EXCEPT !.entry = 1]
        \/ /\ CanAllocate(chunk)
           /\ chunk' = Allocate(opened, new, chunk0)
           /\ clear' = [clear EXCEPT !.contains_uid_logs = TRUE, !.entry = 1,
                                     !.new_logs = Append(clear.new_logs, new)]
    BY DEF ClearOpenChunk
  <1>3. /\ i \in LogIds /\ c \in Elements(logs[i]) /\ c \in DOMAIN chunk
        /\ chunk[c] \in Chunk /\ IsFiniteSet(chunk[c].readers)
    BY <1>1, HeadOfClear
  <1>4. held \in Chunk /\ held.readers = {}
    <2>1. WithoutReaders(chunk[c]) \in Chunk /\ WithoutReaders(chunk[c]).readers = {}
      BY <1>3, WithoutReadersType
    <2> QED BY <2>1, RefCountType
  <1>5. chunk0 \in Chunk /\ chunk0.readers = {}
    <2>1. max_size[i] \div kChunkSizeDivisor \in Nat
      BY <1>3, ChunkSize
    <2> QED BY <2>1, NewChunkType
  <1>6. IsFiniteSet({})
    BY FS_EmptySet
  <1>7. CanAllocate(chunk) => new \in ChunkIds /\ new \notin DOMAIN chunk
    BY FreshChunkIsFresh
  <1>8. /\ DOMAIN opened = DOMAIN chunk /\ opened[c] = held
        /\ \A d \in (DOMAIN chunk) \ {c} : opened[d] = chunk[d]
    BY <1>3
  <1>9. clear \in [log_id : Nat, uid : Nat, new_logs : Seq(ChunkIds),
                   contains_uid_logs : BOOLEAN, entry : Nat]
    BY DEF Parts, CommandsOK
  <1> HIDE DEF i, c, new, held, opened, chunk0
  <1>10. IsHeap(opened)
    BY <1>3, <1>4, <1>6, <1>8 DEF Parts, IsHeap
  <1> DEFINE Opened == /\ IsHeap(chunk')
                       /\ DOMAIN chunk \subseteq DOMAIN chunk'
                       /\ chunk'[c] = held
                       /\ \A d \in (DOMAIN chunk) \ {c} : chunk'[d] = chunk[d]
                       /\ clear'.log_id = i
                       /\ clear' \in [log_id : Nat, uid : Nat, new_logs : Seq(ChunkIds),
                                      contains_uid_logs : BOOLEAN, entry : Nat]
                       /\ Distinct(clear'.new_logs)
                       /\ Elements(clear'.new_logs) \subseteq DOMAIN chunk'
                       /\ Elements(clear'.new_logs) \subseteq
                             Elements(clear.new_logs) \cup ((DOMAIN chunk') \ DOMAIN chunk)
  <1>11. ASSUME chunk' = opened, clear' = [clear EXCEPT !.entry = 1]
         PROVE  Opened /\ clear'.entry = 1
    <2>1. /\ clear'.log_id = i /\ clear'.new_logs = clear.new_logs
          /\ clear' \in [log_id : Nat, uid : Nat, new_logs : Seq(ChunkIds),
                         contains_uid_logs : BOOLEAN, entry : Nat]
      BY <1>9, <1>11 DEF i
    <2>2. Distinct(clear.new_logs) /\ Elements(clear.new_logs) \subseteq DOMAIN chunk
      BY DEF Parts, ListsAreDisjoint
    <2>3. Opened
      BY <1>3, <1>8, <1>10, <1>11, <2>1, <2>2
    <2>4. clear'.entry = 1
      BY <1>9, <1>11
    <2> QED BY <2>3, <2>4
  <1>12. ASSUME CanAllocate(chunk),
                chunk' = Allocate(opened, new, chunk0),
                clear' = [clear EXCEPT !.contains_uid_logs = TRUE, !.entry = 1,
                                       !.new_logs = Append(clear.new_logs, new)]
         PROVE  Opened /\ clear'.entry = 1
    <2>1. new \in ChunkIds /\ new \notin DOMAIN chunk
      BY <1>7, <1>12
    <2>2. Distinct(clear.new_logs) /\ Elements(clear.new_logs) \subseteq DOMAIN chunk
      BY DEF Parts, ListsAreDisjoint
    <2>3. /\ Append(clear.new_logs, new) \in Seq(ChunkIds)
          /\ Elements(Append(clear.new_logs, new)) = Elements(clear.new_logs) \cup {new}
          /\ Distinct(Append(clear.new_logs, new))
      BY <1>9, <2>1, <2>2, AppendElements
    <2>4. /\ clear'.log_id = i /\ clear'.new_logs = Append(clear.new_logs, new)
          /\ clear' \in [log_id : Nat, uid : Nat, new_logs : Seq(ChunkIds),
                         contains_uid_logs : BOOLEAN, entry : Nat]
      BY <1>9, <1>12, <2>3 DEF i
    <2>5. /\ DOMAIN chunk' = (DOMAIN chunk) \cup {new}
          /\ chunk'[new] = chunk0
          /\ \A d \in DOMAIN chunk : chunk'[d] = opened[d]
      BY <1>8, <1>12, <2>1 DEF Allocate
    <2>6. IsHeap(chunk')
      BY <1>5, <1>6, <1>8, <1>10, <2>1, <2>5 DEF IsHeap
    <2>7. Opened
      BY <1>3, <1>8, <2>1, <2>2, <2>3, <2>4, <2>5, <2>6
    <2>8. clear'.entry = 1
      BY <1>9, <1>12
    <2> QED BY <2>7, <2>8
  <1>13. Opened
    <2> HIDE DEF Opened
    <2> QED BY <1>2, <1>11, <1>12
  <1>14. StatesOK' /\ DOMAIN state' = DOMAIN state /\ PositionsAreValid'
    <2>1. \A j \in LogIds : \A d \in Elements(logs[j]) : d # c => d \in Elements(logs'[j])
      BY <1>1
    <2> QED BY <1>1, <1>13, <2>1, NotifyReadersOfHead DEF i, c
  <1>15. ListsAreDisjoint'
    <2>1. \A j \in LogIds : /\ Distinct(logs[j]) /\ Elements(logs[j]) \subseteq DOMAIN chunk
                            /\ Elements(logs[j]) \cap Elements(clear.new_logs) = {}
      BY DEF Parts, ListsAreDisjoint
    <2>2. \A j, k \in LogIds : j # k => Elements(logs[j]) \cap Elements(logs[k]) = {}
      BY DEF Parts, ListsAreDisjoint
    <2>3. \A j \in LogIds : /\ Elements(logs[j]) \subseteq DOMAIN chunk'
                            /\ Elements(logs[j]) \cap Elements(clear'.new_logs) = {}
      BY <1>13, <2>1
    <2> QED BY <1>1, <1>13, <2>1, <2>2, <2>3 DEF ListsAreDisjoint
  <1>16. ClearIsConsistent'
    <2>1. Clearing' /\ clear'.log_id = i /\ i \in LogIds /\ logs' = logs
      BY <1>1, <1>3, <1>13 DEF Clearing
    <2>2. logs'[i] # << >> /\ chunk'[Head(logs'[i])].readers = {}
      BY <1>1, <1>4, <1>13 DEF c
    <2> QED BY <2>1, <2>2 DEF ClearIsConsistent
  <1>17. CommandsOK'
    BY <1>1, <1>13 DEF Parts, CommandsOK
  <1>18. ThreadsHaveStates'
    BY <1>1, <1>14 DEF Parts, ThreadsHaveStates
  <1> QED BY <1>1, <1>13, <1>14, <1>15, <1>16, <1>17, <1>18
          DEF Parts, ThreadsOK, LogsOK, HistoryOK, WritersOK, LockOK

\* ClearLogsByUid(): an entry is copied to the end of new_logs, or dropped.
LEMMA ClearEntryPreserves ==
    ASSUME Parts, ClearEntry, delivered' = delivered
    PROVE  Parts'
  <1> DEFINE i == clear.log_id
             c == Head(logs[i])
             entry == chunk[c].entries[clear.entry]
  <1>1. /\ Clearing /\ clear.entry # 0 /\ clear.entry <= Len(chunk[c].entries)
        /\ UNCHANGED <<logd_lock, logs, max_size, sequence, pending, late, commands, thread, state>>
    BY DEF ClearEntry, Clearing
  <1>2. \/ clear' = [clear EXCEPT !.entry = clear.entry + 1] /\ chunk' = chunk
        \/ /\ NeedsChunk(chunk, clear.new_logs, entry) => CanAllocate(chunk)
           /\ \E zsize \in ZSizes(chunk, clear.new_logs, entry) :
                 LET logged == LogToLogBuffer(chunk, clear.new_logs, max_size[i], entry, zsize)
                 IN  /\ chunk' = logged.heap
                     /\ clear' = [clear EXCEPT !.entry = clear.entry + 1,
                                               !.new_logs = logged.list]
    BY DEF ClearEntry
  <1>3. logs[i] # << >> /\ chunk[c].readers = {}
    BY <1>1 DEF Parts, ClearIsConsistent
  <1>4. /\ i \in LogIds /\ c \in Elements(logs[i]) /\ c \in DOMAIN chunk /\ chunk[c] \in Chunk
        /\ c \notin Elements(clear.new_logs)
    BY <1>1, <1>3, HeadOfClear
  <1>5. clear \in [log_id : Nat, uid : Nat, new_logs : Seq(ChunkIds),
                   contains_uid_logs : BOOLEAN, entry : Nat]
    BY DEF Parts, CommandsOK
  <1>6. entry \in Entry
    <2>1. chunk[c].entries \in Seq(Entry)
      BY <1>4 DEF Chunk
    <2>2. clear.entry \in 1 .. Len(chunk[c].entries)
      BY <1>1, <1>5, <2>1, LenProperties
    <2> QED BY <2>1, <2>2, ElementOfSeq
  <1>7. /\ IsHeap(chunk) /\ Distinct(clear.new_logs)
        /\ Elements(clear.new_logs) \subseteq DOMAIN chunk
    BY DEF Parts, ListsAreDisjoint
  <1> HIDE DEF i, c, entry
  <1> DEFINE logged == [heap |-> chunk', list |-> clear'.new_logs]
  <1>8. /\ clear'.log_id = i
        /\ clear' \in [log_id : Nat, uid : Nat, new_logs : Seq(ChunkIds),
                       contains_uid_logs : BOOLEAN, entry : Nat]
        /\ Extends(chunk, clear.new_logs, logged)
    <2>1. CASE clear' = [clear EXCEPT !.entry = clear.entry + 1] /\ chunk' = chunk
      <3>1. /\ clear'.log_id = i /\ clear'.new_logs = clear.new_logs
            /\ clear' \in [log_id : Nat, uid : Nat, new_logs : Seq(ChunkIds),
                           contains_uid_logs : BOOLEAN, entry : Nat]
        BY <1>5, <2>1 DEF i
      <3>2. \A d \in DOMAIN chunk : Len(chunk[d].entries) \in Nat
        BY LenProperties DEF Parts, IsHeap, Chunk
      <3> QED BY <1>5, <1>7, <2>1, <3>1, <3>2 DEF Extends
    <2>2. CASE /\ NeedsChunk(chunk, clear.new_logs, entry) => CanAllocate(chunk)
               /\ \E zsize \in ZSizes(chunk, clear.new_logs, entry) :
                     LET out == LogToLogBuffer(chunk, clear.new_logs, max_size[i], entry, zsize)
                     IN  /\ chunk' = out.heap
                         /\ clear' = [clear EXCEPT !.entry = clear.entry + 1,
                                                   !.new_logs = out.list]
      <3>0. PICK zsize \in ZSizes(chunk, clear.new_logs, entry) :
                LET out == LogToLogBuffer(chunk, clear.new_logs, max_size[i], entry, zsize)
                IN  /\ chunk' = out.heap
                    /\ clear' = [clear EXCEPT !.entry = clear.entry + 1,
                                              !.new_logs = out.list]
        BY <2>2
      <3> DEFINE out == LogToLogBuffer(chunk, clear.new_logs, max_size[i], entry, zsize)
      <3>1. zsize \in Nat
        BY ZSizesType
      <3>2. max_size[i] \in Nat /\ max_size[i] \div kChunkSizeDivisor \in Nat
        BY <1>4, ChunkSize
      <3>3. Extends(chunk, clear.new_logs, out)
        BY <1>5, <1>6, <1>7, <2>2, <3>1, <3>2, LogToLogBufferExtends
      <3> HIDE DEF out
      <3>4. chunk' = out.heap
            /\ clear' = [clear EXCEPT !.entry = clear.entry + 1, !.new_logs = out.list]
        BY <3>0 DEF out
      <3>5. out.list \in Seq(ChunkIds) /\ clear.entry + 1 \in Nat
        BY <1>5, <3>3 DEF Extends
      <3>6. /\ clear'.log_id = i /\ clear'.new_logs = out.list
            /\ clear' \in [log_id : Nat, uid : Nat, new_logs : Seq(ChunkIds),
                           contains_uid_logs : BOOLEAN, entry : Nat]
        BY <1>5, <3>4, <3>5 DEF i
      <3>7. Extends(chunk, clear.new_logs, logged)
        BY <3>3, <3>4, <3>6 DEF Extends
      <3> QED BY <3>6, <3>7
    <2> QED BY <1>2, <2>1, <2>2
  <1>9. /\ IsHeap(chunk') /\ DOMAIN chunk \subseteq DOMAIN chunk'
        /\ Distinct(clear'.new_logs)
        /\ Elements(clear'.new_logs) \subseteq
              Elements(clear.new_logs) \cup ((DOMAIN chunk') \ DOMAIN chunk)
        /\ \A d \in DOMAIN chunk : /\ chunk'[d].readers = chunk[d].readers
                                   /\ Len(chunk[d].entries) <= Len(chunk'[d].entries)
    BY <1>8 DEF Extends
  <1> HIDE DEF logged
  <1>10. PositionsAreValid'
    <2> SUFFICES ASSUME NEW s \in DOMAIN state, NEW j \in DOMAIN state[s].log_positions
                 PROVE  HasValidPosition(s, j, state[s], logs[j], chunk')
      BY <1>1, PositionsByStatePrimed
    <2>1. HasValidPosition(s, j, state[s], logs[j], chunk)
      BY PositionsByState DEF Parts
    <2>2. IsState(state[s])
      BY DEF Parts, StatesOK
    <2> DEFINE d == state[s].log_positions[j].buffer_it
    <2>3. d \in Elements(logs[j]) /\ d \in DOMAIN chunk /\ s \in chunk[d].readers
      BY <2>1 DEF HasValidPosition, IsValidPosition
    <2>4. /\ d \in Elements(logs[j]) \cap DOMAIN chunk' /\ s \in chunk'[d].readers
          /\ Len(chunk[d].entries) <= Len(chunk'[d].entries)
      BY <1>9, <2>3
    <2> QED BY <1>7, <1>9, <2>1, <2>2, <2>4, ValidPositionKept
  <1>11. ListsAreDisjoint'
    <2>1. \A j \in LogIds : /\ Distinct(logs[j]) /\ Elements(logs[j]) \subseteq DOMAIN chunk
                            /\ Elements(logs[j]) \cap Elements(clear.new_logs) = {}
      BY DEF Parts, ListsAreDisjoint
    <2>2. \A j, k \in LogIds : j # k => Elements(logs[j]) \cap Elements(logs[k]) = {}
      BY DEF Parts, ListsAreDisjoint
    <2>3. \A j \in LogIds : /\ Elements(logs[j]) \subseteq DOMAIN chunk'
                            /\ Elements(logs[j]) \cap Elements(clear'.new_logs) = {}
      BY <1>9, <2>1
    <2>4. Elements(clear'.new_logs) \subseteq DOMAIN chunk'
      BY <1>7, <1>9
    <2> QED BY <1>1, <1>9, <2>1, <2>2, <2>3, <2>4 DEF ListsAreDisjoint
  <1>12. ClearIsConsistent'
    <2>1. Clearing' /\ clear'.log_id = i /\ i \in LogIds /\ logs' = logs
      BY <1>1, <1>4, <1>8 DEF Clearing
    <2>2. logs'[i] # << >> /\ chunk'[Head(logs'[i])].readers = {}
      BY <1>1, <1>3, <1>4, <1>9 DEF c
    <2> QED BY <2>1, <2>2 DEF ClearIsConsistent
  <1>13. CommandsOK'
    BY <1>1, <1>8 DEF Parts, CommandsOK
  <1> QED BY <1>1, <1>9, <1>10, <1>11, <1>12, <1>13
          DEF Parts, StatesOK, ThreadsOK, ThreadsHaveStates, LogsOK, HistoryOK, WritersOK, LockOK

\* ClearLogsByUid(): the chunk erased is the one that has no readers.
LEMMA ClearEraseChunkPreserves ==
    ASSUME Parts, ClearEraseChunk, delivered' = delivered
    PROVE  Parts'
  <1> DEFINE i == clear.log_id
             c == Head(logs[i])
  <1>1. /\ Clearing /\ clear.entry # 0
        /\ chunk' = Free(chunk, {c})
        /\ logs' = [logs EXCEPT ![i] = Tail(logs[i])]
        /\ clear' = [clear EXCEPT !.entry = 0]
        /\ UNCHANGED <<logd_lock, max_size, stats, sequence, pending, late, commands, thread, state>>
    BY DEF ClearEraseChunk, Clearing
  <1>2. logs[i] # << >> /\ chunk[c].readers = {}
    BY <1>1 DEF Parts, ClearIsConsistent
  <1>3. /\ i \in LogIds
        /\ Tail(logs[i]) \in Seq(ChunkIds) /\ Distinct(Tail(logs[i]))
        /\ c \in DOMAIN chunk
        /\ Elements(Tail(logs[i])) = Elements(logs[i]) \ {c}
        /\ c \notin Elements(clear.new_logs)
        /\ \A j \in LogIds : j # i => c \notin Elements(logs[j])
    BY <1>1, <1>2, HeadOfClear
  <1> HIDE DEF i, c
  <1>4. DOMAIN chunk' = (DOMAIN chunk) \ {c} /\ \A d \in DOMAIN chunk' : chunk'[d] = chunk[d]
    BY <1>1 DEF Free
  <1>5. IsHeap(chunk')
    BY <1>4 DEF Parts, IsHeap
  <1>6. /\ logs' \in [LogIds -> Seq(ChunkIds)]
        /\ logs'[i] = Tail(logs[i])
        /\ \A j \in LogIds \ {i} : logs'[j] = logs[j]
    BY <1>1, <1>3 DEF Parts, LogsOK
  <1>7. /\ clear'.new_logs = clear.new_logs /\ clear'.entry = 0 /\ clear'.log_id = i
        /\ clear' \in [log_id : Nat, uid : Nat, new_logs : Seq(ChunkIds),
                       contains_uid_logs : BOOLEAN, entry : Nat]
    BY <1>1 DEF Parts, CommandsOK, i
  <1>8. \A j \in LogIds : /\ Distinct(logs'[j])
                          /\ Elements(logs'[j]) = Elements(logs[j]) \ {c}
    BY <1>3, <1>6 DEF Parts, ListsAreDisjoint
  <1>9. PositionsAreValid'
    <2> SUFFICES ASSUME NEW s \in DOMAIN state, NEW j \in DOMAIN state[s].log_positions
                 PROVE  HasValidPosition(s, j, state[s], logs'[j], chunk')
      BY <1>1, PositionsByStatePrimed
    <2>1. HasValidPosition(s, j, state[s], logs[j], chunk)
      BY PositionsByState DEF Parts
    <2>2. IsState(state[s]) /\ j \in LogIds
      BY DEF Parts, StatesOK, IsState
    <2> DEFINE d == state[s].log_positions[j].buffer_it
    <2>3. d \in Elements(logs[j]) /\ d \in DOMAIN chunk /\ s \in chunk[d].readers
      BY <2>1 DEF HasValidPosition, IsValidPosition
    <2>4. d # c
      BY <1>2, <2>3
    <2>5. d \in Elements(logs'[j]) /\ d \in DOMAIN chunk' /\ chunk'[d] = chunk[d]
      BY <1>4, <1>8, <2>2, <2>3, <2>4
    <2>6. Len(chunk[d].entries) \in Nat /\ IsHeap(chunk)
      BY <2>3, LenProperties DEF Parts, IsHeap, Chunk
    <2>7. Len(chunk[d].entries) <= Len(chunk'[d].entries)
      BY <2>5, <2>6
    <2> QED BY <1>5, <2>1, <2>2, <2>3, <2>5, <2>6, <2>7, ValidPositionKept
  <1>10. ListsAreDisjoint'
    <2>1. \A j \in LogIds : /\ Elements(logs[j]) \subseteq DOMAIN chunk
                            /\ Elements(logs[j]) \cap Elements(clear.new_logs) = {}
      BY DEF Parts, ListsAreDisjoint
    <2>2. \A j, k \in LogIds : j # k => Elements(logs[j]) \cap Elements(logs[k]) = {}
      BY DEF Parts, ListsAreDisjoint
    <2>3. Distinct(clear.new_logs) /\ Elements(clear.new_logs) \subseteq DOMAIN chunk'
      BY <1>3, <1>4 DEF Parts, ListsAreDisjoint
    <2>4. \A j \in LogIds : /\ Elements(logs'[j]) \subseteq DOMAIN chunk'
                            /\ Elements(logs'[j]) \cap Elements(clear.new_logs) = {}
      BY <1>4, <1>8, <2>1
    <2>5. \A j, k \in LogIds : j # k => Elements(logs'[j]) \cap Elements(logs'[k]) = {}
      BY <1>8, <2>2
    <2> QED BY <1>7, <1>8, <2>3, <2>4, <2>5 DEF ListsAreDisjoint
  <1>11. ClearIsConsistent'
    BY <1>1, <1>3, <1>7 DEF ClearIsConsistent, Clearing
  <1>12. CommandsOK'
    BY <1>1, <1>7 DEF Parts, CommandsOK
  <1> QED BY <1>1, <1>5, <1>6, <1>9, <1>10, <1>11, <1>12
          DEF Parts, StatesOK, ThreadsOK, ThreadsHaveStates, LogsOK, HistoryOK, WritersOK, LockOK

\* ClearLogsByUid(): new_logs becomes the log, in which nobody has a position.
LEMMA ClearSwapPreserves ==
    ASSUME Parts, ClearSwap, delivered' = delivered
    PROVE  Parts'
  <1> DEFINE i == clear.log_id
  <1>1. /\ Clearing /\ logs[i] = << >>
        /\ logs' = [logs EXCEPT ![i] = clear.new_logs]
        /\ clear' = NoClear /\ logd_lock' = {}
        /\ UNCHANGED <<chunk, max_size, stats, sequence, pending, late, commands, thread, state>>
    BY DEF ClearSwap, Clearing
  <1>2. i \in LogIds /\ clear.new_logs \in Seq(ChunkIds)
    BY <1>1 DEF Parts, ClearIsConsistent, CommandsOK
  <1> HIDE DEF i
  <1>3. << >> \in Seq(ChunkIds) /\ Elements(<< >>) = {} /\ Distinct(<< >>)
    BY EmptySeq DEF Elements, Distinct
  <1>4. /\ logs' \in [LogIds -> Seq(ChunkIds)]
        /\ logs'[i] = clear.new_logs
        /\ \A j \in LogIds \ {i} : logs'[j] = logs[j]
    BY <1>1, <1>2 DEF Parts, LogsOK
  <1>5. /\ clear'.new_logs = << >> /\ clear'.entry = 0
        /\ clear' \in [log_id : Nat, uid : Nat, new_logs : Seq(ChunkIds),
                       contains_uid_logs : BOOLEAN, entry : Nat]
    BY <1>1, <1>3 DEF NoClear
  <1>6. ListsAreDisjoint'
    <2>1. /\ Distinct(clear.new_logs) /\ Elements(clear.new_logs) \subseteq DOMAIN chunk
          /\ \A j \in LogIds : /\ Distinct(logs[j]) /\ Elements(logs[j]) \subseteq DOMAIN chunk
                               /\ Elements(logs[j]) \cap Elements(clear.new_logs) = {}
          /\ \A j, k \in LogIds : j # k => Elements(logs[j]) \cap Elements(logs[k]) = {}
      BY DEF Parts, ListsAreDisjoint
    <2>2. \A j \in LogIds : /\ Distinct(logs'[j])
                            /\ Elements(logs'[j]) \subseteq DOMAIN chunk
      BY <1>4, <2>1
    <2>3. ASSUME NEW j \in LogIds, NEW k \in LogIds, j # k
          PROVE  Elements(logs'[j]) \cap Elements(logs'[k]) = {}
      <3>1. CASE j = i
        BY <1>4, <2>1, <2>3, <3>1
      <3>2. CASE k = i
        BY <1>4, <2>1, <2>3, <3>2
      <3>3. CASE j # i /\ k # i
        BY <1>4, <2>1, <2>3, <3>3
      <3> QED BY <3>1, <3>2, <3>3
    <2> QED BY <1>1, <1>3, <1>5, <2>2, <2>3 DEF ListsAreDisjoint
  <1>7. PositionsAreValid'
    <2> SUFFICES ASSUME NEW s \in DOMAIN state, NEW j \in DOMAIN state[s].log_positions
                 PROVE  HasValidPosition(s, j, state[s], logs'[j], chunk)
      BY <1>1, PositionsByStatePrimed
    <2>1. HasValidPosition(s, j, state[s], logs[j], chunk)
      BY PositionsByState DEF Parts
    <2>2. j \in LogIds
      BY DEF Parts, StatesOK, IsState
    <2>3. j # i
      BY <1>1, <1>3, <2>1 DEF HasValidPosition, IsValidPosition, i
    <2> QED BY <1>4, <2>1, <2>2, <2>3
  <1>8. ClearIsConsistent'
    BY <1>1, <1>5 DEF ClearIsConsistent, Clearing
  <1>9. CommandsOK'
    BY <1>1, <1>5 DEF Parts, CommandsOK
  <1>10. LockOK'
    BY <1>1 DEF LockOK
  <1> QED BY <1>1, <1>4, <1>6, <1>7, <1>8, <1>9, <1>10
          DEF Parts, StatesOK, ThreadsOK, ThreadsHaveStates, LogsOK, HistoryOK, WritersOK

-----------------------------------------------------------------------------
(***************************************************************************)
(* What the steps of a reader have in common                                *)
(***************************************************************************)

\* A reader leaves the lists and the commands alone.
LEMMA ReaderFrame ==
    ASSUME Parts, UNCHANGED <<logs, max_size, sequence, pending, clear, late, commands>>,
           IsHeap(chunk'), DOMAIN chunk' = DOMAIN chunk,
           StatesOK', PositionsAreValid', ThreadsOK', ThreadsHaveStates',
           delivered' \in [Readers -> Seq(Nat)],
           \/ /\ ~Clearing
              /\ logd_lock' = {} \/ \E r \in Readers : logd_lock' = {r}
           \/ chunk' = chunk /\ logd_lock' = logd_lock
    PROVE  Parts'
  <1>1. ClearIsConsistent' /\ LockOK'
    <2>1. CASE /\ ~Clearing
               /\ logd_lock' = {} \/ \E r \in Readers : logd_lock' = {r}
      <3>1. ~Clearing'
        BY <2>1, ReaderAssumption DEF Clearing
      <3>2. LockOK'
        BY <2>1 DEF LockOK
      <3> QED BY <2>1, <3>1, <3>2 DEF Parts, ClearIsConsistent
    <2>2. CASE chunk' = chunk /\ logd_lock' = logd_lock
      BY <2>2 DEF Parts, ClearIsConsistent, Clearing, LockOK
    <2> QED BY <2>1, <2>2
  <1>2. ListsAreDisjoint'
    BY DEF Parts, ListsAreDisjoint
  <1>3. LogsOK' /\ CommandsOK' /\ WritersOK' /\ HistoryOK'
    BY DEF Parts, LogsOK, CommandsOK, WritersOK, HistoryOK
  <1> QED BY <1>1, <1>2, <1>3 DEF Parts

\* One thread changes, and only its own FlushToStates come and go.
LEMMA OneThread ==
    ASSUME Parts, NEW r \in Readers, NEW t \in Thread, thread' = [thread EXCEPT ![r] = t],
           \A q \in Readers \ {r} : /\ Main(q) \in DOMAIN state => Main(q) \in DOMAIN state'
                                    /\ Temp(q) \in DOMAIN state => Temp(q) \in DOMAIN state',
           NeedsMain(t) => Main(r) \in DOMAIN state',
           NeedsTemp(t) => Temp(r) \in DOMAIN state',
           t.pc = "write" => t.pass = "second"
    PROVE  ThreadsOK' /\ ThreadsHaveStates'
  <1>1. thread \in [Readers -> Thread] /\ ThreadsHaveStates
    BY DEF Parts, ThreadsOK
  <1>2. thread' \in [Readers -> Thread] /\ thread'[r] = t
        /\ \A q \in Readers \ {r} : thread'[q] = thread[q]
    BY <1>1
  <1>3. ThreadsOK'
    BY <1>2 DEF ThreadsOK
  <1>4. ASSUME NEW q \in Readers
        PROVE  /\ NeedsMain(thread'[q]) => Main(q) \in DOMAIN state'
               /\ NeedsTemp(thread'[q]) => Temp(q) \in DOMAIN state'
               /\ thread'[q].pc = "write" => thread'[q].pass = "second"
    <2>1. CASE q = r
      BY <1>2, <2>1
    <2>2. CASE q # r
      BY <1>1, <1>2, <2>2 DEF ThreadsHaveStates
    <2> QED BY <2>1, <2>2
  <1>5. ThreadsHaveStates'
    BY <1>4 DEF ThreadsHaveStates, NeedsMain, NeedsTemp, Main, Temp
  <1> QED BY <1>3, <1>5

\* The states of two threads are different objects.
LEMMA StatesDiffer ==
    ASSUME NEW r, NEW q, q # r
    PROVE  /\ Main(q) # Main(r) /\ Main(q) # Temp(r)
           /\ Temp(q) # Main(r) /\ Temp(q) # Temp(r)
  BY DEF Main, Temp

\* The two states of a thread are different objects.
LEMMA MainIsNotTemp == \A r : Main(r) # Temp(r)
  BY DEF Main, Temp

\* Both are States.
LEMMA StatesType == ASSUME NEW r \in Readers PROVE Main(r) \in States /\ Temp(r) \in States
  BY DEF Main, Temp, States

\* A step that leaves the states and the heap as they are leaves the positions valid.
LEMMA SameStates ==
    ASSUME Parts, UNCHANGED <<chunk, logs, state>>
    PROVE  /\ IsHeap(chunk') /\ DOMAIN chunk' = DOMAIN chunk
           /\ StatesOK' /\ PositionsAreValid' /\ DOMAIN state' = DOMAIN state
  BY DEF Parts, StatesOK, PositionsAreValid

\* A new FlushToState comes into being.
LEMMA NewState ==
    ASSUME Parts, UNCHANGED <<chunk, logs>>, NEW s \in States,
           NEW start \in Nat, NEW log_mask \in SUBSET LogIds,
           state' = WithState(s, NewFlushToState(start, log_mask))
    PROVE  /\ IsHeap(chunk') /\ DOMAIN chunk' = DOMAIN chunk
           /\ StatesOK' /\ PositionsAreValid' /\ DOMAIN state' = (DOMAIN state) \cup {s}
  <1> DEFINE new == NewFlushToState(start, log_mask)
  <1>1. IsState(new) /\ DOMAIN new.log_positions = {}
    BY NewFlushToStateType
  <1> HIDE DEF new
  <1>2. /\ DOMAIN state' = (DOMAIN state) \cup {s} /\ state'[s] = new
        /\ \A q \in (DOMAIN state) \ {s} : state'[q] = state[q]
    BY DEF WithState, new
  <1>3. StatesOK'
    BY <1>1, <1>2 DEF Parts, StatesOK
  <1>4. PositionsAreValid'
    <2> SUFFICES ASSUME NEW q \in DOMAIN state', NEW j \in DOMAIN state'[q].log_positions
                 PROVE  HasValidPosition(q, j, state'[q], logs[j], chunk)
      BY PositionsByStatePrimed
    <2>1. q # s /\ q \in DOMAIN state /\ state'[q] = state[q]
      BY <1>1, <1>2
    <2> QED BY <2>1, PositionsByState DEF Parts
  <1> QED BY <1>2, <1>3, <1>4 DEF Parts

\* A FlushToState is destroyed, and detaches from its chunks.
LEMMA DestroyState ==
    ASSUME Parts, logs' = logs, NEW s \in DOMAIN state,
           chunk' = DetachAll(s), state' = WithoutState(s)
    PROVE  /\ IsHeap(chunk') /\ DOMAIN chunk' = DOMAIN chunk
           /\ StatesOK' /\ PositionsAreValid' /\ DOMAIN state' = (DOMAIN state) \ {s}
  <1>1. DOMAIN chunk' = DOMAIN chunk
    BY DEF DetachAll
  <1>2. ASSUME NEW c \in DOMAIN chunk
        PROVE  /\ chunk'[c] \in Chunk /\ IsFiniteSet(chunk'[c].readers)
               /\ chunk'[c].entries = chunk[c].entries
               /\ \A q \in chunk[c].readers : q # s => q \in chunk'[c].readers
    <2>1. chunk[c] \in Chunk /\ IsFiniteSet(chunk[c].readers)
      BY DEF Parts, IsHeap
    <2>2. chunk'[c] = chunk[c] \/ chunk'[c] = DetachReader(chunk[c], s)
      BY DEF DetachAll
    <2>3. /\ DetachReader(chunk[c], s) \in Chunk
          /\ DetachReader(chunk[c], s).readers = chunk[c].readers \ {s}
          /\ DetachReader(chunk[c], s).entries = chunk[c].entries
          /\ IsFiniteSet(DetachReader(chunk[c], s).readers)
      BY <2>1, DetachReaderType
    <2> QED BY <2>1, <2>2, <2>3
  <1>3. IsHeap(chunk')
    BY <1>1, <1>2 DEF Parts, IsHeap
  <1>4. DOMAIN state' = (DOMAIN state) \ {s} /\ \A q \in DOMAIN state' : state'[q] = state[q]
    BY DEF WithoutState
  <1>5. StatesOK'
    BY <1>4 DEF Parts, StatesOK
  <1>6. PositionsAreValid'
    <2> SUFFICES ASSUME NEW q \in DOMAIN state', NEW j \in DOMAIN state'[q].log_positions
                 PROVE  HasValidPosition(q, j, state'[q], logs[j], chunk')
      BY PositionsByStatePrimed
    <2>1. q # s /\ q \in DOMAIN state /\ state'[q] = state[q]
      BY <1>4
    <2>2. HasValidPosition(q, j, state[q], logs[j], chunk) /\ IsState(state[q])
      BY <2>1, PositionsByState DEF Parts, StatesOK
    <2> DEFINE d == state[q].log_positions[j].buffer_it
    <2>3. d \in Elements(logs[j]) /\ d \in DOMAIN chunk /\ q \in chunk[d].readers
      BY <2>2 DEF HasValidPosition, IsValidPosition
    <2>4. IsHeap(chunk) /\ Len(chunk[d].entries) \in Nat
      BY <2>3, LenProperties DEF Parts, IsHeap, Chunk
    <2>5. /\ d \in Elements(logs[j]) \cap DOMAIN chunk' /\ q \in chunk'[d].readers
          /\ Len(chunk[d].entries) <= Len(chunk'[d].entries)
      BY <1>1, <1>2, <2>1, <2>3, <2>4
    <2> QED BY <1>3, <2>1, <2>2, <2>4, <2>5, ValidPositionKept
  <1> QED BY <1>1, <1>3, <1>4, <1>5, <1>6

(***************************************************************************)
(* The position of state s in log i is set: s becomes new.                  *)
(***************************************************************************)
MovesPosition(s, i, new) ==
    /\ IsState(new)
    /\ DOMAIN new.log_positions = (DOMAIN state[s].log_positions) \cup {i}
    /\ \A j \in (DOMAIN state[s].log_positions) \ {i} :
          /\ new.log_positions[j] = state[s].log_positions[j]
          /\ j \notin new.logs_needed => j \notin state[s].logs_needed
    /\ state' = [state EXCEPT ![s] = new]
    /\ logs' = logs
    /\ IsHeap(chunk') /\ DOMAIN chunk' = DOMAIN chunk
    /\ \A d \in DOMAIN chunk :
          /\ chunk'[d].entries = chunk[d].entries
          /\ \A q \in chunk[d].readers :
                q # s \/ d \notin Elements(logs[i]) => q \in chunk'[d].readers
    /\ HasValidPosition(s, i, new, logs[i], chunk')

\* Setting one position to a valid one leaves all of them valid.
LEMMA MovesPositionPreserves ==
    ASSUME Parts, NEW s \in DOMAIN state, NEW i \in LogIds, NEW new, MovesPosition(s, i, new)
    PROVE  /\ IsHeap(chunk') /\ DOMAIN chunk' = DOMAIN chunk
           /\ StatesOK' /\ PositionsAreValid' /\ DOMAIN state' = DOMAIN state
  <1>1. /\ DOMAIN state' = DOMAIN state /\ state'[s] = new
        /\ \A q \in (DOMAIN state) \ {s} : state'[q] = state[q]
    BY DEF MovesPosition
  <1>2. StatesOK'
    BY <1>1 DEF Parts, StatesOK, MovesPosition
  <1>3. ASSUME NEW q \in DOMAIN state, NEW j \in DOMAIN state[q].log_positions,
               q # s \/ j # i,
               j \in DOMAIN state'[q].log_positions,
               state'[q].log_positions[j] = state[q].log_positions[j],
               j \notin state'[q].logs_needed => j \notin state[q].logs_needed
        PROVE  HasValidPosition(q, j, state'[q], logs[j], chunk')
    <2>1. HasValidPosition(q, j, state[q], logs[j], chunk) /\ IsState(state[q]) /\ j \in LogIds
      BY PositionsByState DEF Parts, StatesOK, IsState
    <2>2. IsState(state'[q])
      BY <1>1, <1>2 DEF StatesOK
    <2> DEFINE d == state[q].log_positions[j].buffer_it
    <2>3. d \in Elements(logs[j]) /\ d \in DOMAIN chunk /\ q \in chunk[d].readers
      BY <2>1 DEF HasValidPosition, IsValidPosition
    <2>4. IsHeap(chunk) /\ IsHeap(chunk') /\ Len(chunk[d].entries) \in Nat
      BY <2>3, LenProperties DEF Parts, IsHeap, Chunk, MovesPosition
    <2>5. q # s \/ d \notin Elements(logs[i])
      BY <1>3, <2>1, <2>3 DEF Parts, ListsAreDisjoint
    <2>6. /\ d \in Elements(logs[j]) \cap DOMAIN chunk' /\ q \in chunk'[d].readers
          /\ Len(chunk[d].entries) <= Len(chunk'[d].entries)
      BY <2>3, <2>4, <2>5 DEF MovesPosition
    <2> QED BY <1>3, <2>1, <2>2, <2>4, <2>6, ValidPositionKept
  <1>4. PositionsAreValid'
    <2> SUFFICES ASSUME NEW q \in DOMAIN state', NEW j \in DOMAIN state'[q].log_positions
                 PROVE  HasValidPosition(q, j, state'[q], logs[j], chunk')
      BY PositionsByStatePrimed DEF MovesPosition
    <2>1. CASE q # s
      BY <1>1, <1>3, <2>1
    <2>2. CASE q = s /\ j # i
      BY <1>1, <1>3, <2>2 DEF MovesPosition
    <2>3. CASE q = s /\ j = i
      BY <1>1, <2>3 DEF MovesPosition
    <2> QED BY <2>1, <2>2, <2>3
  <1> QED BY <1>1, <1>2, <1>4 DEF MovesPosition

-----------------------------------------------------------------------------
(***************************************************************************)
(* CheckForNewLogs()                                                        *)
(***************************************************************************)

\* heap is the heap, where s may have been attached to a chunk of log i already.
AttachedIn(heap) ==
    /\ IsHeap(heap) /\ DOMAIN heap = DOMAIN chunk
    /\ \A d \in DOMAIN chunk : /\ heap[d].entries = chunk[d].entries
                               /\ chunk[d].readers \subseteq heap[d].readers

\* UpdateLogsNeeded() stays in the chunk or moves on to the next one of the log.
LEMMA UpdateLogsNeededPreserves ==
    ASSUME Parts, logs' = logs, NEW s \in DOMAIN state, NEW i \in LogIds,
           NEW heap, AttachedIn(heap),
           NEW pos \in Position, IsValidPosition(s, pos, logs[i], heap),
           UpdateLogsNeeded(s, i, pos, heap)
    PROVE  /\ IsHeap(chunk') /\ DOMAIN chunk' = DOMAIN chunk
           /\ StatesOK' /\ PositionsAreValid' /\ DOMAIN state' = DOMAIN state
  <1> DEFINE st == SetPosition(state[s], i, pos)
             list == logs[i]
  <1>1. IsState(state[s]) /\ s \in States /\ i \in LogIds
    BY DEF Parts, StatesOK
  <1>2. /\ IsState(st)
        /\ DOMAIN st.log_positions = (DOMAIN state[s].log_positions) \cup {i}
        /\ st.log_positions[i] = pos
        /\ \A j \in (DOMAIN state[s].log_positions) \ {i} :
              st.log_positions[j] = state[s].log_positions[j]
        /\ st.logs_needed = state[s].logs_needed
    BY <1>1, SetPositionType
  <1>3. st.logs_needed \subseteq LogIds
    BY <1>2 DEF IsState, FlushToState
  <1>4. /\ list \in Seq(ChunkIds) /\ Len(list) \in Nat /\ Distinct(list)
        /\ Elements(list) \subseteq DOMAIN chunk
    BY LenProperties DEF Parts, LogsOK, ListsAreDisjoint
  <1>5. /\ pos.buffer_it \in Elements(list) /\ pos.buffer_it \in DOMAIN chunk
        /\ s \in heap[pos.buffer_it].readers
        /\ pos.read_offset \in Nat /\ Len(heap[pos.buffer_it].entries) \in Nat
        /\ pos.read_offset <= Len(heap[pos.buffer_it].entries)
    BY LenProperties DEF IsValidPosition, AttachedIn, IsHeap, Chunk, Position
  <1> DEFINE Moved == \E new : MovesPosition(s, i, new)
  <1>6. ASSUME MoreInChunk(pos, heap), chunk' = heap,
               state' = [state EXCEPT ![s] = [st EXCEPT !.logs_needed = st.logs_needed \ {i}]]
        PROVE  Moved
    <2> DEFINE needed == st.logs_needed \ {i}
               new == [st EXCEPT !.logs_needed = needed]
    <2>1. needed \in SUBSET LogIds
      BY <1>3
    <2> HIDE DEF needed, st
    <2>2. IsState(new) /\ new.log_positions = st.log_positions /\ new.logs_needed = needed
      BY <1>2, <2>1, LogsNeededType
    <2>3. state' = [state EXCEPT ![s] = new]
      BY <1>6 DEF needed
    <2> HIDE DEF new
    <2>4. pos.read_offset < Len(heap[pos.buffer_it].entries)
      BY <1>6 DEF MoreInChunk
    <2>5. HasValidPosition(s, i, new, logs[i], heap)
      BY <1>2, <2>2, <2>4 DEF HasValidPosition
    <2>6. MovesPosition(s, i, new)
      BY <1>2, <1>6, <2>2, <2>3, <2>5 DEF MovesPosition, AttachedIn, needed
    <2> QED BY <2>6
  <1>7. ASSUME chunk' = heap,
               state' = [state EXCEPT ![s] = [st EXCEPT !.logs_needed = st.logs_needed \cup {i}]]
        PROVE  Moved
    <2> DEFINE needed == st.logs_needed \cup {i}
               new == [st EXCEPT !.logs_needed = needed]
    <2>1. needed \in SUBSET LogIds
      BY <1>3
    <2> HIDE DEF needed, st
    <2>2. IsState(new) /\ new.log_positions = st.log_positions /\ new.logs_needed = needed
      BY <1>2, <2>1, LogsNeededType
    <2>3. state' = [state EXCEPT ![s] = new]
      BY <1>7 DEF needed
    <2> HIDE DEF new
    <2>4. HasValidPosition(s, i, new, logs[i], heap)
      BY <1>2, <2>2 DEF HasValidPosition, needed
    <2>5. MovesPosition(s, i, new)
      BY <1>2, <1>7, <2>2, <2>3, <2>4 DEF MovesPosition, AttachedIn, needed
    <2> QED BY <2>5
  <1>8. ASSUME NEW k \in 1 .. Len(list) - 1,
               LET next == [buffer_it |-> list[k + 1], read_offset |-> 0]
               IN  /\ chunk' = [heap EXCEPT ![list[k]] = DetachReader(@, s),
                                            ![list[k + 1]] = AttachReader(@, s)]
                   /\ state' = [state EXCEPT ![s] =
                         [SetPosition(st, i, next) EXCEPT
                             !.logs_needed = IF MoreInChunk(next, heap) THEN @ \ {i}
                                                                        ELSE @ \cup {i}]]
        PROVE  Moved
    <2> DEFINE a == list[k]
               b == list[k + 1]
               next == [buffer_it |-> b, read_offset |-> 0]
               st2 == SetPosition(st, i, next)
               needed == IF MoreInChunk(next, heap) THEN st2.logs_needed \ {i}
                                                    ELSE st2.logs_needed \cup {i}
               new == [st2 EXCEPT !.logs_needed = needed]
    <2>1. /\ a \in Elements(list) /\ b \in Elements(list) /\ a # b
          /\ a \in DOMAIN chunk /\ b \in DOMAIN chunk /\ b \in ChunkIds
      <3>1. k \in 1 .. Len(list) /\ k + 1 \in 1 .. Len(list) /\ k # k + 1
        BY <1>4
      <3>2. a \in Elements(list) /\ b \in Elements(list) /\ a # b
        BY <3>1, <1>4 DEF Elements, Distinct
      <3> QED BY <1>4, <3>1, <3>2, ElementOfSeq
    <2>2. chunk' = [heap EXCEPT ![a] = DetachReader(heap[a], s), ![b] = AttachReader(heap[b], s)]
      BY <1>8, <2>1
    <2>3. state' = [state EXCEPT ![s] = new]
      BY <1>8
    <2>4. next \in Position /\ next.buffer_it = b /\ next.read_offset = 0
      BY <2>1 DEF Position
    <2> HIDE DEF a, b, next, st
    <2>5. /\ IsState(st2)
          /\ DOMAIN st2.log_positions = (DOMAIN st.log_positions) \cup {i}
          /\ st2.log_positions[i] = next
          /\ \A j \in (DOMAIN st.log_positions) \ {i} :
                st2.log_positions[j] = st.log_positions[j]
          /\ st2.logs_needed = st.logs_needed
      BY <1>2, <2>4, SetPositionType
    <2> HIDE DEF st2
    <2>6. /\ needed \in SUBSET LogIds
          /\ \A j \in LogIds \ {i} : j \in needed <=> j \in st.logs_needed
          /\ i \notin needed => MoreInChunk(next, heap)
      BY <1>3, <2>5
    <2> HIDE DEF needed
    <2>7. IsState(new) /\ new.log_positions = st2.log_positions /\ new.logs_needed = needed
      BY <2>5, <2>6, LogsNeededType
    <2> HIDE DEF new
    <2>8. heap[a] \in Chunk /\ IsFiniteSet(heap[a].readers) /\ heap[b] \in Chunk
          /\ IsFiniteSet(heap[b].readers)
      BY <2>1 DEF AttachedIn, IsHeap
    <2>9. /\ DetachReader(heap[a], s) \in Chunk
          /\ DetachReader(heap[a], s).readers = heap[a].readers \ {s}
          /\ DetachReader(heap[a], s).entries = heap[a].entries
          /\ IsFiniteSet(DetachReader(heap[a], s).readers)
      BY <2>8, DetachReaderType
    <2>10. /\ AttachReader(heap[b], s) \in Chunk
           /\ AttachReader(heap[b], s).readers = heap[b].readers \cup {s}
           /\ AttachReader(heap[b], s).entries = heap[b].entries
           /\ IsFiniteSet(AttachReader(heap[b], s).readers)
      BY <1>1, <2>8, AttachReaderType
    <2>11. /\ DOMAIN chunk' = DOMAIN chunk
           /\ chunk'[a] = DetachReader(heap[a], s)
           /\ chunk'[b] = AttachReader(heap[b], s)
           /\ \A d \in (DOMAIN chunk) \ {a, b} : chunk'[d] = heap[d]
      BY <2>1, <2>2 DEF AttachedIn
    <2>12. IsHeap(chunk')
      <3>1. \A d \in DOMAIN chunk : heap[d] \in Chunk /\ IsFiniteSet(heap[d].readers)
        BY DEF AttachedIn, IsHeap
      <3>2. \A d \in DOMAIN chunk : chunk'[d] \in Chunk /\ IsFiniteSet(chunk'[d].readers)
        BY <2>9, <2>10, <2>11, <3>1
      <3> QED BY <2>11, <3>2 DEF Parts, IsHeap
    <2>13. ASSUME NEW d \in DOMAIN chunk
           PROVE  /\ chunk'[d].entries = chunk[d].entries
                  /\ \A q \in chunk[d].readers :
                        q # s \/ d \notin Elements(logs[i]) => q \in chunk'[d].readers
      <3>1. heap[d].entries = chunk[d].entries /\ chunk[d].readers \subseteq heap[d].readers
        BY DEF AttachedIn
      <3>2. CASE d = a
        BY <2>1, <2>9, <2>11, <3>1, <3>2
      <3>3. CASE d = b
        BY <2>10, <2>11, <3>1, <3>3
      <3>4. CASE d # a /\ d # b
        BY <2>11, <3>1, <3>4
      <3> QED BY <3>2, <3>3, <3>4
    <2>14. HasValidPosition(s, i, new, logs[i], chunk')
      <3>1. new.log_positions[i] = next
        BY <2>5, <2>7
      <3>2. chunk'[b].entries = heap[b].entries /\ s \in chunk'[b].readers
        BY <2>10, <2>11
      <3>3. Len(chunk'[b].entries) \in Nat /\ 0 <= Len(chunk'[b].entries)
        BY <2>8, <3>2, LenProperties DEF Chunk
      <3>4. MoreInChunk(next, heap) => 0 < Len(chunk'[b].entries)
        BY <2>4, <3>2 DEF MoreInChunk
      <3> QED BY <2>1, <2>4, <2>6, <2>7, <2>11, <3>1, <3>2, <3>3, <3>4
              DEF HasValidPosition, IsValidPosition
    <2>15. \A j \in (DOMAIN state[s].log_positions) \ {i} :
              /\ new.log_positions[j] = state[s].log_positions[j]
              /\ j \notin new.logs_needed => j \notin state[s].logs_needed
      BY <1>1, <1>2, <2>5, <2>6, <2>7 DEF IsState
    <2>16. DOMAIN new.log_positions = (DOMAIN state[s].log_positions) \cup {i}
      BY <1>2, <2>5, <2>7
    <2>17. MovesPosition(s, i, new)
      BY <2>3, <2>7, <2>11, <2>12, <2>13, <2>14, <2>15, <2>16 DEF MovesPosition
    <2> QED BY <2>17
  <1>9. Moved
    <2>1. \/ /\ MoreInChunk(pos, heap) /\ chunk' = heap
             /\ state' = [state EXCEPT ![s] = [st EXCEPT !.logs_needed = st.logs_needed \ {i}]]
          \/ /\ chunk' = heap
             /\ state' = [state EXCEPT ![s] = [st EXCEPT !.logs_needed = st.logs_needed \cup {i}]]
          \/ \E k \in 1 .. Len(list) - 1 :
                LET next == [buffer_it |-> list[k + 1], read_offset |-> 0]
                IN  /\ chunk' = [heap EXCEPT ![list[k]] = DetachReader(@, s),
                                             ![list[k + 1]] = AttachReader(@, s)]
                    /\ state' = [state EXCEPT ![s] =
                          [SetPosition(st, i, next) EXCEPT
                              !.logs_needed = IF MoreInChunk(next, heap) THEN @ \ {i}
                                                                         ELSE @ \cup {i}]]
      BY DEF UpdateLogsNeeded
    <2> HIDE DEF Moved, st, list
    <2> QED BY <1>6, <1>7, <1>8, <2>1
  <1> QED BY <1>9, MovesPositionPreserves

\* CreateLogPosition() attaches the state to the chunk it starts in.
LEMMA CreateLogPositionPreserves ==
    ASSUME Parts, logs' = logs, NEW s \in DOMAIN state, NEW i \in LogIds,
           CreateLogPosition(s, i)
    PROVE  /\ IsHeap(chunk') /\ DOMAIN chunk' = DOMAIN chunk
           /\ StatesOK' /\ PositionsAreValid' /\ DOMAIN state' = DOMAIN state
  <1>1. PICK k \in 1 .. Len(logs[i]) : \E n \in 0 .. Len(chunk[logs[i][k]].entries) :
            UpdateLogsNeeded(s, i, [buffer_it |-> logs[i][k], read_offset |-> n],
                             [chunk EXCEPT ![logs[i][k]] = AttachReader(@, s)])
    BY DEF CreateLogPosition
  <1> DEFINE c == logs[i][k]
             heap == [chunk EXCEPT ![c] = AttachReader(@, s)]
  <1>2. PICK n \in 0 .. Len(chunk[c].entries) :
            UpdateLogsNeeded(s, i, [buffer_it |-> c, read_offset |-> n], heap)
    BY <1>1
  <1> DEFINE pos == [buffer_it |-> c, read_offset |-> n]
  <1>3. /\ c \in Elements(logs[i]) /\ c \in DOMAIN chunk /\ c \in ChunkIds
    <2>1. c \in Elements(logs[i])
      BY DEF Elements
    <2> QED BY <2>1 DEF Parts, ListsAreDisjoint, IsHeap
  <1>4. s \in States /\ chunk[c] \in Chunk /\ IsFiniteSet(chunk[c].readers)
    BY <1>3 DEF Parts, StatesOK, IsHeap
  <1>5. /\ AttachReader(chunk[c], s) \in Chunk
        /\ AttachReader(chunk[c], s).readers = chunk[c].readers \cup {s}
        /\ AttachReader(chunk[c], s).entries = chunk[c].entries
        /\ IsFiniteSet(AttachReader(chunk[c], s).readers)
    BY <1>4, AttachReaderType
  <1>6. Len(chunk[c].entries) \in Nat
    BY <1>4, LenProperties DEF Chunk
  <1>7. /\ pos \in Position /\ pos.buffer_it = c
        /\ pos.read_offset \in Nat /\ pos.read_offset <= Len(chunk[c].entries)
    BY <1>3, <1>6 DEF Position
  <1>8. /\ DOMAIN heap = DOMAIN chunk /\ heap[c] = AttachReader(chunk[c], s)
        /\ \A d \in (DOMAIN chunk) \ {c} : heap[d] = chunk[d]
    BY <1>3
  <1> HIDE DEF c, heap, pos
  <1>9. AttachedIn(heap)
    <2>1. \A d \in DOMAIN chunk : chunk[d] \in Chunk /\ IsFiniteSet(chunk[d].readers)
      BY DEF Parts, IsHeap
    <2>2. \A d \in DOMAIN chunk : /\ heap[d] \in Chunk /\ IsFiniteSet(heap[d].readers)
                                  /\ heap[d].entries = chunk[d].entries
                                  /\ chunk[d].readers \subseteq heap[d].readers
      BY <1>3, <1>5, <1>8, <2>1
    <2> QED BY <1>8, <2>2 DEF AttachedIn, Parts, IsHeap
  <1>10. IsValidPosition(s, pos, logs[i], heap)
    BY <1>3, <1>5, <1>7, <1>8 DEF IsValidPosition
  <1>11. UpdateLogsNeeded(s, i, pos, heap)
    BY <1>2 DEF pos
  <1> QED BY <1>7, <1>9, <1>10, <1>11, UpdateLogsNeededPreserves

\* The FlushToState a FlushTo() works on exists.
LEMMA CurrentIsLive ==
    ASSUME Parts, NEW r \in Readers, thread[r].pc \in {"flush", "stop"}
    PROVE  Current(r) \in DOMAIN state
  <1>1. thread[r] \in Thread
    BY DEF Parts, ThreadsOK
  <1>2. thread[r].pass \in {"find", "first", "second"}
    BY <1>1 DEF Thread
  <1> QED BY <1>2 DEF Parts, ThreadsHaveStates, NeedsMain, NeedsTemp, Current

\* One iteration of CheckForNewLogs().
LEMMA CheckForNewLogsPreserves ==
    ASSUME Parts, NEW r \in Readers, CheckForNewLogs(r)
    PROVE  Parts'
  <1> DEFINE s == Current(r)
             i == thread[r].log_id
             t == [thread[r] EXCEPT !.log_id = i + 1]
  <1>1. /\ thread[r].pc = "flush" /\ logd_lock = {r} /\ i < LOG_ID_MAX
        /\ thread' = [thread EXCEPT ![r] = t]
        /\ UNCHANGED <<logd_lock, logs, max_size, stats, sequence, pending, clear, late,
                       commands, delivered>>
    BY DEF CheckForNewLogs, Flushing
  <1>2. \/ UNCHANGED <<chunk, state>>
        \/ CreateLogPosition(s, i)
        \/ /\ HasPosition(state[s], i)
           /\ UpdateLogsNeeded(s, i, state[s].log_positions[i], chunk)
    BY DEF CheckForNewLogs
  <1>3. s \in DOMAIN state
    BY <1>1, CurrentIsLive
  <1>4. thread[r] \in Thread /\ i \in 0 .. LOG_ID_MAX
    BY DEF Parts, ThreadsOK, Thread
  <1>5. i \in LogIds /\ i + 1 \in 0 .. LOG_ID_MAX
    BY <1>1, <1>4, LogIdAssumption DEF LogIds
  <1>6. /\ t \in Thread /\ t.pc = "flush" /\ t.pass = thread[r].pass
    <2> HIDE DEF i
    <2> QED BY <1>1, <1>4, <1>5 DEF Thread
  <1> HIDE DEF s, i, t
  <1>7. /\ IsHeap(chunk') /\ DOMAIN chunk' = DOMAIN chunk
        /\ StatesOK' /\ PositionsAreValid' /\ DOMAIN state' = DOMAIN state
    <2>1. CASE UNCHANGED <<chunk, state>>
      BY <1>1, <2>1, SameStates
    <2>2. CASE CreateLogPosition(s, i)
      BY <1>1, <1>3, <1>5, <2>2, CreateLogPositionPreserves
    <2>3. CASE /\ HasPosition(state[s], i)
               /\ UpdateLogsNeeded(s, i, state[s].log_positions[i], chunk)
      <3> DEFINE pos == state[s].log_positions[i]
      <3>1. i \in DOMAIN state[s].log_positions
        BY <2>3 DEF HasPosition
      <3>2. HasValidPosition(s, i, state[s], logs[i], chunk)
        BY <1>3, <3>1, PositionsByState DEF Parts
      <3>3. IsValidPosition(s, pos, logs[i], chunk)
        BY <3>2 DEF HasValidPosition
      <3>4. pos \in Position
        BY <1>3, <3>1 DEF Parts, StatesOK, IsState, FlushToState
      <3>5. AttachedIn(chunk)
        BY DEF Parts, AttachedIn
      <3> QED BY <1>1, <1>3, <1>5, <2>3, <3>3, <3>4, <3>5, UpdateLogsNeededPreserves
    <2> QED BY <1>2, <2>1, <2>2, <2>3
  <1>8. ThreadsOK' /\ ThreadsHaveStates'
    <2>1. /\ NeedsMain(t) => NeedsMain(thread[r])
          /\ NeedsTemp(t) => NeedsTemp(thread[r])
      BY <1>1, <1>6 DEF NeedsMain, NeedsTemp
    <2>2. /\ NeedsMain(t) => Main(r) \in DOMAIN state'
          /\ NeedsTemp(t) => Temp(r) \in DOMAIN state'
      BY <1>7, <2>1 DEF Parts, ThreadsHaveStates
    <2> QED BY <1>1, <1>6, <1>7, <2>2, OneThread
  <1>9. ~Clearing
    BY <1>1, NotClearing
  <1>10. delivered' \in [Readers -> Seq(Nat)]
    BY <1>1 DEF Parts, HistoryOK
  <1> QED BY <1>1, <1>7, <1>8, <1>9, <1>10, ReaderFrame

-----------------------------------------------------------------------------
(***************************************************************************)
(* FlushTo()                                                                *)
(***************************************************************************)

\* A filter changes only counters, and only the second pass may ask for a write.
FilterOK(t, out) ==
    /\ out.thread \in Thread
    /\ out.thread.pc = t.pc /\ out.thread.pass = t.pass
    /\ out.result = "kWrite" => t.pass = "second"

\* The fields of Filtered().
LEMMA FilteredType ==
    ASSUME NEW t, NEW result
    PROVE  Filtered(t, result).thread = t /\ Filtered(t, result).result = result
  BY DEF Filtered

\* FilterFirstPass() only counts, and never writes.
LEMMA FilterFirstPassType ==
    ASSUME NEW t \in Thread, NEW entry \in Entry
    PROVE  FilterOK(t, FilterFirstPass(t, entry))
  <1> DEFINE u == [t EXCEPT !.count = t.count + 1]
  <1>1. u \in Thread /\ u.pc = t.pc /\ u.pass = t.pass
    BY DEF Thread
  <1>2. FilterFirstPass(t, entry) \in {Filtered(u, "kSkip"), Filtered(t, "kSkip")}
    BY Zenon DEF FilterFirstPass
  <1> HIDE DEF u
  <1> QED BY <1>1, <1>2, FilteredType DEF FilterOK

\* FilterSecondPass() changes only its counters and the tail.
LEMMA FilterSecondPassType ==
    ASSUME NEW t \in Thread, NEW entry \in Entry, t.pass = "second"
    PROVE  FilterOK(t, FilterSecondPass(t, entry))
  <1> DEFINE index == t.index + 1
             u == [t EXCEPT !.index = index]
             tail == IF t.non_block THEN t.tail ELSE 0
             v == [t EXCEPT !.index = index, !.tail = tail]
  <1>1. index \in Nat /\ tail \in Nat
    BY DEF Thread
  <1>2. \E result : FilterSecondPass(t, entry) \in
            {Filtered(t, result), Filtered(u, result), Filtered(v, result)}
    BY Zenon DEF FilterSecondPass
  <1> HIDE DEF index, tail
  <1>3. u \in Thread /\ u.pc = t.pc /\ u.pass = t.pass
    BY <1>1 DEF Thread
  <1>4. v \in Thread /\ v.pc = t.pc /\ v.pass = t.pass
    BY <1>1 DEF Thread
  <1> HIDE DEF u, v
  <1> QED BY <1>2, <1>3, <1>4, FilteredType DEF FilterOK

\* log_find_start changes only what it computes, and never writes.
LEMMA LogFindStartType ==
    ASSUME NEW t \in Thread, NEW entry \in Entry
    PROVE  FilterOK(t, LogFindStart(t, entry))
  <1> DEFINE u == [t EXCEPT !.sequence = entry.sequence, !.start_time_set = TRUE]
             v == [t EXCEPT !.sequence = t.last, !.start_time_set = TRUE]
             x == [t EXCEPT !.last = entry.sequence]
  <1>1. entry.sequence \in Nat /\ t.last \in Nat
    BY DEF Entry, Thread
  <1>2. u \in Thread /\ u.pc = t.pc /\ u.pass = t.pass
    BY <1>1 DEF Thread
  <1>3. v \in Thread /\ v.pc = t.pc /\ v.pass = t.pass
    BY <1>1 DEF Thread
  <1>4. x \in Thread /\ x.pc = t.pc /\ x.pass = t.pass
    BY <1>1 DEF Thread
  <1>5. LogFindStart(t, entry) \in {Filtered(t, "kSkip"), Filtered(u, "kStop"),
                                    Filtered(v, "kStop"), Filtered(x, "kSkip")}
    BY Zenon DEF LogFindStart
  <1> HIDE DEF u, v, x
  <1> QED BY <1>2, <1>3, <1>4, <1>5, FilteredType DEF FilterOK

\* What FlushTo() does with an entry leaves the thread in its flush and its pass.
LEMMA OutcomeType ==
    ASSUME NEW t \in Thread, NEW entry \in Entry, NEW start
    PROVE  FilterOK(t, Outcome(t, start, entry))
  <1>1. FilterOK(t, Filtered(t, "kSkip"))
    BY FilteredType DEF FilterOK
  <1>2. t.pass \in {"find", "first", "second"}
    BY DEF Thread
  <1>3. FilterOK(t, Filter(t, entry))
    <2>1. CASE t.pass = "find"
      BY <2>1, LogFindStartType DEF Filter
    <2>2. CASE t.pass = "first"
      BY <2>2, FilterFirstPassType DEF Filter
    <2>3. CASE t.pass = "second"
      BY <2>3, FilterSecondPassType DEF Filter
    <2> QED BY <1>2, <2>1, <2>2, <2>3
  <1> QED BY <1>1, <1>3, Zenon DEF Outcome

\* FlushTo() pops an entry, which was there to be popped.
LEMMA FlushToEntryPreserves ==
    ASSUME Parts, NEW r \in Readers, FlushToEntry(r)
    PROVE  Parts'
  <1> DEFINE s == Current(r)
  <1>1. /\ thread[r].pc = "flush" /\ logd_lock = {r}
        /\ UNCHANGED <<bufferVars, delivered>>
    BY DEF FlushToEntry, Flushing
  <1>2. PICK i \in UnreadLogs(state[s]) :
            LET entry   == EntryAt(state[s].log_positions[i], chunk)
                outcome == Outcome(thread[r], state[s].start, entry)
            IN  /\ state' = [state EXCEPT ![s] = SetStart(PopNextUnreadLog(@, i), entry)]
                /\ \/ /\ outcome.result = "kSkip"
                      /\ thread' = [thread EXCEPT ![r] = [outcome.thread EXCEPT !.log_id = 0]]
                      /\ UNCHANGED logd_lock
                   \/ /\ outcome.result = "kStop"
                      /\ thread' = [thread EXCEPT ![r] = [outcome.thread EXCEPT !.pc = "stop"]]
                      /\ UNCHANGED logd_lock
                   \/ /\ outcome.result = "kWrite"
                      /\ thread' = [thread EXCEPT ![r] =
                            [outcome.thread EXCEPT !.pc = "write", !.out = entry.sequence]]
                      /\ logd_lock' = {}
    BY DEF FlushToEntry
  <1> DEFINE pos == state[s].log_positions[i]
             entry == EntryAt(pos, chunk)
             outcome == Outcome(thread[r], state[s].start, entry)
             new == SetStart(PopNextUnreadLog(state[s], i), entry)
             t1 == [outcome.thread EXCEPT !.log_id = 0]
             t2 == [outcome.thread EXCEPT !.pc = "stop"]
             t3 == [outcome.thread EXCEPT !.pc = "write", !.out = entry.sequence]
  <1>3. s \in DOMAIN state
    BY <1>1, CurrentIsLive
  <1>4. /\ state' = [state EXCEPT ![s] = new]
        /\ \/ /\ thread' = [thread EXCEPT ![r] = t1]
              /\ logd_lock' = {r}
           \/ /\ thread' = [thread EXCEPT ![r] = t2]
              /\ logd_lock' = {r}
           \/ /\ outcome.result = "kWrite"
              /\ thread' = [thread EXCEPT ![r] = t3]
              /\ logd_lock' = {}
    BY <1>1, <1>2
  <1>5. i \in DOMAIN state[s].log_positions /\ i \notin state[s].logs_needed
    BY DEF UnreadLogs
  <1>6. HasValidPosition(s, i, state[s], logs[i], chunk)
    BY <1>3, <1>5, PositionsByState DEF Parts
  <1>7. IsState(state[s]) /\ i \in LogIds
    BY <1>3, <1>5 DEF Parts, StatesOK, IsState
  <1>8. pos.read_offset \in Nat
    BY <1>5, <1>7 DEF IsState, FlushToState, Position
  <1>9. /\ pos.buffer_it \in Elements(logs[i]) \cap DOMAIN chunk
        /\ s \in chunk[pos.buffer_it].readers
        /\ pos.read_offset < Len(chunk[pos.buffer_it].entries)
    BY <1>5, <1>6 DEF HasValidPosition, IsValidPosition
  <1>10. /\ chunk[pos.buffer_it].entries \in Seq(Entry)
         /\ Len(chunk[pos.buffer_it].entries) \in Nat
    BY <1>9, LenProperties DEF Parts, IsHeap, Chunk
  <1>11. entry \in Entry
    <2>1. pos.read_offset + 1 \in 1 .. Len(chunk[pos.buffer_it].entries)
      BY <1>8, <1>9, <1>10
    <2> QED BY <1>10, <2>1, ElementOfSeq DEF EntryAt
  <1>12. thread[r] \in Thread
    BY DEF Parts, ThreadsOK
  <1>13. FilterOK(thread[r], outcome)
    BY <1>11, <1>12, OutcomeType
  <1>14. /\ IsState(new)
         /\ DOMAIN new.log_positions = DOMAIN state[s].log_positions
         /\ new.logs_needed = state[s].logs_needed \cup {i}
         /\ new.log_positions[i].buffer_it = pos.buffer_it
         /\ new.log_positions[i].read_offset = pos.read_offset + 1
         /\ \A j \in (DOMAIN state[s].log_positions) \ {i} :
               new.log_positions[j] = state[s].log_positions[j]
    BY <1>5, <1>7, <1>11, PopNextUnreadLogType
  <1>15. entry.sequence \in Nat
    BY <1>11 DEF Entry
  <1>16. UNCHANGED <<chunk, logs>>
    BY <1>1 DEF bufferVars
  <1> HIDE DEF s, new, entry, outcome
  <1>17. MovesPosition(s, i, new)
    <2>1. HasValidPosition(s, i, new, logs[i], chunk)
      BY <1>8, <1>9, <1>10, <1>14, SMTT(20) DEF HasValidPosition, IsValidPosition
    <2>2. IsHeap(chunk)
      BY DEF Parts
    <2>3. DOMAIN new.log_positions = (DOMAIN state[s].log_positions) \cup {i}
      BY <1>5, <1>14
    <2> HIDE DEF pos
    <2> QED BY <1>4, <1>14, <1>16, <2>1, <2>2, <2>3 DEF MovesPosition
  <1>18. /\ IsHeap(chunk') /\ DOMAIN chunk' = DOMAIN chunk
         /\ StatesOK' /\ PositionsAreValid' /\ DOMAIN state' = DOMAIN state
    BY <1>3, <1>7, <1>17, MovesPositionPreserves
  <1>19. /\ outcome.thread \in Thread /\ outcome.thread.pc = "flush"
         /\ outcome.thread.pass = thread[r].pass
         /\ outcome.result = "kWrite" => thread[r].pass = "second"
    BY <1>1, <1>13 DEF FilterOK
  <1>20. /\ thread[r].pass # "find" => Main(r) \in DOMAIN state'
         /\ thread[r].pass # "second" => Temp(r) \in DOMAIN state'
    BY <1>1, <1>18 DEF Parts, ThreadsHaveStates, NeedsMain, NeedsTemp
  <1>21. t1 \in Thread /\ t1.pc = "flush" /\ t1.pass = thread[r].pass
    BY <1>19, LogIdAssumption DEF Thread
  <1>22. t2 \in Thread /\ t2.pc = "stop" /\ t2.pass = thread[r].pass
    BY <1>19 DEF Thread
  <1>23. t3 \in Thread /\ t3.pc = "write" /\ t3.pass = thread[r].pass
    BY <1>15, <1>19 DEF Thread
  <1> HIDE DEF t1, t2, t3
  <1>24. ThreadsOK' /\ ThreadsHaveStates'
    <2>1. CASE thread' = [thread EXCEPT ![r] = t1]
      <3>1. /\ NeedsMain(t1) => Main(r) \in DOMAIN state'
            /\ NeedsTemp(t1) => Temp(r) \in DOMAIN state'
        BY <1>20, <1>21 DEF NeedsMain, NeedsTemp
      <3> QED BY <1>18, <1>21, <2>1, <3>1, OneThread
    <2>2. CASE thread' = [thread EXCEPT ![r] = t2]
      <3>1. /\ NeedsMain(t2) => Main(r) \in DOMAIN state'
            /\ NeedsTemp(t2) => Temp(r) \in DOMAIN state'
        BY <1>20, <1>22 DEF NeedsMain, NeedsTemp
      <3> QED BY <1>18, <1>22, <2>2, <3>1, OneThread
    <2>3. CASE outcome.result = "kWrite" /\ thread' = [thread EXCEPT ![r] = t3]
      <3>1. /\ t3.pass = "second" /\ Main(r) \in DOMAIN state' /\ ~NeedsTemp(t3)
        BY <1>19, <1>20, <1>23, <2>3 DEF NeedsTemp
      <3> QED BY <1>18, <1>23, <2>3, <3>1, OneThread
    <2> QED BY <1>4, <2>1, <2>2, <2>3
  <1>25. ~Clearing /\ (logd_lock' = {} \/ \E q \in Readers : logd_lock' = {q})
    BY <1>1, <1>4, NotClearing
  <1>26. delivered' \in [Readers -> Seq(Nat)]
    BY <1>1 DEF Parts, HistoryOK
  <1>27. UNCHANGED <<logs, max_size, sequence, pending, clear, late, commands>>
    BY <1>1 DEF bufferVars
  <1> QED BY <1>18, <1>24, <1>25, <1>26, <1>27, ReaderFrame

\* FlushTo() finds nothing more to read.
LEMMA FlushToNoMorePreserves ==
    ASSUME Parts, NEW r \in Readers, FlushToNoMore(r)
    PROVE  Parts'
  <1> DEFINE t == [thread[r] EXCEPT !.pc = "stop"]
  <1>1. /\ thread[r].pc = "flush"
        /\ thread' = [thread EXCEPT ![r] = t]
        /\ UNCHANGED <<bufferVars, logd_lock, state, delivered>>
    BY DEF FlushToNoMore, Flushing
  <1>2. t \in Thread /\ t.pc = "stop" /\ t.pass = thread[r].pass
    BY DEF Parts, ThreadsOK, Thread
  <1> HIDE DEF t
  <1>3. /\ NeedsMain(t) => Main(r) \in DOMAIN state
        /\ NeedsTemp(t) => Temp(r) \in DOMAIN state
    BY <1>1, <1>2 DEF Parts, ThreadsHaveStates, NeedsMain, NeedsTemp
  <1>4. UNCHANGED <<chunk, state, logs, max_size, sequence, pending, clear, late, commands,
                    logd_lock>>
    BY <1>1 DEF bufferVars
  <1>5. /\ IsHeap(chunk') /\ DOMAIN chunk' = DOMAIN chunk
        /\ StatesOK' /\ PositionsAreValid' /\ DOMAIN state' = DOMAIN state
    BY <1>4, SameStates
  <1>6. ThreadsOK' /\ ThreadsHaveStates'
    BY <1>1, <1>2, <1>3, <1>5, OneThread
  <1>7. delivered' \in [Readers -> Seq(Nat)]
    BY <1>1 DEF Parts, HistoryOK
  <1> QED BY <1>4, <1>5, <1>6, <1>7, ReaderFrame

(***************************************************************************)
(* A step of r that changes only its thread, the lock and perhaps what was  *)
(* delivered to it, and needs no FlushToState but what it has.              *)
(***************************************************************************)
LEMMA ThreadOnly ==
    ASSUME Parts, NEW r \in Readers, NEW t \in Thread,
           thread' = [thread EXCEPT ![r] = t],
           UNCHANGED <<bufferVars, state>>,
           NeedsMain(t) => Main(r) \in DOMAIN state,
           NeedsTemp(t) => Temp(r) \in DOMAIN state,
           t.pc = "write" => t.pass = "second",
           delivered' \in [Readers -> Seq(Nat)],
           \/ ~Clearing /\ (logd_lock' = {} \/ \E q \in Readers : logd_lock' = {q})
           \/ logd_lock' = logd_lock
    PROVE  Parts'
  <1>1. UNCHANGED <<chunk, state, logs, max_size, sequence, pending, clear, late, commands>>
    BY DEF bufferVars
  <1>2. /\ IsHeap(chunk') /\ DOMAIN chunk' = DOMAIN chunk
        /\ StatesOK' /\ PositionsAreValid' /\ DOMAIN state' = DOMAIN state
    BY <1>1, SameStates
  <1>3. ThreadsOK' /\ ThreadsHaveStates'
    BY <1>2, OneThread
  <1> QED BY <1>1, <1>2, <1>3, ReaderFrame

\* A step that delivers nothing.
LEMMA DeliveredKept ==
    ASSUME Parts, delivered' = delivered
    PROVE  delivered' \in [Readers -> Seq(Nat)]
  BY DEF Parts, HistoryOK

\* What a thread in the middle of its life has
LEMMA ThreadHas ==
    ASSUME Parts, NEW r \in Readers
    PROVE  /\ thread[r] \in Thread
           /\ NeedsMain(thread[r]) => Main(r) \in DOMAIN state
           /\ NeedsTemp(thread[r]) => Temp(r) \in DOMAIN state
           /\ thread[r].pc = "write" => thread[r].pass = "second"
  BY DEF Parts, ThreadsOK, ThreadsHaveStates

\* The write to the client ends and FlushTo() takes the lock again.
LEMMA WritePreserves ==
    ASSUME Parts, NEW r \in Readers, WriteSucceeds(r) \/ WriteFails(r)
    PROVE  Parts'
  <1> DEFINE t1 == [thread[r] EXCEPT !.pc = "flush", !.log_id = 0, !.out = 0]
             t2 == [thread[r] EXCEPT !.pc = "exit", !.start_time = EPOCH, !.out = 0]
  <1>1. thread[r] \in Thread
    BY ThreadHas
  <1>2. /\ thread[r].pc = "write" /\ LockFree /\ logd_lock' = {r}
        /\ UNCHANGED <<bufferVars, state>>
    BY DEF WriteSucceeds, WriteFails
  <1>3. ~Clearing
    BY <1>2, NotClearing
  <1>4. thread[r].pass = "second" /\ Main(r) \in DOMAIN state
    BY <1>2, ThreadHas DEF NeedsMain
  <1>5. CASE WriteSucceeds(r)
    <2>1. t1 \in Thread /\ t1.pc = "flush" /\ t1.pass = "second"
      <3>1. 0 \in 0 .. LOG_ID_MAX
        BY LogIdAssumption
      <3> QED BY <1>1, <1>4, <3>1 DEF Thread
    <2>2. thread' = [thread EXCEPT ![r] = t1]
      BY <1>5 DEF WriteSucceeds
    <2>3. delivered' \in [Readers -> Seq(Nat)]
      <3>1. delivered[r] \in Seq(Nat) /\ thread[r].out \in Nat
        BY <1>1 DEF Parts, HistoryOK, Thread
      <3>2. Append(delivered[r], thread[r].out) \in Seq(Nat)
        BY <3>1, AppendProperties
      <3>3. delivered' = [delivered EXCEPT ![r] = Append(delivered[r], thread[r].out)]
        BY <1>5 DEF WriteSucceeds
      <3> QED BY <3>2, <3>3 DEF Parts, HistoryOK
    <2> HIDE DEF t1
    <2>4. ~NeedsTemp(t1)
      BY <2>1 DEF NeedsTemp
    <2> QED BY <1>2, <1>3, <1>4, <2>1, <2>2, <2>3, <2>4, ThreadOnly
  <1>6. CASE WriteFails(r)
    <2>1. t2 \in Thread /\ t2.pc = "exit" /\ t2.pass = "second"
      BY <1>1, <1>4 DEF Thread, EPOCH
    <2>2. thread' = [thread EXCEPT ![r] = t2] /\ delivered' = delivered
      BY <1>6 DEF WriteFails
    <2> HIDE DEF t2
    <2>3. ~NeedsTemp(t2)
      BY <2>1 DEF NeedsTemp
    <2> QED BY <1>2, <1>3, <1>4, <2>1, <2>2, <2>3, DeliveredKept, ThreadOnly
  <1> QED BY <1>5, <1>6

\* The deadline of a waiting thread passes.
LEMMA DeadlinePassesPreserves ==
    ASSUME Parts, NEW r \in Readers, DeadlinePasses(r)
    PROVE  Parts'
  <1> DEFINE t == [thread[r] EXCEPT !.pc = "timed_out"]
  <1>1. /\ thread[r].pc = "wait_until" /\ thread' = [thread EXCEPT ![r] = t]
        /\ UNCHANGED <<bufferVars, logd_lock, state, delivered>>
    BY DEF DeadlinePasses
  <1>2. t \in Thread /\ t.pc = "timed_out"
    BY ThreadHas DEF Thread
  <1> HIDE DEF t
  <1>3. Main(r) \in DOMAIN state /\ ~NeedsTemp(t)
    BY <1>1, <1>2, ThreadHas DEF NeedsMain, NeedsTemp
  <1> QED BY <1>1, <1>2, <1>3, DeliveredKept, ThreadOnly

\* DoSocketDelete() releases a thread and wakes it.
LEMMA DoSocketDeletePreserves ==
    ASSUME Parts, NEW r \in Readers, DoSocketDelete(r)
    PROVE  Parts'
  <1> DEFINE t == [thread[r] EXCEPT !.release = TRUE]
  <1>1. /\ thread' = [thread EXCEPT ![r] = TriggerReader(t)]
        /\ UNCHANGED <<bufferVars, logd_lock, state, delivered>>
    BY DEF DoSocketDelete, Release
  <1>2. t \in Thread /\ t.pc = thread[r].pc /\ t.pass = thread[r].pass
    <2>1. thread[r] \in Thread
      BY ThreadHas
    <2>2. t \in Thread
      BY <2>1 DEF Thread
    <2>3. t.pc = thread[r].pc /\ t.pass = thread[r].pass
      BY <2>1 DEF Thread
    <2> QED BY <2>2, <2>3
  <1> HIDE DEF t
  <1>3. TriggerReader(t) \in Thread /\ NeedsNoMore(TriggerReader(t), t)
    BY <1>2, TriggerReaderType
  <1>4. /\ NeedsMain(t) => Main(r) \in DOMAIN state
        /\ NeedsTemp(t) => Temp(r) \in DOMAIN state
        /\ t.pc = "write" => t.pass = "second"
    BY <1>2, ThreadHas DEF NeedsMain, NeedsTemp
  <1>5. /\ NeedsMain(TriggerReader(t)) => Main(r) \in DOMAIN state
        /\ NeedsTemp(TriggerReader(t)) => Temp(r) \in DOMAIN state
        /\ TriggerReader(t).pc = "write" => TriggerReader(t).pass = "second"
    BY <1>3, <1>4 DEF NeedsNoMore
  <1> QED BY <1>1, <1>3, <1>5, DeliveredKept, ThreadOnly

(***************************************************************************)
(* FlushToStates come and go                                                *)
(***************************************************************************)

\* A step of r creates the FlushToState s.
LEMMA CreatesState ==
    ASSUME Parts, NEW r \in Readers, NEW t \in Thread,
           thread' = [thread EXCEPT ![r] = t],
           UNCHANGED <<bufferVars, delivered>>,
           NEW s \in States, NEW start \in Nat, NEW log_mask \in SUBSET LogIds,
           state' = WithState(s, NewFlushToState(start, log_mask)),
           NeedsMain(t) => Main(r) \in (DOMAIN state) \cup {s},
           NeedsTemp(t) => Temp(r) \in (DOMAIN state) \cup {s},
           t.pc = "write" => t.pass = "second",
           LockFree,
           logd_lock' = {} \/ \E q \in Readers : logd_lock' = {q}
    PROVE  Parts'
  <1>1. UNCHANGED <<chunk, logs, max_size, sequence, pending, clear, late, commands>>
    BY DEF bufferVars
  <1>2. /\ IsHeap(chunk') /\ DOMAIN chunk' = DOMAIN chunk
        /\ StatesOK' /\ PositionsAreValid' /\ DOMAIN state' = (DOMAIN state) \cup {s}
    BY <1>1, NewState
  <1>3. ThreadsOK' /\ ThreadsHaveStates'
    BY <1>2, OneThread
  <1>4. ~Clearing
    BY NotClearing
  <1> QED BY <1>1, <1>2, <1>3, <1>4, DeliveredKept, ReaderFrame

\* A step of r destroys its FlushToState s.
LEMMA DestroysState ==
    ASSUME Parts, NEW r \in Readers, NEW t \in Thread,
           thread' = [thread EXCEPT ![r] = t],
           UNCHANGED <<logs, max_size, sequence, pending, clear, late, commands, delivered>>,
           NEW s \in DOMAIN state, s \in {Main(r), Temp(r)},
           chunk' = DetachAll(s), state' = WithoutState(s),
           NeedsMain(t) => Main(r) \in (DOMAIN state) \ {s},
           NeedsTemp(t) => Temp(r) \in (DOMAIN state) \ {s},
           t.pc = "write" => t.pass = "second",
           logd_lock = {r}, logd_lock' = {} \/ logd_lock' = {r}
    PROVE  Parts'
  <1>1. /\ IsHeap(chunk') /\ DOMAIN chunk' = DOMAIN chunk
        /\ StatesOK' /\ PositionsAreValid' /\ DOMAIN state' = (DOMAIN state) \ {s}
    BY DestroyState
  <1>2. \A q \in Readers \ {r} : Main(q) # s /\ Temp(q) # s
    BY StatesDiffer
  <1>3. ThreadsOK' /\ ThreadsHaveStates'
    BY <1>1, <1>2, OneThread
  <1>4. ~Clearing
    BY NotClearing
  <1> QED BY <1>1, <1>3, <1>4, DeliveredKept, ReaderFrame

\* What a client may ask for makes a thread.
LEMMA NewThreadType ==
    ASSUME NEW q \in Requests, NEW pc \in {"found", "flush"}
    PROVE  /\ NewThread(q, pc) \in Thread
           /\ NewThread(q, pc).pc = pc /\ NewThread(q, pc).pass = "find"
           /\ NewThread(q, pc).log_mask \in SUBSET LogIds
  <1> DEFINE mask == IF q.can_read_security THEN q.lids ELSE q.lids \ {LOG_ID_SECURITY}
             deadline == q.timeout /\ q.start # EPOCH
  <1>1. /\ q.tail \in Nat /\ q.start \in Nat /\ q.pid \in Nat /\ q.uid \in Nat
        /\ q.non_block \in BOOLEAN /\ q.privileged \in BOOLEAN
        /\ q.lids \subseteq LogIds
    BY RequestAssumption
  <1>2. mask \in SUBSET LogIds
    BY <1>1
  <1>3. deadline \in BOOLEAN
    OBVIOUS
  <1>4. 0 \in 0 .. LOG_ID_MAX
    BY LogIdAssumption
  <1>5. NewThread(q, pc) =
          [pc |-> pc, pass |-> "find", log_id |-> 0, out |-> 0, request |-> q,
           log_mask |-> mask, pid |-> q.pid, uid |-> q.uid, privileged |-> q.privileged,
           non_block |-> q.non_block, tail |-> q.tail, count |-> 0, index |-> 0,
           start_time |-> q.start, deadline |-> deadline, release |-> FALSE,
           sequence |-> 1, last |-> 1, start_time_set |-> FALSE]
    BY Zenon DEF NewThread
  <1> HIDE DEF mask, deadline
  <1> QED BY <1>1, <1>2, <1>3, <1>4, <1>5 DEF Thread

\* A command arrives, and may start a search on a FlushToState of its own.
LEMMA OnDataAvailablePreserves ==
    ASSUME Parts, NEW r \in Readers, OnDataAvailable(r)
    PROVE  Parts'
  <1>1. UNCHANGED <<bufferVars, delivered>>
    BY DEF OnDataAvailable
  <1>2. PICK q \in Requests :
          \/ /\ thread' = [thread EXCEPT ![r] = NewThread(q, "found")]
             /\ UNCHANGED <<logd_lock, state>>
          \/ /\ LockFree
             /\ logd_lock' = {r}
             /\ thread' = [thread EXCEPT ![r] = NewThread(q, "flush")]
             /\ state' = WithState(Temp(r), NewFlushToState(1, NewThread(q, "flush").log_mask))
    BY DEF OnDataAvailable
  <1> DEFINE t1 == NewThread(q, "found")
             t2 == NewThread(q, "flush")
  <1>3. /\ t1 \in Thread /\ t1.pc = "found"
        /\ t2 \in Thread /\ t2.pc = "flush" /\ t2.pass = "find"
        /\ t2.log_mask \in SUBSET LogIds
    BY NewThreadType
  <1>4. \/ thread' = [thread EXCEPT ![r] = t1] /\ UNCHANGED <<logd_lock, state>>
        \/ /\ LockFree /\ logd_lock' = {r}
           /\ thread' = [thread EXCEPT ![r] = t2]
           /\ state' = WithState(Temp(r), NewFlushToState(1, t2.log_mask))
    BY <1>2
  <1> HIDE DEF t1, t2
  <1>5. ~NeedsMain(t1) /\ ~NeedsTemp(t1) /\ ~NeedsMain(t2)
    BY <1>3 DEF NeedsMain, NeedsTemp
  <1>6. CASE thread' = [thread EXCEPT ![r] = t1] /\ UNCHANGED <<logd_lock, state>>
    BY <1>1, <1>3, <1>5, <1>6, DeliveredKept, ThreadOnly
  <1>7. CASE /\ LockFree /\ logd_lock' = {r}
             /\ thread' = [thread EXCEPT ![r] = t2]
             /\ state' = WithState(Temp(r), NewFlushToState(1, t2.log_mask))
    <2>1. Temp(r) \in States /\ 1 \in Nat
      BY StatesType
    <2> QED BY <1>1, <1>3, <1>5, <1>7, <2>1, CreatesState
  <1> QED BY <1>4, <1>6, <1>7

\* BeginFlush() keeps a thread a thread.
LEMMA BeginFlushType ==
    ASSUME NEW t \in Thread, NEW pass \in {"first", "second"}
    PROVE  /\ BeginFlush(t, pass) \in Thread
           /\ BeginFlush(t, pass).pc = "flush" /\ BeginFlush(t, pass).pass = pass
  <1>1. 0 \in 0 .. LOG_ID_MAX
    BY LogIdAssumption
  <1> QED BY <1>1 DEF Thread, BeginFlush

\* The search ends and its FlushToState is destroyed.
LEMMA FindReturnsPreserves ==
    ASSUME Parts, NEW r \in Readers, FindReturns(r)
    PROVE  Parts'
  <1> DEFINE t1 == [thread[r] EXCEPT !.pc = "found"]
             t2 == [thread[r] EXCEPT !.pc = "gone"]
             t3 == [thread[r] EXCEPT !.pc = "found", !.sequence = sequence]
  <1>1. /\ thread[r].pc = "stop" /\ thread[r].pass = "find"
        /\ logd_lock = {r} /\ logd_lock' = {}
        /\ chunk' = DetachAll(Temp(r)) /\ state' = WithoutState(Temp(r))
        /\ UNCHANGED <<logs, max_size, sequence, pending, clear, late, commands, delivered>>
    BY DEF FindReturns
  <1>2. \/ thread' = [thread EXCEPT ![r] = t1]
        \/ thread' = [thread EXCEPT ![r] = t2]
        \/ thread' = [thread EXCEPT ![r] = t3]
    BY DEF FindReturns
  <1>3. thread[r] \in Thread /\ sequence \in Nat
    BY ThreadHas DEF Parts, WritersOK
  <1>4. /\ t1 \in Thread /\ t1.pc = "found"
        /\ t2 \in Thread /\ t2.pc = "gone"
        /\ t3 \in Thread /\ t3.pc = "found"
    BY <1>3 DEF Thread
  <1> HIDE DEF t1, t2, t3
  <1>5. PICK t \in {t1, t2, t3} : thread' = [thread EXCEPT ![r] = t]
    BY <1>2
  <1>6. t \in Thread /\ ~NeedsMain(t) /\ ~NeedsTemp(t) /\ t.pc # "write"
    BY <1>4 DEF NeedsMain, NeedsTemp
  <1>7. Temp(r) \in DOMAIN state
    BY <1>1, ThreadHas DEF NeedsTemp
  <1> QED BY <1>1, <1>5, <1>6, <1>7, DestroysState

\* The first pass ends and its FlushToState is destroyed.
LEMMA FirstPassReturnsPreserves ==
    ASSUME Parts, NEW r \in Readers, FirstPassReturns(r)
    PROVE  Parts'
  <1> DEFINE t == BeginFlush(thread[r], "second")
  <1>1. /\ thread[r].pc = "stop" /\ thread[r].pass = "first"
        /\ logd_lock = {r} /\ logd_lock' = {r}
        /\ chunk' = DetachAll(Temp(r)) /\ state' = WithoutState(Temp(r))
        /\ thread' = [thread EXCEPT ![r] = t]
        /\ UNCHANGED <<logs, max_size, sequence, pending, clear, late, commands, delivered>>
    BY DEF FirstPassReturns
  <1>2. thread[r] \in Thread
    BY ThreadHas
  <1>3. t \in Thread /\ t.pc = "flush" /\ t.pass = "second"
    BY <1>2, BeginFlushType
  <1> HIDE DEF t
  <1>4. /\ Temp(r) \in DOMAIN state /\ Main(r) \in (DOMAIN state) \ {Temp(r)}
        /\ ~NeedsTemp(t)
    BY <1>1, <1>3, ThreadHas, MainIsNotTemp DEF NeedsTemp, NeedsMain
  <1> QED BY <1>1, <1>3, <1>4, DestroysState

\* The thread ends and its FlushToState is destroyed.
LEMMA ThreadExitsPreserves ==
    ASSUME Parts, NEW r \in Readers, ThreadExits(r)
    PROVE  Parts'
  <1> DEFINE t == [thread[r] EXCEPT !.pc = "gone"]
  <1>1. /\ thread[r].pc = "exit"
        /\ logd_lock = {r} /\ logd_lock' = {}
        /\ chunk' = DetachAll(Main(r)) /\ state' = WithoutState(Main(r))
        /\ thread' = [thread EXCEPT ![r] = t]
        /\ UNCHANGED <<logs, max_size, sequence, pending, clear, late, commands, delivered>>
    BY DEF ThreadExits
  <1>2. t \in Thread /\ t.pc = "gone"
    BY ThreadHas DEF Thread
  <1> HIDE DEF t
  <1>3. Main(r) \in DOMAIN state /\ ~NeedsMain(t) /\ ~NeedsTemp(t)
    BY <1>1, <1>2, ThreadHas DEF NeedsTemp, NeedsMain
  <1> QED BY <1>1, <1>2, <1>3, DestroysState

\* The LogReaderThread is created with its FlushToState.
LEMMA CreateThreadPreserves ==
    ASSUME Parts, NEW r \in Readers, CreateThread(r)
    PROVE  Parts'
  <1> DEFINE t == [thread[r] EXCEPT !.pc = "start", !.pass = "second",
                                    !.last = 1, !.start_time_set = FALSE]
  <1>1. /\ LockFree /\ logd_lock' = {}
        /\ state' = WithState(Main(r), NewFlushToState(thread[r].sequence, thread[r].log_mask))
        /\ UNCHANGED <<bufferVars, delivered>>
    BY DEF CreateThread, LockFree
  <1>2. thread' = [thread EXCEPT ![r] = t]
    BY DEF CreateThread
  <1>3. thread[r] \in Thread
    BY ThreadHas
  <1>4. thread[r].sequence \in Nat /\ thread[r].log_mask \in SUBSET LogIds
    BY <1>3 DEF Thread
  <1>5. t \in Thread /\ t.pc = "start"
    BY <1>3 DEF Thread
  <1> HIDE DEF t
  <1>6. Main(r) \in States /\ ~NeedsTemp(t) /\ t.pc # "write"
    BY <1>5, StatesType DEF NeedsTemp
  <1> QED BY <1>1, <1>2, <1>4, <1>5, <1>6, CreatesState

(***************************************************************************)
(* The loop of ThreadFunction()                                             *)
(***************************************************************************)
\* A thread enters FlushTo(), with a second FlushToState if it has a tail.
LEMMA EnterFlushToPreserves ==
    ASSUME Parts, NEW r \in Readers, NEW t \in Thread, EnterFlushTo(r, t),
           Main(r) \in DOMAIN state, LockFree, UNCHANGED <<bufferVars, delivered>>
    PROVE  Parts'
  <1> DEFINE t1 == BeginFlush(t, "first")
             t2 == BeginFlush(t, "second")
  <1>1. /\ logd_lock' = {r}
        /\ \/ /\ thread' = [thread EXCEPT ![r] = t1]
              /\ state' = WithState(Temp(r), NewFlushToState(state[Main(r)].start,
                                                             state[Main(r)].log_mask))
           \/ thread' = [thread EXCEPT ![r] = t2] /\ state' = state
    BY DEF EnterFlushTo
  <1>2. /\ t1 \in Thread /\ t1.pc = "flush" /\ t1.pass = "first"
        /\ t2 \in Thread /\ t2.pc = "flush" /\ t2.pass = "second"
    BY BeginFlushType
  <1>3. state[Main(r)].start \in Nat /\ state[Main(r)].log_mask \in SUBSET LogIds
    BY DEF Parts, StatesOK, IsState, FlushToState
  <1> HIDE DEF t1, t2
  <1>4. CASE /\ thread' = [thread EXCEPT ![r] = t1]
             /\ state' = WithState(Temp(r), NewFlushToState(state[Main(r)].start,
                                                            state[Main(r)].log_mask))
    <2>1. Temp(r) \in States /\ t1.pc # "write"
      BY <1>2, StatesType
    <2> QED BY <1>1, <1>2, <1>3, <1>4, <2>1, CreatesState
  <1>5. CASE thread' = [thread EXCEPT ![r] = t2] /\ state' = state
    <2>1. ~NeedsTemp(t2) /\ ~Clearing
      BY <1>2, NotClearing DEF NeedsTemp
    <2> QED BY <1>1, <1>2, <1>5, <2>1, DeliveredKept, ThreadOnly
  <1> QED BY <1>1, <1>4, <1>5

\* A released thread leaves its loop.
LEMMA LeaveLoopPreserves ==
    ASSUME Parts, NEW r \in Readers, NEW t \in Thread, LeaveLoop(r, t),
           Main(r) \in DOMAIN state, LockFree, UNCHANGED <<bufferVars, delivered>>
    PROVE  Parts'
  <1> DEFINE t1 == [t EXCEPT !.pc = "exit"]
  <1>1. logd_lock' = {r} /\ thread' = [thread EXCEPT ![r] = t1] /\ state' = state
    BY DEF LeaveLoop
  <1>2. t1 \in Thread /\ t1.pc = "exit"
    BY DEF Thread
  <1> HIDE DEF t1
  <1>3. ~NeedsTemp(t1) /\ ~Clearing
    BY <1>2, NotClearing DEF NeedsTemp
  <1> QED BY <1>1, <1>2, <1>3, DeliveredKept, ThreadOnly

\* The top of the loop of ThreadFunction().
LEMMA LoopTopPreserves ==
    ASSUME Parts, NEW r \in Readers, LoopTop(r)
    PROVE  Parts'
  <1> DEFINE t == [thread[r] EXCEPT !.pc = "wait_until"]
  <1>1. /\ thread[r].pc \in {"start", "woken"} /\ LockFree
        /\ UNCHANGED <<bufferVars, delivered>>
        /\ \/ LeaveLoop(r, thread[r])
           \/ thread' = [thread EXCEPT ![r] = t] /\ UNCHANGED <<logd_lock, state>>
           \/ EnterFlushTo(r, thread[r])
    BY DEF LoopTop
  <1>2. thread[r] \in Thread /\ Main(r) \in DOMAIN state
    BY <1>1, ThreadHas DEF NeedsMain
  <1>3. t \in Thread /\ t.pc = "wait_until"
    BY <1>2 DEF Thread
  <1> HIDE DEF t
  <1>4. CASE LeaveLoop(r, thread[r])
    BY <1>1, <1>2, <1>4, LeaveLoopPreserves
  <1>5. CASE thread' = [thread EXCEPT ![r] = t] /\ UNCHANGED <<logd_lock, state>>
    <2>1. ~NeedsTemp(t)
      BY <1>3 DEF NeedsTemp
    <2> QED BY <1>1, <1>2, <1>3, <1>5, <2>1, DeliveredKept, ThreadOnly
  <1>6. CASE EnterFlushTo(r, thread[r])
    BY <1>1, <1>2, <1>6, EnterFlushToPreserves
  <1> QED BY <1>1, <1>4, <1>5, <1>6

\* wait_until() returns.
LEMMA AfterWaitUntilPreserves ==
    ASSUME Parts, NEW r \in Readers, AfterWaitUntil(r)
    PROVE  Parts'
  <1> DEFINE deadline == thread[r].deadline /\ thread[r].pc # "timed_out"
             t == [thread[r] EXCEPT !.deadline = deadline]
  <1>1. /\ thread[r].pc \in {"notified", "timed_out"} /\ LockFree
        /\ UNCHANGED <<bufferVars, delivered>>
        /\ LeaveLoop(r, t) \/ EnterFlushTo(r, t)
    BY DEF AfterWaitUntil
  <1>2. thread[r] \in Thread /\ Main(r) \in DOMAIN state
    BY <1>1, ThreadHas DEF NeedsMain
  <1>3. deadline \in BOOLEAN
    OBVIOUS
  <1> HIDE DEF deadline
  <1>4. t \in Thread
    BY <1>2, <1>3 DEF Thread
  <1> HIDE DEF t
  <1> QED BY <1>1, <1>2, <1>4, LeaveLoopPreserves, EnterFlushToPreserves

\* set_start(start() + 1) at the end of FlushTo() moves no position.
LEMMA StartPreserves ==
    ASSUME Parts, UNCHANGED <<chunk, logs>>, NEW s \in DOMAIN state, NEW start \in Nat,
           state' = [state EXCEPT ![s].start = start]
    PROVE  /\ IsHeap(chunk') /\ DOMAIN chunk' = DOMAIN chunk
           /\ StatesOK' /\ PositionsAreValid' /\ DOMAIN state' = DOMAIN state
  <1> DEFINE new == [state[s] EXCEPT !.start = start]
  <1>1. IsState(state[s]) /\ state' = [state EXCEPT ![s] = new]
    BY DEF Parts, StatesOK
  <1>2. /\ IsState(new) /\ new.log_positions = state[s].log_positions
        /\ new.logs_needed = state[s].logs_needed
    BY <1>1 DEF IsState, FlushToState
  <1> HIDE DEF new
  <1>3. /\ DOMAIN state' = DOMAIN state
        /\ \A q \in DOMAIN state :
              /\ IsState(state'[q]) /\ state'[q].log_positions = state[q].log_positions
              /\ state'[q].logs_needed = state[q].logs_needed
    BY <1>1, <1>2 DEF Parts, StatesOK
  <1>4. StatesOK'
    BY <1>3 DEF Parts, StatesOK
  <1>5. PositionsAreValid'
    BY <1>3 DEF Parts, PositionsAreValid
  <1> QED BY <1>3, <1>4, <1>5 DEF Parts

\* The second pass ends, and the thread ends or waits.
LEMMA SecondPassReturnsPreserves ==
    ASSUME Parts, NEW r \in Readers, SecondPassReturns(r)
    PROVE  Parts'
  <1> DEFINE pc == IF thread[r].deadline THEN "wait_until" ELSE "wait"
             t1 == [thread[r] EXCEPT !.pc = "exit", !.start_time = EPOCH]
             t2 == [thread[r] EXCEPT !.pc = pc, !.start_time = EPOCH]
  <1>1. /\ thread[r].pc = "stop" /\ thread[r].pass = "second"
        /\ logd_lock = {r} /\ logd_lock' \in {{}, {r}}
        /\ state' = [state EXCEPT ![Main(r)].start = state[Main(r)].start + 1]
        /\ UNCHANGED <<bufferVars, delivered>>
    BY DEF SecondPassReturns
  <1>2. thread' = [thread EXCEPT ![r] = t1] \/ thread' = [thread EXCEPT ![r] = t2]
    BY DEF SecondPassReturns
  <1>3. thread[r] \in Thread /\ Main(r) \in DOMAIN state
    BY <1>1, ThreadHas DEF NeedsMain
  <1>4. pc \in {"wait_until", "wait"}
    OBVIOUS
  <1> HIDE DEF pc
  <1>5. t1 \in Thread /\ t1.pc = "exit" /\ t2 \in Thread /\ t2.pc = pc
    BY <1>3, <1>4 DEF Thread, EPOCH
  <1> HIDE DEF t1, t2
  <1>6. PICK t \in {t1, t2} : thread' = [thread EXCEPT ![r] = t]
    BY <1>2
  <1>7. t \in Thread /\ t.pc # "write" /\ ~NeedsTemp(t)
    BY <1>4, <1>5 DEF NeedsTemp
  <1>8. UNCHANGED <<chunk, logs, max_size, sequence, pending, clear, late, commands>>
    BY <1>1 DEF bufferVars
  <1>9. state[Main(r)].start + 1 \in Nat
    BY <1>3 DEF Parts, StatesOK, IsState, FlushToState
  <1>10. /\ IsHeap(chunk') /\ DOMAIN chunk' = DOMAIN chunk
         /\ StatesOK' /\ PositionsAreValid' /\ DOMAIN state' = DOMAIN state
    BY <1>1, <1>3, <1>8, <1>9, StartPreserves
  <1>11. ThreadsOK' /\ ThreadsHaveStates'
    BY <1>3, <1>6, <1>7, <1>10, OneThread
  <1>12. ~Clearing
    BY <1>1, NotClearing
  <1> QED BY <1>1, <1>8, <1>10, <1>11, <1>12, DeliveredKept, ReaderFrame

-----------------------------------------------------------------------------
(***************************************************************************)
(* IInv is inductive                                                        *)
(***************************************************************************)
\* logd starts with empty logs and no reader.
LEMMA InitIInv == Init => IInv
  <1> SUFFICES ASSUME Init PROVE IInv
    OBVIOUS
  <1>1. thread \in [Readers -> Thread] /\ \A r \in Readers : thread[r].pc = "idle"
    <2> DEFINE t == NewThread(NoRequest, "idle")
    <2>1. 0 \in 0 .. LOG_ID_MAX
      BY LogIdAssumption
    <2>2. t \in Thread /\ t.pc = "idle"
      BY <2>1 DEF NewThread, NoRequest, Thread, EPOCH
    <2> HIDE DEF t
    <2>3. thread = [r \in Readers |-> t]
      BY DEF Init, t
    <2> QED BY <2>2, <2>3
  <1>2. ThreadsHaveStates
    BY <1>1 DEF ThreadsHaveStates, NeedsMain, NeedsTemp
  <1>3. /\ DOMAIN chunk = {} /\ DOMAIN state = {} /\ DOMAIN pending = {}
        /\ clear = NoClear /\ logd_lock = {} /\ logs = [i \in LogIds |-> << >>]
    BY DEF Init, BufferInit
  <1>4. ~Clearing
    BY <1>3 DEF Clearing
  <1>5. ClearIsConsistent
    BY <1>3, <1>4 DEF ClearIsConsistent, NoClear
  <1>6. Elements(<< >>) = {} /\ Distinct(<< >>)
    BY DEF Elements, Distinct
  <1>7. ListsAreDisjoint
    BY <1>3, <1>6 DEF ListsAreDisjoint, NoClear
  <1>8. PositionsAreValid
    BY <1>3 DEF PositionsAreValid
  <1>9. max_size \in [LogIds -> Sizes \cap (kLogBufferMinSize .. kLogBufferMaxSize)]
    <2>1. {size \in Sizes : IsValidBufferSize(size)}
             \subseteq Sizes \cap (kLogBufferMinSize .. kLogBufferMaxSize)
      <3> SUFFICES ASSUME NEW size \in Sizes, IsValidBufferSize(size)
                   PROVE  size \in kLogBufferMinSize .. kLogBufferMaxSize
        OBVIOUS
      <3>1. size \in Nat /\ kLogBufferMinSize \in Nat /\ kLogBufferMaxSize \in Nat
        BY SizeAssumption
      <3> QED BY <3>1 DEF IsValidBufferSize
    <2> QED BY <2>1 DEF Init, BufferInit
  <1>10. /\ clear \in [log_id : Nat, uid : Nat, new_logs : Seq(ChunkIds),
                       contains_uid_logs : BOOLEAN, entry : Nat]
         /\ commands \in [set_sizes : Nat, reinits : Nat, clears : Nat, uid_clears : Nat]
         /\ logs \in [LogIds -> Seq(ChunkIds)] /\ sequence \in Nat
         /\ late \in [Readers -> SUBSET Nat] /\ delivered \in [Readers -> Seq(Nat)]
    BY EmptySeq DEF Init, BufferInit, NoClear
  <1>11. TypeOK
    BY <1>1, <1>3, <1>9, <1>10 DEF TypeOK
  <1>12. \A c \in DOMAIN chunk : IsFiniteSet(chunk[c].readers)
    BY <1>3
  <1> QED BY <1>2, <1>5, <1>7, <1>8, <1>11, <1>12 DEF IInv

\* Every step of a reader thread.
LEMMA ReaderStepPreserves ==
    ASSUME Parts, NEW r \in Readers, ReaderStep(r)
    PROVE  Parts'
  <1>1. CASE LoopTop(r)            BY <1>1, LoopTopPreserves
  <1>2. CASE AfterWaitUntil(r)     BY <1>2, AfterWaitUntilPreserves
  <1>3. CASE CheckForNewLogs(r)    BY <1>3, CheckForNewLogsPreserves
  <1>4. CASE FlushToEntry(r)       BY <1>4, FlushToEntryPreserves
  <1>5. CASE FlushToNoMore(r)      BY <1>5, FlushToNoMorePreserves
  <1>6. CASE WriteSucceeds(r) \/ WriteFails(r)   BY <1>6, WritePreserves
  <1>7. CASE FirstPassReturns(r)   BY <1>7, FirstPassReturnsPreserves
  <1>8. CASE SecondPassReturns(r)  BY <1>8, SecondPassReturnsPreserves
  <1>9. CASE ThreadExits(r)        BY <1>9, ThreadExitsPreserves
  <1> QED BY <1>1, <1>2, <1>3, <1>4, <1>5, <1>6, <1>7, <1>8, <1>9 DEF ReaderStep

\* Every step of ClearLogsByUid().
LEMMA ClearStepPreserves ==
    ASSUME Parts, ClearStep, delivered' = delivered
    PROVE  Parts'
  <1>1. CASE ClearSpliceChunk   BY <1>1, ClearSpliceChunkPreserves
  <1>2. CASE ClearOpenChunk     BY <1>2, ClearOpenChunkPreserves
  <1>3. CASE ClearEntry         BY <1>3, ClearEntryPreserves
  <1>4. CASE ClearEraseChunk    BY <1>4, ClearEraseChunkPreserves
  <1>5. CASE ClearSwap          BY <1>5, ClearSwapPreserves
  <1> QED BY <1>1, <1>2, <1>3, <1>4, <1>5 DEF ClearStep

\* Every step of a writer or a command.
LEMMA BufferNextPreserves ==
    ASSUME Parts, BufferNext, delivered' = delivered
    PROVE  Parts'
  <1>1. ASSUME NEW w \in Writers, TakeSequence(w) PROVE Parts'
    BY <1>1, TakeSequencePreserves
  <1>2. ASSUME NEW w \in Writers, Log(w) PROVE Parts'
    BY <1>2, LogPreserves
  <1>3. ASSUME NEW i \in LogIds, ClearAll(i) PROVE Parts'
    BY <1>3, ClearAllPreserves
  <1>4. ASSUME NEW i \in LogIds, NEW size \in Sizes, SetSize(i, size) PROVE Parts'
    BY <1>4, SetSizePreserves
  <1>5. ASSUME NEW i \in LogIds, NEW m \in Messages, UidClear(i, m.uid) PROVE Parts'
    <2>1. m.uid \in Nat
      BY MessageAssumption
    <2> QED BY <1>5, <2>1, UidClearPreserves
  <1>6. CASE ReinitTrigger
    BY <1>6, ReinitTriggerPreserves
  <1>7. CASE ClearStep
    BY <1>7, ClearStepPreserves
  <1> QED BY <1>1, <1>2, <1>3, <1>4, <1>5, <1>6, <1>7 DEF BufferNext

\* Every step of logd preserves IInv.
LEMMA NextIInv == IInv /\ [Next]_vars => IInv'
  <1> SUFFICES ASSUME IInv, [Next]_vars PROVE IInv'
    OBVIOUS
  <1>1. Parts
    BY PartsOfIInv
  <1>2. ASSUME NEW r \in Readers,
               \/ OnDataAvailable(r) \/ FindReturns(r) \/ CreateThread(r) \/ DoSocketDelete(r)
               \/ ReaderStep(r) \/ DeadlinePasses(r)
        PROVE  Parts'
    <2>1. CASE OnDataAvailable(r)   BY <1>1, <2>1, OnDataAvailablePreserves
    <2>2. CASE FindReturns(r)       BY <1>1, <2>2, FindReturnsPreserves
    <2>3. CASE CreateThread(r)      BY <1>1, <2>3, CreateThreadPreserves
    <2>4. CASE DoSocketDelete(r)    BY <1>1, <2>4, DoSocketDeletePreserves
    <2>5. CASE ReaderStep(r)        BY <1>1, <2>5, ReaderStepPreserves
    <2>6. CASE DeadlinePasses(r)    BY <1>1, <2>6, DeadlinePassesPreserves
    <2> QED BY <1>2, <2>1, <2>2, <2>3, <2>4, <2>5, <2>6
  <1>3. CASE BufferNext /\ UNCHANGED delivered
    BY <1>1, <1>3, BufferNextPreserves, IInvOfParts
  <1>4. CASE UNCHANGED vars
    BY <1>4 DEF vars, IInv, TypeOK, PositionsAreValid, ListsAreDisjoint, ClearIsConsistent,
                Clearing, ThreadsHaveStates
  <1> QED BY <1>2, <1>3, <1>4, IInvOfParts DEF Next

-----------------------------------------------------------------------------
(***************************************************************************)
(* The theorems                                                             *)
(***************************************************************************)

(***************************************************************************)
(* IInv holds in every reachable state, whatever the numbers of logs,       *)
(* clients, writers and chunks, the sizes and the messages: types, valid    *)
(* positions, disjoint lists, a consistent ClearLogsByUid() and threads     *)
(* that have the FlushToStates they work on.                                *)
(***************************************************************************)
THEOREM InductiveInvariant == Spec => []IInv
  BY InitIInv, NextIInv, PTL DEF Spec

\* Every variable keeps its type: no handler of logd leaves a list, a chunk, a
\* FlushToState or a thread malformed.
THEOREM TypeCorrect == Spec => []TypeOK
  <1>1. IInv => TypeOK
    BY DEF IInv
  <1> QED BY <1>1, InductiveInvariant, PTL

(***************************************************************************)
(* The iterator a FlushToState keeps while FlushTo() has released logd_lock *)
(* always refers to a chunk that is still in its log, at an offset that was *)
(* written: no Log(), Prune(), Clear(), SetSize() or ClearLogsByUid() that  *)
(* runs meanwhile leaves it dangling.                                       *)
(***************************************************************************)
THEOREM PositionsStayValid == Spec => []PositionsAreValid
  <1>1. IInv => PositionsAreValid
    BY DEF IInv
  <1> QED BY <1>1, InductiveInvariant, PTL
=============================================================================
