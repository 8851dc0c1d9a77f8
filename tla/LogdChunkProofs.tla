--------------------------- MODULE LogdChunkProofs ---------------------------
(***************************************************************************)
(* The chunks of the serialized log buffer: that their reference counts are *)
(* exact, that their contents are there when they are read or written, and  *)
(* that the lists own them.  ChunkInv is inductive relative to IInv.        *)
(***************************************************************************)
EXTENDS LogdProofs

-----------------------------------------------------------------------------
(***************************************************************************)
(* The operations of SerializedLogChunk keep a chunk sound                  *)
(***************************************************************************)

\* The readers of a chunk can be counted.
LEMMA ReadersCount ==
    ASSUME NEW c \in Chunk, IsFiniteSet(c.readers)
    PROVE  /\ Cardinality(c.readers) \in Nat
           /\ Cardinality(c.readers) = 0 <=> c.readers = {}
  BY FS_CardinalityType, FS_EmptySet

\* The fields of a chunk.
LEMMA ChunkFields ==
    ASSUME NEW c \in Chunk
    PROVE  /\ c.contents \in Nat /\ c.write_offset \in Nat /\ c.compressed_log \in Nat
           /\ c.reader_ref_count \in Int /\ c.writer_active \in BOOLEAN
           /\ c.entries \in Seq(Entry) /\ Len(c.entries) \in Nat
           /\ c.readers \subseteq States
           /\ c.highest_sequence_number \in Nat
  BY LenProperties DEF Chunk

\* A new chunk is sound and can be written.
LEMMA NewChunkIsSound ==
    ASSUME NEW size \in Nat
    PROVE  /\ IsSound(NewChunk(size), 0)
           /\ NewChunk(size).writer_active
           /\ NewChunk(size).write_offset = 0 /\ NewChunk(size).contents = size
  <1>1. Cardinality({}) = 0
    BY FS_EmptySet
  <1>2. Len(<< >>) = 0
    OBVIOUS
  <1> QED BY <1>1, <1>2 DEF NewChunk, IsSound

\* An entry for which CanLog() is true ends within the contents.
LEMMA LogEntryIsSound ==
    ASSUME NEW c \in Chunk, NEW copies \in Nat, IsSound(c, copies), NEW entry \in Entry,
           CanLog(c, total_len(entry)), entry.msg_len <= LOGGER_ENTRY_MAX_PAYLOAD
    PROVE  /\ IsSound(LogEntry(c, entry), copies)
           /\ LogEntry(c, entry).writer_active = c.writer_active
  <1> DEFINE d == LogEntry(c, entry)
  <1>1. /\ d.contents = c.contents /\ d.reader_ref_count = c.reader_ref_count
        /\ d.readers = c.readers /\ d.writer_active = c.writer_active
        /\ d.compressed_log = c.compressed_log
        /\ d.write_offset = c.write_offset + total_len(entry)
        /\ d.entries = Append(c.entries, entry)
    BY DEF LogEntry, Chunk
  <1> HIDE DEF d
  <1>2. d.write_offset <= d.contents
    BY <1>1 DEF CanLog
  <1>3. ASSUME NEW k \in 1 .. Len(d.entries)
        PROVE  d.entries[k].msg_len <= LOGGER_ENTRY_MAX_PAYLOAD
    <2>1. c.entries \in Seq(Entry)
      BY DEF Chunk
    <2>2. /\ Len(d.entries) = Len(c.entries) + 1 /\ Len(c.entries) \in Nat
          /\ \A m \in 1 .. Len(c.entries) : d.entries[m] = c.entries[m]
          /\ d.entries[Len(c.entries) + 1] = entry
      BY <1>1, <2>1, AppendProperties, LenProperties
    <2>3. k \in 1 .. Len(c.entries) \/ k = Len(c.entries) + 1
      BY <2>2
    <2>4. CASE k \in 1 .. Len(c.entries)
      BY <2>2, <2>4 DEF IsSound
    <2>5. CASE k = Len(c.entries) + 1
      <3>1. d.entries[k] = entry
        BY <2>2, <2>5, Zenon
      <3> QED BY <3>1, Zenon
    <2> QED BY <2>3, <2>4, <2>5
  <1>4. IsSound(d, copies)
    BY <1>1, <1>2, <1>3 DEF IsSound
  <1> QED BY <1>1, <1>4 DEF d

\* FinishWriting() frees the contents unless somebody reads them.
LEMMA FinishWritingIsSound ==
    ASSUME NEW c \in Chunk, NEW copies \in Nat, IsSound(c, copies), IsFiniteSet(c.readers),
           c.writer_active, NEW zsize \in Nat \ {0}
    PROVE  /\ IsSound(FinishWriting(c, zsize), copies)
           /\ ~FinishWriting(c, zsize).writer_active
  <1> DEFINE d == FinishWriting(c, zsize)
  <1>1. /\ d.contents = IF c.reader_ref_count = 0 THEN 0 ELSE c.contents
        /\ d.reader_ref_count = c.reader_ref_count
        /\ d.readers = c.readers /\ d.writer_active = FALSE
        /\ d.compressed_log = zsize
        /\ d.write_offset = c.write_offset /\ d.entries = c.entries
    BY DEF FinishWriting, Chunk
  <1> HIDE DEF d
  <1>2. IsSound(d, copies)
    BY <1>1, ReadersCount DEF IsSound
  <1> QED BY <1>1, <1>2 DEF d

\* The first reader of a finished chunk has its contents decompressed.
LEMMA IncReaderRefCountIsSound ==
    ASSUME NEW c \in Chunk, NEW copies \in Nat, IsSound(c, copies), IsFiniteSet(c.readers)
    PROVE  /\ IsSound(IncReaderRefCount(c), copies + 1)
           /\ IncReaderRefCount(c).writer_active = c.writer_active
  <1> DEFINE d == IncReaderRefCount(c)
  <1>1. /\ d.contents = IF c.reader_ref_count = 0 /\ ~c.writer_active
                        THEN c.write_offset ELSE c.contents
        /\ d.reader_ref_count = c.reader_ref_count + 1
        /\ d.readers = c.readers /\ d.writer_active = c.writer_active
        /\ d.compressed_log = c.compressed_log
        /\ d.write_offset = c.write_offset /\ d.entries = c.entries
    BY DEF IncReaderRefCount, Chunk
  <1> HIDE DEF d
  <1>2. IsSound(d, copies + 1)
    <2>1. Cardinality(c.readers) \in Nat /\ c.write_offset \in Nat
      BY ReadersCount, ChunkFields
    <2>2. CASE c.writer_active
      BY <1>1, <2>1, <2>2 DEF IsSound
    <2>3. CASE ~c.writer_active
      BY <1>1, <2>1, <2>3 DEF IsSound
    <2> QED BY <2>2, <2>3
  <1> QED BY <1>1, <1>2 DEF d

\* The last reader of a finished chunk frees its contents.
LEMMA DecReaderRefCountIsSound ==
    ASSUME NEW c \in Chunk, NEW copies \in Nat, IsSound(c, copies + 1), IsFiniteSet(c.readers)
    PROVE  /\ IsSound(DecReaderRefCount(c), copies)
           /\ DecReaderRefCount(c).writer_active = c.writer_active
  <1> DEFINE d == DecReaderRefCount(c)
  <1>1. /\ d.contents = IF c.reader_ref_count = 1 /\ ~c.writer_active THEN 0 ELSE c.contents
        /\ d.reader_ref_count = c.reader_ref_count - 1
        /\ d.readers = c.readers /\ d.writer_active = c.writer_active
        /\ d.compressed_log = c.compressed_log
        /\ d.write_offset = c.write_offset /\ d.entries = c.entries
    BY DEF DecReaderRefCount, Chunk
  <1> HIDE DEF d
  <1>2. IsSound(d, copies)
    <2>1. Cardinality(c.readers) \in Nat
      BY ReadersCount
    <2>2. CASE c.writer_active
      BY <1>1, <2>1, <2>2 DEF IsSound
    <2>3. CASE ~c.writer_active
      <3>1. CASE c.reader_ref_count = 1
        BY <1>1, <2>1, <2>3, <3>1 DEF IsSound
      <3>2. CASE c.reader_ref_count # 1
        BY <1>1, <2>1, <2>3, <3>2 DEF IsSound
      <3> QED BY <3>1, <3>2
    <2> QED BY <2>2, <2>3
  <1> QED BY <1>1, <1>2 DEF d

\* AttachReader() of a state that is not attached yet.
LEMMA AttachReaderIsSound ==
    ASSUME NEW c \in Chunk, NEW copies \in Nat, IsSound(c, copies), IsFiniteSet(c.readers),
           NEW s, s \notin c.readers
    PROVE  /\ IsSound(AttachReader(c, s), copies)
           /\ AttachReader(c, s).writer_active = c.writer_active
  <1> DEFINE d == AttachReader(c, s)
  <1>1. /\ d.contents = IF c.reader_ref_count = 0 /\ ~c.writer_active
                        THEN c.write_offset ELSE c.contents
        /\ d.reader_ref_count = c.reader_ref_count + 1
        /\ d.readers = c.readers \cup {s} /\ d.writer_active = c.writer_active
        /\ d.compressed_log = c.compressed_log
        /\ d.write_offset = c.write_offset /\ d.entries = c.entries
    BY DEF AttachReader, IncReaderRefCount, Chunk
  <1>2. Cardinality(c.readers \cup {s}) = Cardinality(c.readers) + 1
    BY FS_AddElement
  <1> HIDE DEF d
  <1>3. IsSound(d, copies)
    BY <1>1, <1>2, ReadersCount, ChunkFields DEF IsSound
  <1> QED BY <1>1, <1>3 DEF d

\* DetachReader() of a state that is attached.
LEMMA DetachReaderIsSound ==
    ASSUME NEW c \in Chunk, NEW copies \in Nat, IsSound(c, copies), IsFiniteSet(c.readers),
           NEW s \in c.readers
    PROVE  /\ IsSound(DetachReader(c, s), copies)
           /\ DetachReader(c, s).writer_active = c.writer_active
  <1> DEFINE d == DetachReader(c, s)
  <1>1. /\ d.contents = IF c.reader_ref_count = 1 /\ ~c.writer_active THEN 0 ELSE c.contents
        /\ d.reader_ref_count = c.reader_ref_count - 1
        /\ d.readers = c.readers \ {s} /\ d.writer_active = c.writer_active
        /\ d.compressed_log = c.compressed_log
        /\ d.write_offset = c.write_offset /\ d.entries = c.entries
    BY DEF DetachReader, DecReaderRefCount, Chunk
  <1>2. /\ Cardinality(c.readers \ {s}) = Cardinality(c.readers) - 1
        /\ Cardinality(c.readers) \in Nat /\ Cardinality(c.readers) # 0
    BY FS_RemoveElement, ReadersCount
  <1> HIDE DEF d
  <1>3. IsSound(d, copies)
    BY <1>1, <1>2, ChunkFields DEF IsSound
  <1> QED BY <1>1, <1>3 DEF d

\* NotifyReadersOfPrune() takes one reference off for every reader.
LEMMA WithoutReadersIsSound ==
    ASSUME NEW c \in Chunk, NEW copies \in Nat, IsSound(c, copies), IsFiniteSet(c.readers)
    PROVE  /\ IsSound(WithoutReaders(c), copies)
           /\ WithoutReaders(c).writer_active = c.writer_active
  <1> DEFINE d == WithoutReaders(c)
  <1>1. /\ d.contents = IF c.readers # {} /\ c.reader_ref_count = Cardinality(c.readers)
                           /\ ~c.writer_active
                        THEN 0 ELSE c.contents
        /\ d.reader_ref_count = c.reader_ref_count - Cardinality(c.readers)
        /\ d.readers = {} /\ d.writer_active = c.writer_active
        /\ d.compressed_log = c.compressed_log
        /\ d.write_offset = c.write_offset /\ d.entries = c.entries
    BY DEF WithoutReaders, Chunk
  <1>2. Cardinality({}) = 0
    BY FS_EmptySet
  <1> HIDE DEF d
  <1>3. IsSound(d, copies)
    <2>1. Cardinality(c.readers) \in Nat /\ (Cardinality(c.readers) = 0 <=> c.readers = {})
      BY ReadersCount
    <2>2. CASE c.writer_active
      BY <1>1, <1>2, <2>1, <2>2 DEF IsSound
    <2>3. CASE ~c.writer_active
      <3>1. CASE c.readers = {}
        BY <1>1, <1>2, <2>1, <2>3, <3>1 DEF IsSound
      <3>2. CASE c.readers # {} /\ copies = 0
        BY <1>1, <1>2, <2>1, <2>3, <3>2 DEF IsSound
      <3>3. CASE c.readers # {} /\ copies # 0
        BY <1>1, <1>2, <2>1, <2>3, <3>3 DEF IsSound
      <3> QED BY <3>1, <3>2, <3>3
    <2> QED BY <2>2, <2>3
  <1> QED BY <1>1, <1>3 DEF d

-----------------------------------------------------------------------------
(***************************************************************************)
(* LogToLogBuffer()                                                         *)
(***************************************************************************)

\* The entry goes to the last chunk of the list, which has room for it.
LogsIntoLast(heap, list, entry, logged) ==
    LET last == list[Len(list)]
    IN  /\ list # << >>
        /\ CanLog(heap[last], total_len(entry))
        /\ logged.list = list
        /\ DOMAIN logged.heap = DOMAIN heap
        /\ logged.heap[last] = LogEntry(heap[last], entry)
        /\ \A c \in (DOMAIN heap) \ {last} : logged.heap[c] = heap[c]

\* The entry goes to the new chunk new, and the chunk before it is finished.
LogsIntoNew(heap, list, size, entry, zsize, logged, new) ==
    /\ new \in ChunkIds \ DOMAIN heap
    /\ logged.list = Append(list, new)
    /\ DOMAIN logged.heap = (DOMAIN heap) \cup {new}
    /\ logged.heap[new] = LogEntry(NewChunk(size \div kChunkSizeDivisor), entry)
    /\ list # << >> => /\ logged.heap[list[Len(list)]] =
                                FinishWriting(heap[list[Len(list)]], zsize)
                       /\ zsize \in CompressedSizes
    /\ \A c \in DOMAIN heap :
          list = << >> \/ c # list[Len(list)] => logged.heap[c] = heap[c]

\* LogToLogBuffer() does one or the other.
LEMMA LogToLogBufferCases ==
    ASSUME NEW heap,
           NEW list \in Seq(ChunkIds), Elements(list) \subseteq DOMAIN heap,
           NEW size, NEW entry, NEW zsize \in ZSizes(heap, list, entry),
           NeedsChunk(heap, list, entry) => CanAllocate(heap)
    PROVE  LET logged == LogToLogBuffer(heap, list, size, entry, zsize)
           IN  \/ LogsIntoLast(heap, list, entry, logged)
               \/ LogsIntoNew(heap, list, size, entry, zsize, logged, FreshChunk(heap))
  <1> DEFINE logged == LogToLogBuffer(heap, list, size, entry, zsize)
             last == list[Len(list)]
             new == FreshChunk(heap)
             chunk0 == NewChunk(size \div kChunkSizeDivisor)
  <1>1. list # << >> => last \in DOMAIN heap
    BY LastElement
  <1>2. CASE NeedsChunk(heap, list, entry)
    <2>1. new \in ChunkIds /\ new \notin DOMAIN heap
      BY <1>2, FreshChunkIsFresh
    <2> DEFINE finished == IF list = << >> THEN heap
                           ELSE [heap EXCEPT ![last] = FinishWriting(@, zsize)]
    <2>2. DOMAIN finished = DOMAIN heap
      OBVIOUS
    <2>3. /\ logged.heap = [Allocate(finished, new, chunk0) EXCEPT ![new] = LogEntry(@, entry)]
          /\ logged.list = Append(list, new)
      BY <1>2 DEF LogToLogBuffer, PushChunk
    <2>4. list # << >> => zsize \in CompressedSizes
      BY <1>2, Zenon DEF ZSizes
    <2>5. /\ list # << >> => finished[last] = FinishWriting(heap[last], zsize)
          /\ \A c \in DOMAIN heap : list = << >> \/ c # last => finished[c] = heap[c]
      BY <1>1
    <2> HIDE DEF logged, new, chunk0, finished
    <2>6. DOMAIN logged.heap = (DOMAIN heap) \cup {new}
      BY <2>2, <2>3 DEF Allocate
    <2>7. logged.heap[new] = LogEntry(chunk0, entry)
      BY <2>3 DEF Allocate
    <2>8. \A c \in DOMAIN heap : logged.heap[c] = finished[c]
      BY <2>1, <2>2, <2>3 DEF Allocate
    <2>9. LogsIntoNew(heap, list, size, entry, zsize, logged, new)
      BY <1>1, <2>1, <2>3, <2>4, <2>5, <2>6, <2>7, <2>8 DEF LogsIntoNew, chunk0
    <2> QED BY <2>9 DEF logged, new
  <1>3. CASE ~NeedsChunk(heap, list, entry)
    <2>1. list # << >> /\ CanLog(heap[last], total_len(entry))
      BY <1>3 DEF NeedsChunk
    <2>2. /\ logged.heap = [heap EXCEPT ![last] = LogEntry(@, entry)]
          /\ logged.list = list
      BY <1>3 DEF LogToLogBuffer
    <2> HIDE DEF logged
    <2>3. LogsIntoLast(heap, list, entry, logged)
      BY <1>1, <2>1, <2>2 DEF LogsIntoLast
    <2> QED BY <2>3 DEF logged
  <1> QED BY <1>2, <1>3

HeapIsSound(heap, copied) ==
    \A c \in DOMAIN heap : IsSound(heap[c], IF c \in copied THEN 1 ELSE 0)

\* A new chunk has room for any entry: see CapacityAssumption.
LEMMA NewChunkCanLog ==
    ASSUME NEW size, size \div kChunkSizeDivisor \in Nat,
           SIZEOF_ENTRY + LOGGER_ENTRY_MAX_PAYLOAD <= size \div kChunkSizeDivisor,
           NEW entry \in Entry, entry.msg_len <= LOGGER_ENTRY_MAX_PAYLOAD
    PROVE  LET new == LogEntry(NewChunk(size \div kChunkSizeDivisor), entry)
           IN  /\ new \in Chunk /\ new.readers = {} /\ IsSound(new, 0) /\ new.writer_active
               /\ new.entries = <<entry>> /\ new.contents = size \div kChunkSizeDivisor
               /\ new.highest_sequence_number = entry.sequence
               /\ new.compressed_log = 0
  <1> DEFINE room == size \div kChunkSizeDivisor
             c == NewChunk(room)
             new == LogEntry(c, entry)
  <1>1. c \in Chunk /\ c.readers = {} /\ c.entries = << >>
    BY NewChunkType
  <1>2. IsSound(c, 0) /\ c.writer_active /\ c.write_offset = 0 /\ c.contents = room
    BY NewChunkIsSound
  <1>3. CanLog(c, total_len(entry))
    <2>1. c.write_offset = 0 /\ c.contents = room /\ room \in Nat
      BY <1>2
    <2>2. SIZEOF_ENTRY + entry.msg_len <= room
      <3>1. SIZEOF_ENTRY \in Nat /\ entry.msg_len \in Nat /\ LOGGER_ENTRY_MAX_PAYLOAD \in Nat
        BY SizeofAssumption, SizeAssumption DEF Entry
      <3> HIDE DEF room
      <3> QED BY <3>1 DEF room
    <2> HIDE DEF room, c
    <2> QED BY <2>1, <2>2, SizeofAssumption DEF CanLog, total_len, Entry
  <1>4. IsSound(new, 0) /\ new.writer_active = c.writer_active
    BY <1>1, <1>2, <1>3, LogEntryIsSound
  <1>5. new \in Chunk /\ new.readers = {}
    BY <1>1, LogEntryType
  <1>6. /\ new.entries = Append(c.entries, entry) /\ new.contents = c.contents
        /\ new.highest_sequence_number = entry.sequence /\ new.compressed_log = c.compressed_log
    BY <1>1 DEF LogEntry, Chunk
  <1>7. c.compressed_log = 0
    BY DEF NewChunk
  <1>8. Append(<< >>, entry) = <<entry>>
    OBVIOUS
  <1> HIDE DEF new, c
  <1> QED BY <1>1, <1>2, <1>4, <1>5, <1>6, <1>7, <1>8 DEF new, c

\* LogToLogBuffer() keeps the heap sound and the newest chunk of the list writable.
LEMMA LogToLogBufferIsSound ==
    ASSUME NEW heap, IsHeap(heap), NEW copied \in SUBSET DOMAIN heap, HeapIsSound(heap, copied),
           NEW list \in Seq(ChunkIds), Distinct(list), Elements(list) \subseteq DOMAIN heap,
           NewestIsWritable(list, heap),
           NEW size, size \div kChunkSizeDivisor \in Nat,
           SIZEOF_ENTRY + LOGGER_ENTRY_MAX_PAYLOAD <= size \div kChunkSizeDivisor,
           NEW entry \in Entry, entry.msg_len <= LOGGER_ENTRY_MAX_PAYLOAD,
           NEW zsize \in ZSizes(heap, list, entry),
           NeedsChunk(heap, list, entry) => CanAllocate(heap)
    PROVE  LET logged == LogToLogBuffer(heap, list, size, entry, zsize)
           IN  /\ HeapIsSound(logged.heap, copied)
               /\ NewestIsWritable(logged.list, logged.heap)
               /\ DOMAIN logged.heap \subseteq (DOMAIN heap) \cup Elements(logged.list)
               /\ \A c \in (DOMAIN heap) \ Elements(list) : logged.heap[c] = heap[c]
               /\ \A c \in (DOMAIN logged.heap) \ DOMAIN heap : logged.heap[c].readers = {}
  <1> DEFINE logged == LogToLogBuffer(heap, list, size, entry, zsize)
             last == list[Len(list)]
             new == FreshChunk(heap)
  <1>1. list # << >> => last \in Elements(list) /\ last \in DOMAIN heap
    BY LastElement
  <1>2. \A c \in DOMAIN heap : heap[c] \in Chunk /\ IsFiniteSet(heap[c].readers)
    BY DEF IsHeap
  <1>3. \/ LogsIntoLast(heap, list, entry, logged)
        \/ LogsIntoNew(heap, list, size, entry, zsize, logged, new)
    BY LogToLogBufferCases
  <1> HIDE DEF logged, new
  <1> SUFFICES /\ HeapIsSound(logged.heap, copied)
               /\ NewestIsWritable(logged.list, logged.heap)
               /\ DOMAIN logged.heap \subseteq (DOMAIN heap) \cup Elements(logged.list)
               /\ \A c \in (DOMAIN heap) \ Elements(list) : logged.heap[c] = heap[c]
               /\ \A c \in (DOMAIN logged.heap) \ DOMAIN heap : logged.heap[c].readers = {}
    BY DEF logged
  <1>4. CASE LogsIntoLast(heap, list, entry, logged)
    <2>1. /\ IsSound(LogEntry(heap[last], entry), IF last \in copied THEN 1 ELSE 0)
          /\ LogEntry(heap[last], entry).writer_active = heap[last].writer_active
      BY <1>1, <1>2, <1>4, LogEntryIsSound DEF LogsIntoLast, HeapIsSound
    <2>2. HeapIsSound(logged.heap, copied)
      BY <1>1, <1>4, <2>1 DEF LogsIntoLast, HeapIsSound
    <2>3. NewestIsWritable(logged.list, logged.heap)
      BY <1>1, <1>4, <2>1 DEF LogsIntoLast, NewestIsWritable
    <2> QED BY <1>1, <1>4, <2>2, <2>3 DEF LogsIntoLast
  <1>5. CASE LogsIntoNew(heap, list, size, entry, zsize, logged, new)
    <2>1. /\ new \in ChunkIds /\ new \notin DOMAIN heap /\ new \notin Elements(list)
          /\ new \notin copied
      BY <1>5 DEF LogsIntoNew
    <2>2. /\ logged.heap[new].readers = {} /\ IsSound(logged.heap[new], 0)
          /\ logged.heap[new].writer_active
      BY <1>5, NewChunkCanLog DEF LogsIntoNew
    <2>3. ASSUME list # << >>
          PROVE  /\ IsSound(logged.heap[last], IF last \in copied THEN 1 ELSE 0)
                 /\ ~logged.heap[last].writer_active
      <3>1. zsize \in Nat \ {0} /\ logged.heap[last] = FinishWriting(heap[last], zsize)
        BY <1>5, <2>3, SizeAssumption DEF LogsIntoNew
      <3>2. heap[last].writer_active
        BY <1>1, <2>3 DEF NewestIsWritable
      <3>3. IsSound(heap[last], IF last \in copied THEN 1 ELSE 0)
        BY <1>1, <2>3 DEF HeapIsSound
      <3> QED BY <1>1, <1>2, <2>3, <3>1, <3>2, <3>3, FinishWritingIsSound
    <2>4. /\ logged.list = Append(list, new) /\ DOMAIN logged.heap = (DOMAIN heap) \cup {new}
          /\ \A c \in DOMAIN heap : list = << >> \/ c # last => logged.heap[c] = heap[c]
      BY <1>5 DEF LogsIntoNew
    <2>5. /\ Elements(logged.list) = Elements(list) \cup {new}
          /\ logged.list[Len(logged.list)] = new
      <3>1. Elements(Append(list, new)) = Elements(list) \cup {new}
        BY <2>1, AppendElements
      <3>2. Append(list, new)[Len(Append(list, new))] = new
        BY <2>1, AppendProperties
      <3> QED BY <2>4, <3>1, <3>2
    <2>6. HeapIsSound(logged.heap, copied)
      BY <1>1, <2>1, <2>2, <2>3, <2>4 DEF HeapIsSound
    <2>7. NewestIsWritable(logged.list, logged.heap)
      <3>1. ASSUME NEW c \in Elements(list)
            PROVE  ~logged.heap[c].writer_active
        <4>1. list # << >>
          BY <3>1 DEF Elements
        <4>2. CASE c = last
          BY <2>3, <4>1, <4>2
        <4>3. CASE c # last
          BY <2>4, <3>1, <4>1, <4>3 DEF NewestIsWritable
        <4> QED BY <4>2, <4>3
      <3> QED BY <2>1, <2>2, <2>5, <3>1 DEF NewestIsWritable
    <2>8. \A c \in (DOMAIN heap) \ Elements(list) : logged.heap[c] = heap[c]
      BY <1>1, <2>4
    <2> QED BY <2>2, <2>4, <2>5, <2>6, <2>7, <2>8
  <1> QED BY <1>3, <1>4, <1>5

-----------------------------------------------------------------------------
(***************************************************************************)
(* The parts of ChunkInv                                                    *)
(***************************************************************************)

\* The lists are the logs and new_logs.
LEMMA ListedIn ==
    ChunksAreListed <=> \A c \in DOMAIN chunk : \/ c \in Elements(clear.new_logs)
                                                 \/ \E i \in LogIds : c \in Elements(logs[i])
  BY DEF ChunksAreListed, Lists

\* ListedIn, in the state after a step.
LEMMA ListedInPrimed ==
    ASSUME \A c \in DOMAIN chunk' : \/ c \in Elements(clear'.new_logs)
                                    \/ \E i \in LogIds : c \in Elements(logs'[i])
    PROVE  ChunksAreListed'
  BY DEF ChunksAreListed, Lists

\* While no log is being cleared, the references are those of the readers.
LEMMA SoundWithoutCopies ==
    ASSUME ~Clearing
    PROVE  ChunksAreSound <=> HeapIsSound(chunk, {})
  BY DEF ChunksAreSound, HeapIsSound, Copies, IsBeingCopied

\* SoundWithoutCopies, in the state after a step.
LEMMA SoundWithoutCopiesPrimed ==
    ASSUME ~Clearing'
    PROVE  ChunksAreSound' <=> HeapIsSound(chunk', {})
  BY DEF ChunksAreSound, HeapIsSound, Copies, IsBeingCopied

\* A state has its positions in different chunks, one in each of its logs.
LEMMA OnePositionPerChunk ==
    ASSUME Parts, NEW s \in DOMAIN state, NEW j \in DOMAIN state[s].log_positions,
           NEW i \in LogIds, state[s].log_positions[j].buffer_it \in Elements(logs[i])
    PROVE  j = i
  <1>1. j \in LogIds
    BY DEF Parts, StatesOK, IsState
  <1>2. state[s].log_positions[j].buffer_it \in Elements(logs[j])
    BY DEF Parts, PositionsAreValid
  <1> QED BY <1>1, <1>2 DEF Parts, ListsAreDisjoint

-----------------------------------------------------------------------------
(***************************************************************************)
(* Logging and pruning                                                      *)
(***************************************************************************)

\* What was logged at the end of the list of log i, before any of it is pruned
SoundlyLogged(i, logged) ==
    /\ Extends(chunk, logs[i], logged)
    /\ HeapIsSound(logged.heap, {})
    /\ NewestIsWritable(logged.list, logged.heap)
    /\ DOMAIN logged.heap \subseteq (DOMAIN chunk) \cup Elements(logged.list)
    /\ \A c \in (DOMAIN chunk) \ Elements(logs[i]) : logged.heap[c] = chunk[c]
    /\ \A c \in (DOMAIN logged.heap) \ DOMAIN chunk : logged.heap[c].readers = {}

\* The chunks P in front of list go.
LEMMA PruneKeepsChunks ==
    ASSUME Parts, ChunkInv, ~Clearing, ~Clearing', NEW i \in LogIds,
           NEW logged, SoundlyLogged(i, logged),
           NEW P, NEW list, PruneTo(i, logged, P, list),
           list # << >> => list[Len(list)] = logged.list[Len(logged.list)],
           clear' = clear
    PROVE  ChunksAreSound' /\ ReadersArePositioned' /\ ChunksAreListed' /\ NewestAreWritable'
  <1> DEFINE heap == logged.heap
  <1>1. /\ DOMAIN chunk' = (DOMAIN heap) \ P
        /\ \A c \in (DOMAIN heap) \ P : chunk'[c] = heap[c]
    BY DEF PruneTo, Free
  <1>2. ChunksAreSound'
    <2>1. HeapIsSound(chunk', {})
      BY <1>1 DEF SoundlyLogged, HeapIsSound
    <2> QED BY <2>1, SoundWithoutCopiesPrimed
  <1>3. /\ logs'[i] = list
        /\ \A j \in LogIds : j # i => logs'[j] = logs[j]
    BY DEF PruneTo, Parts, LogsOK
  <1>4. Elements(list) = Elements(logged.list) \ P
    BY DEF PruneTo
  <1>5. ChunksAreListed'
    <2>1. ASSUME NEW c \in DOMAIN chunk'
          PROVE  c \in Elements(clear.new_logs) \/ \E j \in LogIds : c \in Elements(logs'[j])
      <3>1. CASE c \in Elements(logged.list)
        BY <1>1, <1>3, <1>4, <2>1, <3>1
      <3>2. CASE c \notin Elements(logged.list)
        <4>1. c \in DOMAIN chunk
          BY <1>1, <2>1, <3>2 DEF SoundlyLogged
        <4>2. c \notin Elements(logs[i])
          BY <3>2 DEF SoundlyLogged, Extends
        <4>3. c \in Elements(clear.new_logs) \/ \E j \in LogIds : c \in Elements(logs[j])
          BY <4>1, ListedIn DEF ChunkInv
        <4> QED BY <1>3, <4>2, <4>3
      <3> QED BY <3>1, <3>2
    <2> QED BY <2>1, ListedInPrimed
  <1>6. NewestAreWritable'
    <2>1. ASSUME NEW j \in LogIds
          PROVE  NewestIsWritable(logs'[j], chunk')
      <3>1. CASE j = i
        <4> SUFFICES ASSUME NEW c \in Elements(list)
                     PROVE  chunk'[c].writer_active <=> c = list[Len(list)]
          BY <1>3, <3>1 DEF NewestIsWritable
        <4>1. c \in Elements(logged.list) /\ c \notin P /\ list # << >>
          BY <1>4 DEF Elements
        <4>2. c \in DOMAIN heap
          BY <4>1 DEF SoundlyLogged, Extends, Parts, ListsAreDisjoint
        <4> QED BY <1>1, <4>1, <4>2 DEF SoundlyLogged, NewestIsWritable
      <3>2. CASE j # i
        <4> SUFFICES ASSUME NEW c \in Elements(logs[j])
                     PROVE  chunk'[c].writer_active <=> c = logs[j][Len(logs[j])]
          BY <1>3, <3>2 DEF NewestIsWritable
        <4>1. c \in DOMAIN chunk /\ c \notin Elements(logs[i])
          BY <3>2 DEF Parts, ListsAreDisjoint
        <4>2. c \in DOMAIN heap /\ heap[c] = chunk[c] /\ c \notin P
          BY <4>1 DEF SoundlyLogged, Extends, PruneTo
        <4> QED BY <1>1, <4>2 DEF ChunkInv, NewestAreWritable, NewestIsWritable
      <3> QED BY <3>1, <3>2
    <2> QED BY <2>1 DEF NewestAreWritable
  <1>7. ReadersArePositioned'
    <2> SUFFICES ASSUME NEW c \in DOMAIN chunk', NEW s \in chunk'[c].readers
                 PROVE  /\ s \in DOMAIN state'
                        /\ \E j \in DOMAIN state'[s].log_positions :
                              state'[s].log_positions[j].buffer_it = c
      BY DEF ReadersArePositioned
    <2>1. c \in DOMAIN heap /\ c \notin P /\ s \in heap[c].readers
      BY <1>1
    <2>2. c \in DOMAIN chunk /\ s \in chunk[c].readers
      BY <2>1 DEF SoundlyLogged, Extends
    <2>3. s \in DOMAIN state
      BY <2>2 DEF ChunkInv, ReadersArePositioned
    <2>4. PICK j \in DOMAIN state[s].log_positions : state[s].log_positions[j].buffer_it = c
      BY <2>2 DEF ChunkInv, ReadersArePositioned
    <2>5. /\ DOMAIN state' = DOMAIN state
          /\ state'[s] = IF \E p \in P : s \in heap[p].readers THEN PruneState(state[s], i)
                                                              ELSE state[s]
      BY <2>3 DEF PruneTo, NotifyReadersOfPrune
    <2>6. CASE ~\E p \in P : s \in heap[p].readers
      BY <2>3, <2>4, <2>5, <2>6
    <2>7. ASSUME NEW p \in P, s \in heap[p].readers
          PROVE  \E m \in DOMAIN state'[s].log_positions : state'[s].log_positions[m].buffer_it = c
      <3>1. p \in Elements(logged.list) /\ p \in DOMAIN heap
        BY <2>7 DEF PruneTo, SoundlyLogged, Extends, Parts, ListsAreDisjoint
      <3>2. p \in DOMAIN chunk
        BY <2>7, <3>1 DEF SoundlyLogged
      <3>3. p \in Elements(logs[i]) /\ s \in chunk[p].readers
        BY <2>7, <3>1, <3>2 DEF SoundlyLogged, Extends
      <3>4. PICK k \in DOMAIN state[s].log_positions : state[s].log_positions[k].buffer_it = p
        BY <3>2, <3>3 DEF ChunkInv, ReadersArePositioned
      <3>5. k = i
        BY <2>3, <3>3, <3>4, OnePositionPerChunk
      <3>6. j # i
        BY <2>1, <2>4, <2>7, <3>4, <3>5
      <3>7. IsState(state[s])
        BY <2>3 DEF Parts, StatesOK
      <3>8. /\ DOMAIN PruneState(state[s], i).log_positions = (DOMAIN state[s].log_positions) \ {i}
            /\ PruneState(state[s], i).log_positions[j] = state[s].log_positions[j]
        BY <2>4, <3>6, <3>7, PruneStateType
      <3>9. state'[s] = PruneState(state[s], i)
        BY <2>5, <2>7
      <3> QED BY <2>4, <3>6, <3>8, <3>9
    <2> QED BY <2>3, <2>5, <2>6, <2>7
  <1> QED BY <1>2, <1>5, <1>6, <1>7

\* Pruning never takes the last chunk and leaves one before it.
LEMMA UnprunedLast ==
    ASSUME NEW S, NEW list \in Seq(S), NEW n \in 0 .. Len(list), Unpruned(list, n) # << >>
    PROVE  Unpruned(list, n)[Len(Unpruned(list, n))] = list[Len(list)]
  <1>1. Len(list) \in Nat
    BY LenProperties
  <1>2. CASE n = Len(list)
    <2>1. Unpruned(list, n) = << >>
      BY <1>1, <1>2, SubSeqProperties DEF Unpruned
    <2> QED BY <2>1
  <1>3. CASE n < Len(list)
    <2>1. /\ n + 1 \in 1 .. Len(list) + 1 /\ Len(list) \in (n + 1) - 1 .. Len(list)
          /\ n + 1 <= Len(list)
      BY <1>1, <1>3
    <2>2. /\ Len(Unpruned(list, n)) = Len(list) - n
          /\ \A k \in 1 .. Len(list) - n : Unpruned(list, n)[k] = list[n + k]
      BY <1>1, <1>3, <2>1, SubSeqProperties DEF Unpruned
    <2>3. Len(list) - n \in 1 .. Len(list) - n /\ n + (Len(list) - n) = Len(list)
      BY <1>1, <1>3
    <2> QED BY <2>2, <2>3
  <1> QED BY <1>1, <1>2, <1>3

\* A log of any valid size has room for the largest entry in a new chunk.
LEMMA ChunkHasRoom ==
    ASSUME Parts, NEW i \in LogIds
    PROVE  /\ max_size[i] \in Nat
           /\ max_size[i] \div kChunkSizeDivisor \in Nat
           /\ SIZEOF_ENTRY + LOGGER_ENTRY_MAX_PAYLOAD <= max_size[i] \div kChunkSizeDivisor
           /\ SIZEOF_CHUNK + max_size[i] \div kChunkSizeDivisor <= max_size[i]
  <1>1. max_size[i] \in Sizes /\ max_size[i] \in kLogBufferMinSize .. kLogBufferMaxSize
    BY DEF Parts, LogsOK
  <1>2. max_size[i] \in Nat /\ IsValidBufferSize(max_size[i])
    BY <1>1, SizeAssumption DEF IsValidBufferSize
  <1> QED BY <1>1, <1>2, CapacityAssumption, Zenon

\* The list of a log.
LEMMA ListOfLog ==
    ASSUME Parts, NEW i \in LogIds
    PROVE  /\ IsHeap(chunk) /\ logs[i] \in Seq(ChunkIds) /\ Distinct(logs[i])
           /\ Elements(logs[i]) \subseteq DOMAIN chunk
  BY DEF Parts, LogsOK, ListsAreDisjoint

\* Log() before MaybePrune().
LEMMA LogIsSound ==
    ASSUME Parts, ChunkInv, ~Clearing, NEW i \in LogIds, NEW entry \in Entry,
           entry.msg_len <= LOGGER_ENTRY_MAX_PAYLOAD,
           NEW zsize \in ZSizes(chunk, logs[i], entry),
           NeedsChunk(chunk, logs[i], entry) => CanAllocate(chunk)
    PROVE  SoundlyLogged(i, LogToLogBuffer(chunk, logs[i], max_size[i], entry, zsize))
  <1>1. /\ IsHeap(chunk) /\ logs[i] \in Seq(ChunkIds) /\ Distinct(logs[i])
        /\ Elements(logs[i]) \subseteq DOMAIN chunk
    BY ListOfLog
  <1>2. zsize \in Nat
    BY ZSizesType
  <1>3. /\ max_size[i] \in Nat /\ max_size[i] \div kChunkSizeDivisor \in Nat
        /\ SIZEOF_ENTRY + LOGGER_ENTRY_MAX_PAYLOAD <= max_size[i] \div kChunkSizeDivisor
    BY ChunkHasRoom
  <1>4. Extends(chunk, logs[i], LogToLogBuffer(chunk, logs[i], max_size[i], entry, zsize))
    BY <1>1, <1>2, <1>3, LogToLogBufferExtends
  <1>5. HeapIsSound(chunk, {}) /\ NewestIsWritable(logs[i], chunk)
    BY SoundWithoutCopies DEF ChunkInv, NewestAreWritable
  <1> DEFINE logged == LogToLogBuffer(chunk, logs[i], max_size[i], entry, zsize)
  <1>6. /\ HeapIsSound(logged.heap, {})
        /\ NewestIsWritable(logged.list, logged.heap)
        /\ DOMAIN logged.heap \subseteq (DOMAIN chunk) \cup Elements(logged.list)
        /\ \A c \in (DOMAIN chunk) \ Elements(logs[i]) : logged.heap[c] = chunk[c]
        /\ \A c \in (DOMAIN logged.heap) \ DOMAIN chunk : logged.heap[c].readers = {}
    <2>1. {} \in SUBSET DOMAIN chunk
      OBVIOUS
    <2> QED BY <1>1, <1>3, <1>5, <2>1, LogToLogBufferIsSound
  <1> HIDE DEF logged
  <1> QED BY <1>4, <1>6 DEF SoundlyLogged, logged

\* SetSize() and Clear() log nothing.
LEMMA NothingIsSound ==
    ASSUME Parts, ChunkInv, ~Clearing, NEW i \in LogIds
    PROVE  SoundlyLogged(i, [heap |-> chunk, list |-> logs[i]])
  <1>1. HeapIsSound(chunk, {}) /\ NewestIsWritable(logs[i], chunk)
    BY SoundWithoutCopies DEF ChunkInv, NewestAreWritable
  <1>2. Extends(chunk, logs[i], [heap |-> chunk, list |-> logs[i]])
    BY ExtendsItself
  <1> QED BY <1>1, <1>2 DEF SoundlyLogged

\* TakeSequence() cuts the message.
LEMMA TakeSequenceKeepsChunks ==
    ASSUME Parts, ChunkInv, NEW w \in Writers, TakeSequence(w)
    PROVE  ChunkInv'
  <1>1. PICK m \in Messages :
            LET entry == [sequence |-> sequence,
                          realtime |-> m.realtime,
                          uid      |-> m.uid,
                          pid      |-> m.pid,
                          msg_len  |-> IF m.msg_len > LOGGER_ENTRY_MAX_PAYLOAD
                                       THEN LOGGER_ENTRY_MAX_PAYLOAD ELSE m.msg_len]
            IN  pending' = [v \in (DOMAIN pending) \cup {w} |->
                               IF v = w THEN [log_id |-> m.log_id, entry |-> entry]
                                        ELSE pending[v]]
    BY DEF TakeSequence
  <1>2. m.msg_len \in Nat /\ LOGGER_ENTRY_MAX_PAYLOAD \in Nat
    BY MessageAssumption, SizeAssumption
  <1>3. PendingAreCut'
    BY <1>1, <1>2 DEF PendingAreCut, ChunkInv
  <1> QED BY <1>3 DEF TakeSequence, ChunkInv, ChunksAreSound, Copies, IsBeingCopied, Clearing,
                      ReadersArePositioned, ChunksAreListed, Lists, NewestAreWritable

\* Log() and its MaybePrune().
LEMMA LogKeepsChunks ==
    ASSUME Parts, ChunkInv, NEW w \in Writers, Log(w)
    PROVE  ChunkInv'
  <1> DEFINE i == pending[w].log_id
             entry == pending[w].entry
  <1>1. i \in LogIds /\ entry \in Entry /\ w \in DOMAIN pending
    BY DEF Log, Parts, WritersOK
  <1>2. PICK zsize \in ZSizes(chunk, logs[i], entry) :
            LET logged == LogToLogBuffer(chunk, logs[i], max_size[i], entry, zsize)
            IN  \E n \in 0 .. Len(logged.list) :
                  /\ NeedsChunk(chunk, logs[i], entry) => CanAllocate(chunk)
                  /\ chunk' = Free(logged.heap, Pruned(logged.list, n))
                  /\ logs' = [logs EXCEPT ![i] = Unpruned(logged.list, n)]
                  /\ state' = NotifyReadersOfPrune(i, logged.heap, Pruned(logged.list, n))
    BY DEF Log
  <1> DEFINE logged == LogToLogBuffer(chunk, logs[i], max_size[i], entry, zsize)
  <1>3. PICK n \in 0 .. Len(logged.list) :
            /\ NeedsChunk(chunk, logs[i], entry) => CanAllocate(chunk)
            /\ chunk' = Free(logged.heap, Pruned(logged.list, n))
            /\ logs' = [logs EXCEPT ![i] = Unpruned(logged.list, n)]
            /\ state' = NotifyReadersOfPrune(i, logged.heap, Pruned(logged.list, n))
    BY <1>2
  <1>4. ~Clearing /\ ~Clearing' /\ clear' = clear
    BY DEF Log, LockFree, Clearing
  <1>5. SoundlyLogged(i, logged)
    BY <1>1, <1>2, <1>3, <1>4, LogIsSound DEF ChunkInv, PendingAreCut
  <1> HIDE DEF logged, i, entry
  <1>6. PruneTo(i, logged, Pruned(logged.list, n), Unpruned(logged.list, n))
    BY <1>3, <1>5, UnprunedElements DEF PruneTo, SoundlyLogged, Extends
  <1>7. Unpruned(logged.list, n) # << >> =>
            Unpruned(logged.list, n)[Len(Unpruned(logged.list, n))] = logged.list[Len(logged.list)]
    BY <1>3, <1>5, UnprunedLast DEF SoundlyLogged, Extends
  <1>8. ChunksAreSound' /\ ReadersArePositioned' /\ ChunksAreListed' /\ NewestAreWritable'
    BY <1>1, <1>4, <1>5, <1>6, <1>7, PruneKeepsChunks
  <1>9. PendingAreCut'
    BY DEF Log, ChunkInv, PendingAreCut
  <1> QED BY <1>8, <1>9 DEF ChunkInv

\* SetSize() and its MaybePrune().
LEMMA SetSizeKeepsChunks ==
    ASSUME Parts, ChunkInv, NEW i \in LogIds, NEW size \in Sizes, SetSize(i, size)
    PROVE  ChunkInv'
  <1>1. PICK n \in 0 .. Len(logs[i]) :
            /\ chunk' = Free(chunk, Pruned(logs[i], n))
            /\ logs' = [logs EXCEPT ![i] = Unpruned(logs[i], n)]
            /\ state' = NotifyReadersOfPrune(i, chunk, Pruned(logs[i], n))
    BY DEF SetSize
  <1> DEFINE logged == [heap |-> chunk, list |-> logs[i]]
  <1>2. ~Clearing /\ ~Clearing' /\ clear' = clear /\ pending' = pending
    BY DEF SetSize, LockFree, Clearing
  <1>3. SoundlyLogged(i, logged)
    BY <1>2, NothingIsSound
  <1>4. logs[i] \in Seq(ChunkIds) /\ Distinct(logs[i])
    BY ListOfLog
  <1>5. PruneTo(i, logged, Pruned(logs[i], n), Unpruned(logs[i], n))
    BY <1>1, <1>4, UnprunedElements DEF PruneTo
  <1>6. Unpruned(logs[i], n) # << >> =>
            Unpruned(logs[i], n)[Len(Unpruned(logs[i], n))] = logged.list[Len(logged.list)]
    BY <1>1, <1>4, UnprunedLast
  <1>7. ChunksAreSound' /\ ReadersArePositioned' /\ ChunksAreListed' /\ NewestAreWritable'
    <2> HIDE DEF logged
    <2> QED BY <1>2, <1>3, <1>5, <1>6, PruneKeepsChunks
  <1> QED BY <1>2, <1>7 DEF ChunkInv, PendingAreCut

\* Clear() of a whole log.
LEMMA ClearAllKeepsChunks ==
    ASSUME Parts, ChunkInv, NEW i \in LogIds, ClearAll(i)
    PROVE  ChunkInv'
  <1> DEFINE logged == [heap |-> chunk, list |-> logs[i]]
  <1>1. ~Clearing /\ ~Clearing' /\ clear' = clear /\ pending' = pending
    BY DEF ClearAll, LockFree, Clearing
  <1>2. SoundlyLogged(i, logged)
    BY <1>1, NothingIsSound
  <1>3. PruneTo(i, logged, Elements(logs[i]), << >>)
    <2>1. << >> \in Seq(ChunkIds) /\ Distinct(<< >>) /\ Elements(<< >>) = {}
      BY DEF Distinct, Elements
    <2> QED BY <2>1 DEF PruneTo, ClearAll
  <1>4. ChunksAreSound' /\ ReadersArePositioned' /\ ChunksAreListed' /\ NewestAreWritable'
    <2> HIDE DEF logged
    <2> QED BY <1>1, <1>2, <1>3, PruneKeepsChunks
  <1> QED BY <1>1, <1>4 DEF ChunkInv, PendingAreCut

\* A step that leaves the chunks, the lists and the positions alone.
LEMMA ChunksUnchanged ==
    ASSUME ChunkInv, UNCHANGED <<chunk, logs, state, pending>>,
           \/ clear' = clear /\ logd_lock' = logd_lock
           \/ clear' = clear /\ ~Clearing /\ ~Clearing'
    PROVE  ChunkInv'
  <1>1. clear' = clear /\ (Clearing' <=> Clearing)
    BY DEF Clearing
  <1>2. ChunksAreSound'
    BY <1>1 DEF ChunkInv, ChunksAreSound, Copies, IsBeingCopied
  <1>3. NewestAreWritable'
    BY <1>1 DEF ChunkInv, NewestAreWritable
  <1>4. ReadersArePositioned' /\ ChunksAreListed' /\ PendingAreCut'
    BY <1>1 DEF ChunkInv, ReadersArePositioned, ChunksAreListed, Lists, PendingAreCut
  <1> QED BY <1>2, <1>3, <1>4 DEF ChunkInv

-----------------------------------------------------------------------------
(***************************************************************************)
(* ClearLogsByUid()                                                         *)
(***************************************************************************)

\* UidClear() takes the lock and has copied nothing yet.
LEMMA UidClearKeepsChunks ==
    ASSUME Parts, ChunkInv, NEW i \in LogIds, NEW uid \in Nat, UidClear(i, uid)
    PROVE  ChunkInv'
  <1>1. ~Clearing /\ Clearing'
    BY DEF UidClear, LockFree, Clearing
  <1>2. /\ clear'.new_logs = << >> /\ clear'.entry = 0 /\ clear'.log_id = i
        /\ clear'.contains_uid_logs = FALSE
    BY DEF UidClear, NoClear
  <1>3. UNCHANGED <<chunk, logs, state, pending>>
    BY DEF UidClear
  <1>4. clear.new_logs = << >>
    BY <1>1 DEF Parts, ClearIsConsistent
  <1>5. ChunksAreSound'
    BY <1>1, <1>2, <1>3 DEF ChunkInv, ChunksAreSound, Copies, IsBeingCopied
  <1>6. Elements(<< >>) = {}
    BY DEF Elements
  <1>7. NewestAreWritable'
    BY <1>2, <1>3, <1>6 DEF ChunkInv, NewestAreWritable, NewestIsWritable, NoneIsWritable
  <1>8. ChunksAreListed'
    BY <1>2, <1>3, <1>4 DEF ChunkInv, ChunksAreListed, Lists
  <1>9. ReadersArePositioned' /\ PendingAreCut'
    BY <1>3 DEF ChunkInv, ReadersArePositioned, PendingAreCut
  <1> QED BY <1>5, <1>7, <1>8, <1>9 DEF ChunkInv

\* The readers of the chunk ClearLogsByUid() comes to lose their position in it, and
\* no other.
LEMMA HeadLosesItsReaders ==
    ASSUME Parts, ChunkInv, Clearing, logs[clear.log_id] # << >>,
           state' = NotifyReadersOfPrune(clear.log_id, chunk, {Head(logs[clear.log_id])}),
           \A d \in DOMAIN chunk' :
              \/ chunk'[d].readers = {}
              \/ /\ d \in (DOMAIN chunk) \ {Head(logs[clear.log_id])}
                 /\ chunk'[d].readers = chunk[d].readers
    PROVE  ReadersArePositioned'
  <1> DEFINE i == clear.log_id
             c == Head(logs[i])
  <1>1. i \in LogIds /\ c \in Elements(logs[i]) /\ c \in DOMAIN chunk
    BY HeadOfClear
  <1> SUFFICES ASSUME NEW d \in DOMAIN chunk', NEW s \in chunk'[d].readers
               PROVE  /\ s \in DOMAIN state'
                      /\ \E j \in DOMAIN state'[s].log_positions :
                            state'[s].log_positions[j].buffer_it = d
    BY DEF ReadersArePositioned
  <1> HIDE DEF i, c
  <1>2. d \in DOMAIN chunk /\ d # c /\ s \in chunk[d].readers
    BY DEF i, c
  <1>3. s \in DOMAIN state
    BY <1>2 DEF ChunkInv, ReadersArePositioned
  <1>4. PICK j \in DOMAIN state[s].log_positions : state[s].log_positions[j].buffer_it = d
    BY <1>2 DEF ChunkInv, ReadersArePositioned
  <1>5. /\ DOMAIN state' = DOMAIN state
        /\ state'[s] = IF s \in chunk[c].readers THEN PruneState(state[s], i) ELSE state[s]
    BY <1>3 DEF NotifyReadersOfPrune, i, c
  <1>6. CASE s \notin chunk[c].readers
    BY <1>3, <1>4, <1>5, <1>6
  <1>7. CASE s \in chunk[c].readers
    <2>1. PICK k \in DOMAIN state[s].log_positions : state[s].log_positions[k].buffer_it = c
      BY <1>1, <1>7 DEF ChunkInv, ReadersArePositioned
    <2>2. k = i
      BY <1>1, <1>3, <2>1, OnePositionPerChunk
    <2>3. j # i
      BY <1>2, <1>4, <2>1, <2>2
    <2>4. IsState(state[s])
      BY <1>3 DEF Parts, StatesOK
    <2>5. /\ DOMAIN PruneState(state[s], i).log_positions = (DOMAIN state[s].log_positions) \ {i}
          /\ PruneState(state[s], i).log_positions[j] = state[s].log_positions[j]
      BY <1>1, <1>4, <2>3, <2>4, PruneStateType
    <2> QED BY <1>3, <1>4, <1>5, <1>7, <2>3, <2>5
  <1> QED BY <1>6, <1>7

\* The last element of a list with a tail is that of the tail.
LEMMA TailLast ==
    ASSUME NEW S, NEW list \in Seq(S), list # << >>
    PROVE  /\ Tail(list) = << >> => Head(list) = list[Len(list)]
           /\ Tail(list) # << >> => Tail(list)[Len(Tail(list))] = list[Len(list)]
  <1>1. Len(list) \in Nat \ {0}
    BY EmptySeq, LenProperties
  <1>2. /\ Head(list) = list[1] /\ Tail(list) \in Seq(S) /\ Len(Tail(list)) = Len(list) - 1
        /\ \A k \in 1 .. Len(Tail(list)) : Tail(list)[k] = list[k + 1]
    BY HeadTailProperties
  <1>3. Tail(list) = << >> <=> Len(Tail(list)) = 0
    BY <1>2, EmptySeq
  <1>4. CASE Len(list) = 1
    BY <1>2, <1>3, <1>4
  <1>5. CASE Len(list) # 1
    <2>1. Len(list) - 1 \in 1 .. Len(Tail(list)) /\ (Len(list) - 1) + 1 = Len(list)
      BY <1>1, <1>2, <1>5
    <2>2. Tail(list)[Len(list) - 1] = list[(Len(list) - 1) + 1]
      BY <1>2, <2>1
    <2>3. Len(Tail(list)) # 0
      BY <1>1, <1>2, <1>5
    <2> QED BY <1>2, <1>3, <2>1, <2>2, <2>3
  <1> QED BY <1>4, <1>5

\* The newest chunk of a list is that of its tail.
LEMMA NewestOfTail ==
    ASSUME NEW list \in Seq(ChunkIds), list # << >>, Distinct(list),
           NEW heap, NewestIsWritable(list, heap), NEW heap2,
           \A d \in Elements(Tail(list)) : heap2[d].writer_active = heap[d].writer_active
    PROVE  NewestIsWritable(Tail(list), heap2)
  <1> SUFFICES ASSUME NEW d \in Elements(Tail(list))
               PROVE  heap2[d].writer_active <=> d = Tail(list)[Len(Tail(list))]
    BY DEF NewestIsWritable
  <1>1. Elements(<< >>) = {}
    BY DEF Elements
  <1>2. Tail(list) # << >>
    BY <1>1, Zenon
  <1>3. d \in Elements(list)
    BY TailElements
  <1>4. Tail(list)[Len(Tail(list))] = list[Len(list)]
    BY <1>2, TailLast
  <1>5. heap[d].writer_active <=> d = list[Len(list)]
    BY <1>3 DEF NewestIsWritable
  <1> QED BY <1>4, <1>5

\* The next chunk is spliced into new_logs.
LEMMA ClearSpliceChunkKeepsChunks ==
    ASSUME Parts, ChunkInv, ClearSpliceChunk
    PROVE  ChunkInv'
  <1> DEFINE i == clear.log_id
             c == Head(logs[i])
             visited == DecReaderRefCount(IncReaderRefCount(WithoutReaders(chunk[c])))
  <1>1. /\ Clearing /\ Clearing' /\ clear.entry = 0 /\ logs[i] # << >>
        /\ ~clear.contains_uid_logs
    BY DEF ClearSpliceChunk, Clearing
  <1>2. /\ i \in LogIds
        /\ logs[i] \in Seq(ChunkIds) /\ Distinct(logs[i])
        /\ c \in Elements(logs[i]) /\ c \in DOMAIN chunk /\ c \in ChunkIds
        /\ Elements(Tail(logs[i])) = Elements(logs[i]) \ {c}
        /\ chunk[c] \in Chunk /\ IsFiniteSet(chunk[c].readers)
        /\ c \notin Elements(clear.new_logs)
        /\ \A j \in LogIds : j # i => c \notin Elements(logs[j])
    BY <1>1, HeadOfClear
  <1>3. /\ state' = NotifyReadersOfPrune(i, chunk, {c})
        /\ chunk' = [chunk EXCEPT ![c] = visited]
        /\ logs' = [logs EXCEPT ![i] = Tail(logs[i])]
        /\ clear' = [clear EXCEPT !.new_logs = Append(clear.new_logs, c)]
        /\ pending' = pending
    BY DEF ClearSpliceChunk
  <1>4. /\ IsSound(visited, 0) /\ visited.readers = {}
        /\ visited.writer_active = chunk[c].writer_active
    <2>1. IsSound(chunk[c], 0)
      BY <1>1, <1>2 DEF ChunkInv, ChunksAreSound, Copies, IsBeingCopied
    <2> DEFINE c1 == WithoutReaders(chunk[c])
               c2 == IncReaderRefCount(c1)
    <2>2. c1 \in Chunk /\ c1.readers = {} /\ IsFiniteSet(c1.readers)
      BY <1>2, WithoutReadersType, FS_EmptySet
    <2>3. IsSound(c1, 0) /\ c1.writer_active = chunk[c].writer_active
      BY <1>2, <2>1, WithoutReadersIsSound
    <2> HIDE DEF c1
    <2>4. IsSound(c2, 0 + 1) /\ c2.writer_active = c1.writer_active
      BY <2>2, <2>3, IncReaderRefCountIsSound
    <2>5. c2 \in Chunk /\ c2.readers = {} /\ IsFiniteSet(c2.readers)
      BY <2>2, RefCountType
    <2> HIDE DEF c2
    <2>6. IsSound(DecReaderRefCount(c2), 0) /\ DecReaderRefCount(c2).writer_active = c2.writer_active
      BY <2>4, <2>5, DecReaderRefCountIsSound
    <2>7. DecReaderRefCount(c2).readers = {}
      BY <2>5, RefCountType
    <2> QED BY <2>3, <2>4, <2>6, <2>7 DEF c1, c2
  <1> HIDE DEF visited, i, c
  <1>5. /\ DOMAIN chunk' = DOMAIN chunk /\ chunk'[c] = visited
        /\ \A d \in (DOMAIN chunk) \ {c} : chunk'[d] = chunk[d]
    BY <1>2, <1>3
  <1>6. /\ logs'[i] = Tail(logs[i]) /\ \A j \in LogIds : j # i => logs'[j] = logs[j]
    BY <1>2, <1>3 DEF Parts, LogsOK
  <1>7. /\ clear'.new_logs = Append(clear.new_logs, c) /\ clear'.entry = 0
        /\ ~clear'.contains_uid_logs /\ clear'.log_id = i
    BY <1>1, <1>3 DEF Parts, CommandsOK, i
  <1>8. clear.new_logs \in Seq(ChunkIds) /\ Distinct(clear.new_logs)
        /\ Elements(clear.new_logs) \subseteq DOMAIN chunk
    BY DEF Parts, CommandsOK, ListsAreDisjoint
  <1>9. /\ Elements(clear'.new_logs) = Elements(clear.new_logs) \cup {c}
        /\ clear'.new_logs[Len(clear'.new_logs)] = c
    BY <1>2, <1>7, <1>8, AppendElements, AppendProperties
  <1>10. ChunksAreSound'
    BY <1>1, <1>4, <1>5, <1>7 DEF ChunkInv, ChunksAreSound, Copies, IsBeingCopied
  <1>11. ReadersArePositioned'
    BY <1>1, <1>3, <1>4, <1>5, HeadLosesItsReaders DEF i, c
  <1>12. ChunksAreListed'
    <2>1. ASSUME NEW d \in DOMAIN chunk
          PROVE  d \in Elements(clear'.new_logs) \/ \E j \in LogIds : d \in Elements(logs'[j])
      <3>1. d \in Elements(clear.new_logs) \/ \E j \in LogIds : d \in Elements(logs[j])
        BY ListedIn DEF ChunkInv
      <3> QED BY <1>2, <1>6, <1>9, <3>1
    <2> QED BY <1>5, <2>1, ListedInPrimed
  <1>13. NewestAreWritable'
    <2>1. ASSUME NEW j \in LogIds, j # i
          PROVE  NewestIsWritable(logs'[j], chunk')
      <3>1. \A d \in Elements(logs[j]) : d \in DOMAIN chunk /\ d # c
        BY <1>2, <2>1 DEF Parts, ListsAreDisjoint
      <3> QED BY <1>5, <1>6, <2>1, <3>1 DEF ChunkInv, NewestAreWritable, NewestIsWritable
    <2>2. NewestIsWritable(logs'[i], chunk')
      <3>1. NewestIsWritable(logs[i], chunk)
        BY <1>2 DEF ChunkInv, NewestAreWritable
      <3>2. \A d \in Elements(Tail(logs[i])) : chunk'[d].writer_active = chunk[d].writer_active
        BY <1>2, <1>5 DEF Parts, ListsAreDisjoint
      <3>3. NewestIsWritable(Tail(logs[i]), chunk')
        BY <1>1, <1>2, <3>1, <3>2, NewestOfTail DEF i
      <3> QED BY <1>6, <3>3
    <2>3. NoneIsWritable(clear.new_logs, chunk)
      BY <1>1 DEF ChunkInv, NewestAreWritable, i
    <2>4. \A d \in Elements(clear.new_logs) : ~chunk'[d].writer_active /\ d # c
      BY <1>2, <1>5, <1>8, <2>3 DEF NoneIsWritable
    <2>5. chunk'[c].writer_active <=> c = logs[i][Len(logs[i])]
      BY <1>2, <1>4, <1>5 DEF ChunkInv, NewestAreWritable, NewestIsWritable
    <2>6. CASE Tail(logs[i]) = << >>
      <3>1. c = logs[i][Len(logs[i])]
        BY <1>1, <1>2, <2>6, TailLast DEF i, c
      <3>2. NewestIsWritable(clear'.new_logs, chunk')
        BY <1>9, <2>4, <2>5, <3>1 DEF NewestIsWritable
      <3> QED BY <1>6, <1>7, <2>1, <2>2, <2>6, <3>2 DEF NewestAreWritable
    <2>7. CASE Tail(logs[i]) # << >>
      <3>1. Tail(logs[i])[Len(Tail(logs[i]))] = logs[i][Len(logs[i])]
        BY <1>1, <1>2, <2>7, TailLast DEF i
      <3>2. Tail(logs[i])[Len(Tail(logs[i]))] \in Elements(Tail(logs[i]))
        BY <1>1, <1>2, <2>7, TailElements, LastElement DEF i
      <3>3. c # logs[i][Len(logs[i])]
        BY <1>2, <3>1, <3>2
      <3>4. NoneIsWritable(clear'.new_logs, chunk')
        BY <1>9, <2>4, <2>5, <3>3 DEF NoneIsWritable
      <3> QED BY <1>6, <1>7, <2>1, <2>2, <2>7, <3>4 DEF NewestAreWritable
    <2> QED BY <2>6, <2>7
  <1>14. PendingAreCut'
    BY <1>3 DEF ChunkInv, PendingAreCut
  <1> QED BY <1>10, <1>11, <1>12, <1>13, <1>14 DEF ChunkInv

\* The next chunk is opened, and a new one for what is copied from it.
LEMMA ClearOpenChunkKeepsChunks ==
    ASSUME Parts, ChunkInv, ClearOpenChunk
    PROVE  ChunkInv'
  <1> DEFINE i == clear.log_id
             c == Head(logs[i])
             new == FreshChunk(chunk)
             visited == IncReaderRefCount(WithoutReaders(chunk[c]))
             opened == [chunk EXCEPT ![c] = visited]
             empty == NewChunk(max_size[i] \div kChunkSizeDivisor)
  <1>1. Clearing /\ Clearing' /\ clear.entry = 0 /\ logs[i] # << >>
    BY DEF ClearOpenChunk, Clearing
  <1>2. /\ i \in LogIds
        /\ c \in Elements(logs[i]) /\ c \in DOMAIN chunk
        /\ chunk[c] \in Chunk /\ IsFiniteSet(chunk[c].readers)
        /\ c \notin Elements(clear.new_logs)
    BY <1>1, HeadOfClear
  <1>3. /\ state' = NotifyReadersOfPrune(i, chunk, {c})
        /\ logs' = logs /\ pending' = pending
        /\ \/ /\ clear.contains_uid_logs
              /\ chunk' = opened
              /\ clear' = [clear EXCEPT !.entry = 1]
           \/ /\ ~clear.contains_uid_logs
              /\ CanAllocate(chunk)
              /\ chunk' = Allocate(opened, new, empty)
              /\ clear' = [clear EXCEPT !.contains_uid_logs = TRUE, !.entry = 1,
                                        !.new_logs = Append(clear.new_logs, new)]
    BY DEF ClearOpenChunk
  <1>4. /\ IsSound(visited, 1) /\ visited.readers = {}
        /\ visited.writer_active = chunk[c].writer_active
    <2>1. IsSound(chunk[c], 0)
      BY <1>1, <1>2 DEF ChunkInv, ChunksAreSound, Copies, IsBeingCopied
    <2> DEFINE c1 == WithoutReaders(chunk[c])
    <2>2. c1 \in Chunk /\ c1.readers = {} /\ IsFiniteSet(c1.readers)
      BY <1>2, WithoutReadersType, FS_EmptySet
    <2>3. IsSound(c1, 0) /\ c1.writer_active = chunk[c].writer_active
      BY <1>2, <2>1, WithoutReadersIsSound
    <2> HIDE DEF c1
    <2>4. IsSound(IncReaderRefCount(c1), 0 + 1)
          /\ IncReaderRefCount(c1).writer_active = c1.writer_active
      BY <2>2, <2>3, IncReaderRefCountIsSound
    <2>5. IncReaderRefCount(c1).readers = {}
      BY <2>2, RefCountType
    <2> QED BY <2>3, <2>4, <2>5 DEF c1
  <1>5. IsSound(empty, 0) /\ empty.writer_active /\ empty.readers = {}
    <2>1. max_size[i] \div kChunkSizeDivisor \in Nat
      BY <1>2, ChunkHasRoom
    <2> QED BY <2>1, NewChunkIsSound, NewChunkType
  <1>6. CanAllocate(chunk) => new \in ChunkIds /\ new \notin DOMAIN chunk
    BY FreshChunkIsFresh
  <1> HIDE DEF visited, i, c, new, empty
  <1>7. DOMAIN opened = DOMAIN chunk /\ opened[c] = visited
        /\ \A d \in (DOMAIN chunk) \ {c} : opened[d] = chunk[d]
    BY <1>2
  <1> HIDE DEF opened
  <1>8. /\ clear'.entry = 1 /\ clear'.contains_uid_logs /\ clear'.log_id = i
    BY <1>3 DEF Parts, CommandsOK, i
  <1>9. /\ DOMAIN chunk \subseteq DOMAIN chunk' /\ chunk'[c] = visited
        /\ \A d \in (DOMAIN chunk) \ {c} : chunk'[d] = chunk[d]
        /\ \A d \in (DOMAIN chunk') \ DOMAIN chunk : chunk'[d] = empty
        /\ \A d \in DOMAIN chunk : chunk'[d].writer_active = chunk[d].writer_active
    BY <1>2, <1>3, <1>4, <1>6, <1>7 DEF Allocate
  <1>10. ChunksAreSound'
    <2> SUFFICES ASSUME NEW d \in DOMAIN chunk'
                 PROVE  IsSound(chunk'[d], IF d = c THEN 1 ELSE 0)
      BY <1>1, <1>3, <1>8 DEF ChunksAreSound, Copies, IsBeingCopied, i, c
    <2>1. CASE d = c
      BY <1>4, <1>9, <2>1
    <2>2. CASE d # c /\ d \in DOMAIN chunk
      BY <1>1, <1>9, <2>2 DEF ChunkInv, ChunksAreSound, Copies, IsBeingCopied
    <2>3. CASE d \notin DOMAIN chunk
      BY <1>2, <1>5, <1>9, <2>3
    <2> QED BY <2>1, <2>2, <2>3
  <1>11. ReadersArePositioned'
    <2>1. \A d \in DOMAIN chunk' : \/ chunk'[d].readers = {}
                                   \/ d \in (DOMAIN chunk) \ {c} /\ chunk'[d].readers = chunk[d].readers
      BY <1>4, <1>5, <1>9
    <2> QED BY <1>1, <1>3, <2>1, HeadLosesItsReaders DEF i, c
  <1>12. \A j \in LogIds : NewestIsWritable(logs'[j], chunk')
    <2>1. \A j \in LogIds : \A d \in Elements(logs[j]) : d \in DOMAIN chunk
      BY DEF Parts, ListsAreDisjoint
    <2> QED BY <1>3, <1>9, <2>1 DEF ChunkInv, NewestAreWritable, NewestIsWritable
  <1>13. clear.new_logs \in Seq(ChunkIds) /\ Distinct(clear.new_logs)
         /\ Elements(clear.new_logs) \subseteq DOMAIN chunk
    BY DEF Parts, CommandsOK, ListsAreDisjoint
  <1>14. /\ NewestIsWritable(clear'.new_logs, chunk')
         /\ (DOMAIN chunk') \ DOMAIN chunk \subseteq Elements(clear'.new_logs)
         /\ Elements(clear.new_logs) \subseteq Elements(clear'.new_logs)
    <2>1. CASE clear.contains_uid_logs
      <3>1. chunk' = opened /\ clear'.new_logs = clear.new_logs
        BY <1>3, <2>1 DEF Parts, CommandsOK
      <3>2. NewestIsWritable(clear.new_logs, chunk)
        BY <1>1, <2>1 DEF ChunkInv, NewestAreWritable
      <3> QED BY <1>7, <1>9, <1>13, <3>1, <3>2 DEF NewestIsWritable
    <2>2. CASE ~clear.contains_uid_logs
      <3>1. /\ chunk' = Allocate(opened, new, empty) /\ CanAllocate(chunk)
            /\ clear'.new_logs = Append(clear.new_logs, new)
        BY <1>3, <2>2 DEF Parts, CommandsOK
      <3>2. new \in ChunkIds /\ new \notin DOMAIN chunk
        BY <1>6, <3>1
      <3>3. /\ Elements(clear'.new_logs) = Elements(clear.new_logs) \cup {new}
            /\ clear'.new_logs[Len(clear'.new_logs)] = new
        BY <1>13, <3>1, <3>2, AppendElements, AppendProperties
      <3>4. NoneIsWritable(clear.new_logs, chunk)
        BY <1>1, <2>2 DEF ChunkInv, NewestAreWritable, i
      <3>5. DOMAIN chunk' = (DOMAIN chunk) \cup {new}
        BY <1>7, <3>1 DEF Allocate
      <3>6. chunk'[new].writer_active
        BY <1>5, <1>9, <3>2, <3>5
      <3>7. \A d \in Elements(clear.new_logs) : ~chunk'[d].writer_active /\ d # new
        BY <1>9, <1>13, <3>2, <3>4 DEF NoneIsWritable
      <3> QED BY <3>3, <3>5, <3>6, <3>7 DEF NewestIsWritable
    <2> QED BY <2>1, <2>2
  <1>15. NewestAreWritable'
    BY <1>8, <1>12, <1>14 DEF NewestAreWritable
  <1>16. ChunksAreListed'
    <2>1. ASSUME NEW d \in DOMAIN chunk'
          PROVE  d \in Elements(clear'.new_logs) \/ \E j \in LogIds : d \in Elements(logs'[j])
      <3>1. CASE d \in DOMAIN chunk
        <4>1. d \in Elements(clear.new_logs) \/ \E j \in LogIds : d \in Elements(logs[j])
          BY <3>1, ListedIn DEF ChunkInv
        <4> QED BY <1>3, <1>14, <4>1
      <3>2. CASE d \notin DOMAIN chunk
        BY <1>14, <2>1, <3>2
      <3> QED BY <3>1, <3>2
    <2> QED BY <2>1, ListedInPrimed
  <1>17. PendingAreCut'
    BY <1>3 DEF ChunkInv, PendingAreCut
  <1> QED BY <1>10, <1>11, <1>15, <1>16, <1>17 DEF ChunkInv

\* One entry is dropped, or logged again.
LEMMA ClearEntryKeepsChunks ==
    ASSUME Parts, ChunkInv, ClearEntry
    PROVE  ChunkInv'
  <1> DEFINE i == clear.log_id
             c == Head(logs[i])
             entry == chunk[c].entries[clear.entry]
  <1>1. /\ Clearing /\ Clearing' /\ clear.entry # 0 /\ clear.entry <= Len(chunk[c].entries)
        /\ UNCHANGED <<logs, pending, state, max_size>>
    BY DEF ClearEntry, Clearing
  <1>2. logs[i] # << >> /\ clear.contains_uid_logs
    BY <1>1 DEF Parts, ClearIsConsistent, ChunkInv, NewestAreWritable
  <1>3. /\ i \in LogIds
        /\ c \in Elements(logs[i]) /\ c \in DOMAIN chunk
        /\ chunk[c] \in Chunk
        /\ c \notin Elements(clear.new_logs)
    BY <1>1, <1>2, HeadOfClear
  <1>4. clear.entry \in 1 .. Len(chunk[c].entries)
    BY <1>1, <1>3, ChunkFields DEF Parts, CommandsOK
  <1>5. entry \in Entry
    BY <1>3, <1>4, ChunkFields, ElementOfSeq
  <1>6. entry.msg_len <= LOGGER_ENTRY_MAX_PAYLOAD
    BY <1>3, <1>4 DEF ChunkInv, ChunksAreSound, IsSound
  <1>7. PendingAreCut'
    BY <1>1 DEF ChunkInv, PendingAreCut
  <1>8. CASE chunk' = chunk /\ clear' = [clear EXCEPT !.entry = clear.entry + 1]
    <2>1. /\ clear'.new_logs = clear.new_logs /\ clear'.log_id = i
          /\ clear'.contains_uid_logs = clear.contains_uid_logs /\ clear'.entry = clear.entry + 1
          /\ clear.entry + 1 # 0
      BY <1>8 DEF Parts, CommandsOK
    <2>2. ChunksAreSound'
      BY <1>1, <1>8, <2>1 DEF ChunkInv, ChunksAreSound, Copies, IsBeingCopied
    <2>3. NewestAreWritable'
      BY <1>1, <1>2, <1>8, <2>1 DEF ChunkInv, NewestAreWritable
    <2>4. ChunksAreListed' /\ ReadersArePositioned'
      BY <1>1, <1>8, <2>1 DEF ChunkInv, ChunksAreListed, Lists, ReadersArePositioned
    <2> QED BY <1>7, <2>2, <2>3, <2>4 DEF ChunkInv
  <1>9. ASSUME NEW zsize \in ZSizes(chunk, clear.new_logs, entry),
               NeedsChunk(chunk, clear.new_logs, entry) => CanAllocate(chunk),
               chunk' = LogToLogBuffer(chunk, clear.new_logs, max_size[i], entry, zsize).heap,
               clear' = [clear EXCEPT !.entry = clear.entry + 1,
                    !.new_logs =
                        LogToLogBuffer(chunk, clear.new_logs, max_size[i], entry, zsize).list]
        PROVE  ChunkInv'
    <2> DEFINE list == clear.new_logs
               logged == LogToLogBuffer(chunk, list, max_size[i], entry, zsize)
    <2>1. /\ IsHeap(chunk) /\ list \in Seq(ChunkIds) /\ Distinct(list)
          /\ Elements(list) \subseteq DOMAIN chunk
      BY DEF Parts, CommandsOK, ListsAreDisjoint
    <2>2. NewestIsWritable(list, chunk)
      BY <1>1, <1>2 DEF ChunkInv, NewestAreWritable
    <2>3. HeapIsSound(chunk, {c})
      BY <1>1 DEF ChunkInv, ChunksAreSound, HeapIsSound, Copies, IsBeingCopied
    <2>4. /\ max_size[i] \in Nat /\ max_size[i] \div kChunkSizeDivisor \in Nat
          /\ SIZEOF_ENTRY + LOGGER_ENTRY_MAX_PAYLOAD <= max_size[i] \div kChunkSizeDivisor
      BY <1>3, ChunkHasRoom
    <2>5. zsize \in Nat
      BY ZSizesType
    <2>6. Extends(chunk, list, logged)
      BY <1>5, <1>9, <2>1, <2>4, <2>5, LogToLogBufferExtends
    <2>7. /\ HeapIsSound(logged.heap, {c})
          /\ NewestIsWritable(logged.list, logged.heap)
          /\ DOMAIN logged.heap \subseteq (DOMAIN chunk) \cup Elements(logged.list)
          /\ \A d \in (DOMAIN chunk) \ Elements(list) : logged.heap[d] = chunk[d]
          /\ \A d \in (DOMAIN logged.heap) \ DOMAIN chunk : logged.heap[d].readers = {}
      <3>1. {c} \in SUBSET DOMAIN chunk
        BY <1>3
      <3> HIDE DEF c, entry, i
      <3> QED BY <1>5, <1>6, <1>9, <2>1, <2>2, <2>3, <2>4, <3>1, LogToLogBufferIsSound
    <2>8. chunk' = logged.heap /\ clear' = [clear EXCEPT !.entry = clear.entry + 1,
                                                         !.new_logs = logged.list]
      BY <1>9
    <2> HIDE DEF logged, entry
    <2>9. /\ clear'.new_logs = logged.list /\ clear'.log_id = i
          /\ clear'.contains_uid_logs = clear.contains_uid_logs /\ clear'.entry = clear.entry + 1
          /\ clear.entry + 1 # 0
      BY <2>8 DEF Parts, CommandsOK
    <2>10. ChunksAreSound'
      BY <1>1, <2>7, <2>8, <2>9 DEF ChunksAreSound, HeapIsSound, Copies, IsBeingCopied
    <2>11. NewestAreWritable'
      <3>1. ASSUME NEW j \in LogIds
            PROVE  NewestIsWritable(logs[j], chunk')
        <4>1. \A d \in Elements(logs[j]) : d \in (DOMAIN chunk) \ Elements(list)
          BY DEF Parts, ListsAreDisjoint
        <4> QED BY <2>7, <2>8, <4>1 DEF ChunkInv, NewestAreWritable, NewestIsWritable
      <3> QED BY <1>1, <1>2, <2>7, <2>8, <2>9, <3>1 DEF NewestAreWritable
    <2>12. ChunksAreListed'
      <3>1. ASSUME NEW d \in DOMAIN chunk'
            PROVE  d \in Elements(clear'.new_logs) \/ \E j \in LogIds : d \in Elements(logs'[j])
        <4>1. CASE d \in DOMAIN chunk
          <5>1. d \in Elements(list) \/ \E j \in LogIds : d \in Elements(logs[j])
            BY <4>1, ListedIn DEF ChunkInv
          <5> QED BY <1>1, <2>6, <2>9, <5>1 DEF Extends
        <4>2. CASE d \notin DOMAIN chunk
          BY <2>7, <2>8, <2>9, <3>1, <4>2
        <4> QED BY <4>1, <4>2
      <3> QED BY <3>1, ListedInPrimed
    <2>13. ReadersArePositioned'
      <3>1. \A d \in DOMAIN chunk' : chunk'[d].readers = {} \/ (d \in DOMAIN chunk /\ chunk'[d].readers = chunk[d].readers)
        BY <2>6, <2>7, <2>8 DEF Extends
      <3> QED BY <1>1, <3>1 DEF ChunkInv, ReadersArePositioned
    <2> QED BY <1>7, <2>10, <2>11, <2>12, <2>13 DEF ChunkInv
  <1> QED BY <1>8, <1>9 DEF ClearEntry

\* The chunk whose entries were copied is erased, with the reference on it.
LEMMA ClearEraseChunkKeepsChunks ==
    ASSUME Parts, ChunkInv, ClearEraseChunk
    PROVE  ChunkInv'
  <1> DEFINE i == clear.log_id
             c == Head(logs[i])
  <1>1. Clearing /\ Clearing' /\ clear.entry # 0
    BY DEF ClearEraseChunk, Clearing
  <1>2. logs[i] # << >> /\ clear.contains_uid_logs
    BY <1>1 DEF Parts, ClearIsConsistent, ChunkInv, NewestAreWritable
  <1>3. /\ i \in LogIds
        /\ logs[i] \in Seq(ChunkIds) /\ Distinct(logs[i])
        /\ c \in Elements(logs[i]) /\ c \in DOMAIN chunk
        /\ Elements(Tail(logs[i])) = Elements(logs[i]) \ {c}
        /\ c \notin Elements(clear.new_logs)
        /\ \A j \in LogIds : j # i => c \notin Elements(logs[j])
    BY <1>1, <1>2, HeadOfClear
  <1>4. /\ chunk' = Free(chunk, {c})
        /\ logs' = [logs EXCEPT ![i] = Tail(logs[i])]
        /\ clear' = [clear EXCEPT !.entry = 0]
        /\ state' = state /\ pending' = pending
    BY DEF ClearEraseChunk
  <1>5. /\ clear'.new_logs = clear.new_logs /\ clear'.log_id = i
        /\ clear'.contains_uid_logs = clear.contains_uid_logs /\ clear'.entry = 0
    BY <1>4 DEF Parts, CommandsOK
  <1>6. DOMAIN chunk' = (DOMAIN chunk) \ {c} /\ \A d \in DOMAIN chunk' : chunk'[d] = chunk[d]
    BY <1>4 DEF Free
  <1>7. /\ logs'[i] = Tail(logs[i]) /\ \A j \in LogIds : j # i => logs'[j] = logs[j]
    BY <1>3, <1>4 DEF Parts, LogsOK
  <1>8. ChunksAreSound'
    BY <1>5, <1>6 DEF ChunkInv, ChunksAreSound, Copies, IsBeingCopied
  <1>9. ReadersArePositioned'
    <2> HIDE DEF c
    <2> SUFFICES ASSUME NEW d \in DOMAIN chunk', NEW s \in chunk'[d].readers
                 PROVE  /\ s \in DOMAIN state'
                        /\ \E j \in DOMAIN state'[s].log_positions :
                              state'[s].log_positions[j].buffer_it = d
      BY DEF ReadersArePositioned
    <2>1. d \in DOMAIN chunk /\ s \in chunk[d].readers
      BY <1>6
    <2> QED BY <1>4, <2>1 DEF ChunkInv, ReadersArePositioned
  <1>10. ChunksAreListed'
    <2>1. ASSUME NEW d \in DOMAIN chunk'
          PROVE  d \in Elements(clear'.new_logs) \/ \E j \in LogIds : d \in Elements(logs'[j])
      <3>1. d \in Elements(clear.new_logs) \/ \E j \in LogIds : d \in Elements(logs[j])
        BY <1>6, <2>1, ListedIn DEF ChunkInv
      <3>2. d # c
        BY <1>6, <2>1
      <3> HIDE DEF i, c
      <3> QED BY <1>3, <1>5, <1>7, <3>1, <3>2
    <2> QED BY <2>1, ListedInPrimed
  <1>11. NewestAreWritable'
    <2>1. ASSUME NEW j \in LogIds
          PROVE  NewestIsWritable(logs'[j], chunk')
      <3>0. NewestIsWritable(logs[j], chunk)
        BY DEF ChunkInv, NewestAreWritable
      <3>1. CASE j # i
        <4>1. \A d \in Elements(logs[j]) : d \in DOMAIN chunk'
          BY <1>3, <1>6, <3>1 DEF Parts, ListsAreDisjoint
        <4> QED BY <1>6, <1>7, <3>0, <3>1, <4>1 DEF NewestIsWritable
      <3>2. CASE j = i
        <4>1. \A d \in Elements(Tail(logs[i])) : d \in DOMAIN chunk'
          BY <1>3, <1>6 DEF Parts, ListsAreDisjoint
        <4>2. NewestIsWritable(Tail(logs[i]), chunk')
          BY <1>2, <1>3, <1>6, <3>0, <3>2, <4>1, NewestOfTail
        <4> QED BY <1>7, <3>2, <4>2
      <3> QED BY <3>1, <3>2
    <2>2. NewestIsWritable(clear.new_logs, chunk')
      <3>1. NewestIsWritable(clear.new_logs, chunk)
        BY <1>1, <1>2 DEF ChunkInv, NewestAreWritable
      <3>2. \A d \in Elements(clear.new_logs) : d \in DOMAIN chunk'
        BY <1>3, <1>6 DEF Parts, ListsAreDisjoint
      <3> QED BY <1>6, <3>1, <3>2 DEF NewestIsWritable
    <2> QED BY <1>2, <1>5, <2>1, <2>2 DEF NewestAreWritable
  <1>12. PendingAreCut'
    BY <1>4 DEF ChunkInv, PendingAreCut
  <1> QED BY <1>8, <1>9, <1>10, <1>11, <1>12 DEF ChunkInv

\* new_logs becomes the log.
LEMMA ClearSwapKeepsChunks ==
    ASSUME Parts, ChunkInv, ClearSwap
    PROVE  ChunkInv'
  <1> DEFINE i == clear.log_id
  <1>1. /\ Clearing /\ ~Clearing' /\ logs[i] = << >>
        /\ logs' = [logs EXCEPT ![i] = clear.new_logs] /\ clear' = NoClear
        /\ UNCHANGED <<chunk, state, pending>>
    BY DEF ClearSwap, Clearing
  <1>2. i \in LogIds /\ clear.entry = 0
    BY <1>1 DEF Parts, ClearIsConsistent
  <1>3. /\ logs'[i] = clear.new_logs /\ \A j \in LogIds : j # i => logs'[j] = logs[j]
    BY <1>1, <1>2 DEF Parts, LogsOK
  <1>4. ChunksAreSound'
    BY <1>1, <1>2 DEF ChunkInv, ChunksAreSound, Copies, IsBeingCopied
  <1>5. NewestAreWritable'
    <2>1. NewestIsWritable(clear.new_logs, chunk)
      BY <1>1 DEF ChunkInv, NewestAreWritable
    <2> QED BY <1>1, <1>2, <1>3, <2>1 DEF ChunkInv, NewestAreWritable
  <1>6. ChunksAreListed'
    <2>1. Elements(logs[i]) = {}
      BY <1>1 DEF Elements
    <2>2. \A d \in DOMAIN chunk : \E j \in LogIds : d \in Elements(logs'[j])
      BY <1>2, <1>3, <2>1, ListedIn DEF ChunkInv
    <2> QED BY <1>1, <2>2, ListedInPrimed
  <1>7. ReadersArePositioned' /\ PendingAreCut'
    BY <1>1 DEF ChunkInv, ReadersArePositioned, PendingAreCut
  <1> QED BY <1>4, <1>5, <1>6, <1>7 DEF ChunkInv

-----------------------------------------------------------------------------
(***************************************************************************)
(* The readers                                                              *)
(***************************************************************************)

\* A step of a reader changes the references on chunks and nothing else of them.
SameButReferences(heap) ==
    /\ DOMAIN heap = DOMAIN chunk
    /\ \A d \in DOMAIN chunk : heap[d].writer_active = chunk[d].writer_active
    /\ HeapIsSound(heap, {})

\* What a reader does keeps ChunkInv if the references stay those of the positions.
LEMMA ReaderKeepsChunks ==
    ASSUME Parts, ChunkInv, ~Clearing, ~Clearing',
           UNCHANGED <<logs, clear, pending>>,
           SameButReferences(chunk'), ReadersArePositioned'
    PROVE  ChunkInv'
  <1>1. ChunksAreSound'
    BY SoundWithoutCopiesPrimed DEF SameButReferences
  <1>2. ChunksAreListed' /\ PendingAreCut'
    BY DEF ChunkInv, ChunksAreListed, Lists, PendingAreCut, SameButReferences
  <1>3. NewestAreWritable'
    <2>1. \A j \in LogIds : \A d \in Elements(logs[j]) : d \in DOMAIN chunk
      BY DEF Parts, ListsAreDisjoint
    <2>2. \A j \in LogIds : NewestIsWritable(logs[j], chunk')
      BY <2>1 DEF ChunkInv, NewestAreWritable, NewestIsWritable, SameButReferences
    <2> QED BY <2>2 DEF NewestAreWritable
  <1> QED BY <1>1, <1>2, <1>3 DEF ChunkInv

\* A state that has no position yet.
LEMMA NewStateKeepsChunks ==
    ASSUME Parts, ChunkInv, ~Clearing, ~Clearing',
           UNCHANGED <<chunk, logs, clear, pending>>,
           NEW s \in States, s \notin DOMAIN state,
           NEW start, NEW log_mask,
           state' = WithState(s, NewFlushToState(start, log_mask))
    PROVE  ChunkInv'
  <1>1. ReadersArePositioned'
    <2> SUFFICES ASSUME NEW c \in DOMAIN chunk, NEW q \in chunk[c].readers
                 PROVE  /\ q \in DOMAIN state'
                        /\ \E i \in DOMAIN state'[q].log_positions :
                              state'[q].log_positions[i].buffer_it = c
      BY DEF ReadersArePositioned
    <2>1. /\ q \in DOMAIN state
          /\ \E i \in DOMAIN state[q].log_positions : state[q].log_positions[i].buffer_it = c
      BY DEF ChunkInv, ReadersArePositioned
    <2>2. q # s
      BY <2>1
    <2>3. q \in DOMAIN state' /\ state'[q] = state[q]
      BY <2>1, <2>2 DEF WithState
    <2> QED BY <2>1, <2>3
  <1>2. HeapIsSound(chunk, {})
    BY SoundWithoutCopies DEF ChunkInv
  <1>3. SameButReferences(chunk')
    BY <1>2 DEF SameButReferences
  <1> QED BY <1>1, <1>3, ReaderKeepsChunks

-----------------------------------------------------------------------------
(***************************************************************************)
(* A FlushToState lives no longer than it is needed                         *)
(***************************************************************************)

\* A woken thread needs what it needed.
LEMMA TriggerReaderNeeds ==
    ASSUME NEW t \in Thread
    PROVE  /\ NeedsMain(t) => NeedsMain(TriggerReader(t))
           /\ NeedsTemp(t) => NeedsTemp(TriggerReader(t))
           /\ TriggerReader(t) \in Thread
  <1> DEFINE pc == CASE t.pc = "wait" -> "woken"
                     [] t.pc = "wait_until" -> "notified"
                     [] OTHER -> t.pc
  <1>1. TriggerReader(t) = [t EXCEPT !.pc = pc]
    BY DEF TriggerReader
  <1>2. \/ t.pc = "wait" /\ pc = "woken"
        \/ t.pc = "wait_until" /\ pc = "notified"
        \/ pc = t.pc
    OBVIOUS
  <1> HIDE DEF pc
  <1> QED BY <1>1, <1>2 DEF Thread, NeedsMain, NeedsTemp

\* Waking threads leaves the states alone.
LEMMA TriggerReadersKeepsStates ==
    ASSUME Parts, StatesHaveThreads, NEW R, thread' = TriggerReaders(thread, R),
           DOMAIN state' = DOMAIN state
    PROVE  StatesHaveThreads'
  <1> SUFFICES ASSUME NEW r \in Readers
               PROVE  /\ Main(r) \in DOMAIN state' => NeedsMain(thread'[r])
                      /\ Temp(r) \in DOMAIN state' => NeedsTemp(thread'[r])
    BY DEF StatesHaveThreads, Main, Temp
  <1>1. thread[r] \in Thread
    BY DEF Parts, ThreadsOK
  <1>2. thread'[r] = thread[r] \/ thread'[r] = TriggerReader(thread[r])
    BY DEF TriggerReaders
  <1> QED BY <1>1, <1>2, TriggerReaderNeeds DEF StatesHaveThreads

\* What the writers and commands do
LEMMA BufferNextKeepsStates ==
    ASSUME Parts, StatesHaveThreads, BufferNext
    PROVE  StatesHaveThreads'
  <1>1. ASSUME thread' = thread, DOMAIN state' = DOMAIN state
        PROVE  StatesHaveThreads'
    BY <1>1 DEF StatesHaveThreads, Main, Temp
  <1>2. \A i, heap, ids : state' = NotifyReadersOfPrune(i, heap, ids) => DOMAIN state' = DOMAIN state
    BY DEF NotifyReadersOfPrune
  <1>3. ASSUME NEW w \in Writers, TakeSequence(w)
        PROVE  StatesHaveThreads'
    BY <1>1, <1>3 DEF TakeSequence
  <1>4. ASSUME NEW w \in Writers, Log(w)
        PROVE  StatesHaveThreads'
    <2> DEFINE i == pending[w].log_id
               logged(z) == LogToLogBuffer(chunk, logs[i], max_size[i], pending[w].entry, z)
    <2>1. PICK z, n :
            /\ state' = NotifyReadersOfPrune(i, logged(z).heap, Pruned(logged(z).list, n))
            /\ thread' = TriggerReaders(thread,
                  NotifiedOfNewLog(i) \cup (IF n > 0 THEN NotifiedOfPrune(i) ELSE {}))
      BY <1>4 DEF Log
    <2> HIDE DEF logged, i
    <2> QED BY <1>2, <2>1, TriggerReadersKeepsStates
  <1>5. ASSUME NEW i \in LogIds, ClearAll(i)
        PROVE  StatesHaveThreads'
    BY <1>2, <1>5, TriggerReadersKeepsStates DEF ClearAll
  <1>6. ASSUME NEW i \in LogIds, NEW size \in Sizes, SetSize(i, size)
        PROVE  StatesHaveThreads'
    <2>1. /\ \E R : thread' = TriggerReaders(thread, R)
          /\ \E j, heap, ids : state' = NotifyReadersOfPrune(j, heap, ids)
      BY <1>6, Zenon DEF SetSize
    <2> QED BY <1>2, <2>1, TriggerReadersKeepsStates
  <1>7. ASSUME NEW i, NEW uid, UidClear(i, uid)
        PROVE  StatesHaveThreads'
    BY <1>7, TriggerReadersKeepsStates DEF UidClear
  <1>8. CASE ReinitTrigger
    BY <1>8, TriggerReadersKeepsStates DEF ReinitTrigger
  <1>9. CASE ClearStep
    <2>1. CASE ClearSpliceChunk
      BY <1>1, <1>2, <2>1 DEF ClearSpliceChunk
    <2>2. CASE ClearOpenChunk
      BY <1>1, <1>2, <2>2 DEF ClearOpenChunk
    <2>3. CASE ClearEntry \/ ClearEraseChunk \/ ClearSwap
      BY <1>1, <2>3 DEF ClearEntry, ClearEraseChunk, ClearSwap
    <2> QED BY <1>9, <2>1, <2>2, <2>3 DEF ClearStep
  <1> QED BY <1>3, <1>4, <1>5, <1>6, <1>7, <1>8, <1>9 DEF BufferNext

\* One thread changes, with the states that are its own.
LEMMA OneThreadKeepsStates ==
    ASSUME Parts, StatesHaveThreads, NEW r \in Readers, NEW t,
           thread' = [thread EXCEPT ![r] = t],
           DOMAIN state' \subseteq (DOMAIN state) \cup {Main(r), Temp(r)},
           Main(r) \in DOMAIN state' => NeedsMain(t),
           Temp(r) \in DOMAIN state' => NeedsTemp(t)
    PROVE  StatesHaveThreads'
  <1> SUFFICES ASSUME NEW q \in Readers
               PROVE  /\ Main(q) \in DOMAIN state' => NeedsMain(thread'[q])
                      /\ Temp(q) \in DOMAIN state' => NeedsTemp(thread'[q])
    BY DEF StatesHaveThreads, Main, Temp
  <1>1. DOMAIN thread = Readers
    BY DEF Parts, ThreadsOK
  <1>2. CASE q = r
    <2>1. thread'[q] = t
      BY <1>1, <1>2
    <2> QED BY <1>2, <2>1
  <1>3. CASE q # r
    <2>1. thread'[q] = thread[q]
      BY <1>1, <1>3
    <2>2. /\ Main(q) \in DOMAIN state' => Main(q) \in DOMAIN state
          /\ Temp(q) \in DOMAIN state' => Temp(q) \in DOMAIN state
      BY <1>3, StatesDiffer
    <2> QED BY <2>1, <2>2 DEF StatesHaveThreads
  <1> QED BY <1>2, <1>3

\* The entry FlushTo() comes to.
LEMMA UnreadEntry ==
    ASSUME Parts, NEW r \in Readers, thread[r].pc = "flush",
           NEW i \in UnreadLogs(state[Current(r)])
    PROVE  LET s   == Current(r)
               pos == state[s].log_positions[i]
           IN  /\ s \in DOMAIN state /\ IsState(state[s])
               /\ i \in DOMAIN state[s].log_positions /\ i \in LogIds /\ pos \in Position
               /\ pos.buffer_it \in Elements(logs[i]) /\ pos.buffer_it \in DOMAIN chunk
               /\ chunk[pos.buffer_it] \in Chunk
               /\ pos.read_offset + 1 \in 1 .. Len(chunk[pos.buffer_it].entries)
               /\ EntryAt(pos, chunk) \in Entry
  <1> DEFINE s   == Current(r)
             pos == state[s].log_positions[i]
             c   == pos.buffer_it
  <1>1. s \in DOMAIN state
    BY CurrentIsLive
  <1>2. i \in DOMAIN state[s].log_positions /\ i \notin state[s].logs_needed
    BY DEF UnreadLogs
  <1>3. IsState(state[s])
    BY <1>1 DEF Parts, StatesOK
  <1>4. i \in LogIds /\ pos \in Position
    BY <1>2, <1>3 DEF IsState, FlushToState
  <1>5. HasValidPosition(s, i, state[s], logs[i], chunk)
    BY <1>1, <1>2, PositionsByState DEF Parts
  <1>6. /\ c \in Elements(logs[i]) /\ c \in DOMAIN chunk
        /\ pos.read_offset < Len(chunk[c].entries)
    BY <1>2, <1>5 DEF HasValidPosition, IsValidPosition
  <1>7. chunk[c] \in Chunk
    BY <1>6 DEF Parts, IsHeap
  <1>8. chunk[c].entries \in Seq(Entry) /\ Len(chunk[c].entries) \in Nat
    BY <1>7, ChunkFields
  <1>9. pos.read_offset \in Nat
    BY <1>4 DEF Position
  <1>10. pos.read_offset + 1 \in 1 .. Len(chunk[c].entries)
    <2> HIDE DEF pos, c
    <2> QED BY <1>6, <1>8, <1>9
  <1>11. EntryAt(pos, chunk) \in Entry
    BY <1>8, <1>10, ElementOfSeq DEF EntryAt
  <1> QED BY <1>1, <1>2, <1>3, <1>4, <1>6, <1>7, <1>10, <1>11

\* The threads' own steps, and those of the listener for them
LEMMA ReaderKeepsStates ==
    ASSUME Parts, StatesHaveThreads, NEW r \in Readers,
           \/ OnDataAvailable(r) \/ FindReturns(r) \/ CreateThread(r) \/ DoSocketDelete(r)
           \/ ReaderStep(r) \/ DeadlinePasses(r)
    PROVE  StatesHaveThreads'
  <1> DEFINE t == thread[r]
  <1>1. t \in Thread /\ Main(r) # Temp(r)
    BY MainIsNotTemp DEF Parts, ThreadsOK
  <1>2. /\ Main(r) \in DOMAIN state => NeedsMain(t)
        /\ Temp(r) \in DOMAIN state => NeedsTemp(t)
    BY DEF StatesHaveThreads
  <1>3. /\ \A s, st : DOMAIN WithState(s, st) = (DOMAIN state) \cup {s}
        /\ \A s : DOMAIN WithoutState(s) = (DOMAIN state) \ {s}
    BY DEF WithState, WithoutState
  <1> USE <1>1, <1>2
  <1>4. CASE OnDataAvailable(r)
    <2>1. Main(r) \notin DOMAIN state /\ Temp(r) \notin DOMAIN state
      BY <1>4 DEF OnDataAvailable, NeedsMain, NeedsTemp
    <2>2. PICK q \in Requests :
            \/ /\ thread' = [thread EXCEPT ![r] = NewThread(q, "found")]
               /\ state' = state
            \/ /\ thread' = [thread EXCEPT ![r] = NewThread(q, "flush")]
               /\ state' = WithState(Temp(r), NewFlushToState(1, NewThread(q, "flush").log_mask))
      BY <1>4 DEF OnDataAvailable
    <2>3. NeedsTemp(NewThread(q, "flush"))
      BY NewThreadType DEF NeedsTemp
    <2>4. CASE /\ thread' = [thread EXCEPT ![r] = NewThread(q, "found")]
               /\ state' = state
      BY <2>1, <2>4, OneThreadKeepsStates
    <2>5. CASE /\ thread' = [thread EXCEPT ![r] = NewThread(q, "flush")]
               /\ state' = WithState(Temp(r), NewFlushToState(1, NewThread(q, "flush").log_mask))
      <3>1. DOMAIN state' = (DOMAIN state) \cup {Temp(r)}
        BY <1>3, <2>5
      <3> QED BY <2>1, <2>3, <2>5, <3>1, OneThreadKeepsStates
    <2> QED BY <2>2, <2>4, <2>5
  <1>5. CASE FindReturns(r)
    <2>1. Main(r) \notin DOMAIN state
      BY <1>5 DEF FindReturns, NeedsMain
    <2>2. \E t2 : thread' = [thread EXCEPT ![r] = t2]
      BY <1>5 DEF FindReturns
    <2> QED BY <1>3, <1>5, <2>1, <2>2, OneThreadKeepsStates DEF FindReturns
  <1>6. CASE CreateThread(r)
    <2>1. Temp(r) \notin DOMAIN state
      BY <1>6 DEF CreateThread, NeedsTemp
    <2> DEFINE t2 == [t EXCEPT !.pc = "start", !.pass = "second", !.last = 1,
                               !.start_time_set = FALSE]
    <2>2. thread' = [thread EXCEPT ![r] = t2]
      BY <1>6 DEF CreateThread
    <2>3. NeedsMain(t2)
      BY DEF NeedsMain, Thread
    <2> HIDE DEF t2
    <2>4. DOMAIN state' = (DOMAIN state) \cup {Main(r)}
      BY <1>3, <1>6 DEF CreateThread
    <2> QED BY <2>1, <2>2, <2>3, <2>4, OneThreadKeepsStates
  <1>7. CASE DoSocketDelete(r)
    <2> DEFINE t1 == [t EXCEPT !.release = TRUE]
    <2>1. /\ t1 \in Thread
          /\ NeedsMain(t) => NeedsMain(t1)
          /\ NeedsTemp(t) => NeedsTemp(t1)
      BY DEF Thread, NeedsMain, NeedsTemp
    <2> HIDE DEF t1
    <2>2. /\ NeedsMain(t1) => NeedsMain(TriggerReader(t1))
          /\ NeedsTemp(t1) => NeedsTemp(TriggerReader(t1))
      BY <2>1, TriggerReaderNeeds
    <2>3. thread' = [thread EXCEPT ![r] = TriggerReader(t1)] /\ state' = state
      BY <1>7 DEF DoSocketDelete, Release, t1
    <2> QED BY <2>1, <2>2, <2>3, OneThreadKeepsStates
  <1>8. ASSUME NEW t1 \in Thread, EnterFlushTo(r, t1), Temp(r) \notin DOMAIN state
        PROVE  StatesHaveThreads'
    <2>1. \A pass \in {"first", "second"} : BeginFlush(t1, pass).pc = "flush"
                                           /\ BeginFlush(t1, pass).pass = pass
      BY <1>8, BeginFlushType
    <2>2. /\ NeedsMain(BeginFlush(t1, "first")) /\ NeedsTemp(BeginFlush(t1, "first"))
          /\ NeedsMain(BeginFlush(t1, "second"))
      BY <2>1 DEF NeedsMain, NeedsTemp
    <2>3. CASE /\ thread' = [thread EXCEPT ![r] = BeginFlush(t1, "first")]
               /\ \E st : state' = WithState(Temp(r), st)
      <3>1. DOMAIN state' = (DOMAIN state) \cup {Temp(r)}
        BY <1>3, <2>3
      <3> QED BY <2>2, <2>3, <3>1, OneThreadKeepsStates
    <2>4. CASE thread' = [thread EXCEPT ![r] = BeginFlush(t1, "second")] /\ state' = state
      BY <1>8, <2>2, <2>4, OneThreadKeepsStates
    <2> QED BY <1>8, <2>3, <2>4 DEF EnterFlushTo
  <1>9. ASSUME NEW t1 \in Thread, LeaveLoop(r, t1), Temp(r) \notin DOMAIN state
        PROVE  StatesHaveThreads'
    <2>1. NeedsMain([t1 EXCEPT !.pc = "exit"])
      BY <1>9 DEF NeedsMain, Thread
    <2> QED BY <1>9, <2>1, OneThreadKeepsStates DEF LeaveLoop
  <1>10. ASSUME NEW t2, thread' = [thread EXCEPT ![r] = t2], DOMAIN state' = DOMAIN state,
                NeedsMain(t) => NeedsMain(t2), NeedsTemp(t) => NeedsTemp(t2)
         PROVE  StatesHaveThreads'
    BY <1>10, OneThreadKeepsStates
  <1>11. CASE LoopTop(r)
    <2>1. Temp(r) \notin DOMAIN state
      BY <1>11 DEF LoopTop, NeedsTemp
    <2>2. CASE thread' = [thread EXCEPT ![r].pc = "wait_until"] /\ state' = state
      <3>1. NeedsMain([t EXCEPT !.pc = "wait_until"])
        BY DEF NeedsMain, Thread
      <3> QED BY <2>1, <2>2, <3>1, OneThreadKeepsStates
    <2> QED BY <1>8, <1>9, <1>11, <2>1, <2>2 DEF LoopTop
  <1>12. CASE AfterWaitUntil(r)
    <2>1. Temp(r) \notin DOMAIN state
      BY <1>12 DEF AfterWaitUntil, NeedsTemp
    <2> DEFINE t1 == [t EXCEPT !.deadline = t.deadline /\ t.pc # "timed_out"]
    <2>2. t1 \in Thread
      BY DEF Thread
    <2>3. EnterFlushTo(r, t1) \/ LeaveLoop(r, t1)
      BY <1>12 DEF AfterWaitUntil
    <2> HIDE DEF t1
    <2> QED BY <1>8, <1>9, <2>1, <2>2, <2>3
  <1>13. CASE CheckForNewLogs(r)
    <2>1. thread' = [thread EXCEPT ![r] = [t EXCEPT !.log_id = t.log_id + 1]]
      BY <1>13 DEF CheckForNewLogs
    <2>2. DOMAIN state' = DOMAIN state
      <3>1. ASSUME NEW s, NEW i, NEW pos, NEW heap, UpdateLogsNeeded(s, i, pos, heap)
            PROVE  DOMAIN state' = DOMAIN state
        BY <3>1 DEF UpdateLogsNeeded
      <3>2. \A s, i : CreateLogPosition(s, i) =>
                         \E pos, heap : UpdateLogsNeeded(s, i, pos, heap)
        BY Zenon DEF CreateLogPosition
      <3>3. \/ state' = state
            \/ CreateLogPosition(Current(r), t.log_id)
            \/ \E pos, heap : UpdateLogsNeeded(Current(r), t.log_id, pos, heap)
        BY <1>13, Zenon DEF CheckForNewLogs
      <3> QED BY <3>1, <3>2, <3>3
    <2>3. /\ NeedsMain(t) => NeedsMain([t EXCEPT !.log_id = t.log_id + 1])
          /\ NeedsTemp(t) => NeedsTemp([t EXCEPT !.log_id = t.log_id + 1])
      BY DEF Thread, NeedsMain, NeedsTemp
    <2> QED BY <1>10, <2>1, <2>2, <2>3
  <1>14. CASE FlushToEntry(r)
    <2> DEFINE s == Current(r)
    <2>1. PICK i \in UnreadLogs(state[s]) :
            LET entry   == EntryAt(state[s].log_positions[i], chunk)
                outcome == Outcome(t, state[s].start, entry)
            IN  /\ state' = [state EXCEPT ![s] = SetStart(PopNextUnreadLog(@, i), entry)]
                /\ \/ thread' = [thread EXCEPT ![r] = [outcome.thread EXCEPT !.log_id = 0]]
                   \/ thread' = [thread EXCEPT ![r] = [outcome.thread EXCEPT !.pc = "stop"]]
                   \/ /\ outcome.result = "kWrite"
                      /\ thread' = [thread EXCEPT ![r] =
                            [outcome.thread EXCEPT !.pc = "write", !.out = entry.sequence]]
      BY <1>14, Zenon DEF FlushToEntry
    <2> DEFINE entry   == EntryAt(state[s].log_positions[i], chunk)
               outcome == Outcome(t, state[s].start, entry)
    <2>2. t.pc = "flush"
      BY <1>14 DEF FlushToEntry, Flushing
    <2>3. entry \in Entry
      BY <2>2, UnreadEntry
    <2>4. FilterOK(t, outcome)
      BY <2>3, OutcomeType
    <2>5. DOMAIN state' = DOMAIN state
      BY <2>1
    <2> HIDE DEF outcome, entry, s
    <2>6. outcome.thread \in Thread /\ outcome.thread.pc = "flush" /\ outcome.thread.pass = t.pass
          /\ (outcome.result = "kWrite" => t.pass = "second")
      BY <2>2, <2>4 DEF FilterOK
    <2>7. CASE thread' = [thread EXCEPT ![r] = [outcome.thread EXCEPT !.log_id = 0]]
      <3>1. /\ NeedsMain(t) => NeedsMain([outcome.thread EXCEPT !.log_id = 0])
            /\ NeedsTemp(t) => NeedsTemp([outcome.thread EXCEPT !.log_id = 0])
        BY <2>2, <2>6 DEF Thread, NeedsMain, NeedsTemp
      <3> QED BY <1>10, <2>5, <2>7, <3>1
    <2>8. CASE thread' = [thread EXCEPT ![r] = [outcome.thread EXCEPT !.pc = "stop"]]
      <3>1. /\ NeedsMain(t) => NeedsMain([outcome.thread EXCEPT !.pc = "stop"])
            /\ NeedsTemp(t) => NeedsTemp([outcome.thread EXCEPT !.pc = "stop"])
        BY <2>2, <2>6 DEF Thread, NeedsMain, NeedsTemp
      <3> QED BY <1>10, <2>5, <2>8, <3>1
    <2>9. CASE /\ outcome.result = "kWrite"
               /\ thread' = [thread EXCEPT ![r] =
                     [outcome.thread EXCEPT !.pc = "write", !.out = entry.sequence]]
      <3>1. /\ NeedsMain([outcome.thread EXCEPT !.pc = "write", !.out = entry.sequence])
            /\ ~NeedsTemp(t)
        BY <2>2, <2>6, <2>9 DEF Thread, NeedsMain, NeedsTemp
      <3> QED BY <1>10, <2>5, <2>9, <3>1
    <2> QED BY <2>1, <2>7, <2>8, <2>9 DEF outcome, entry
  <1>15. CASE FlushToNoMore(r)
    <2>1. /\ NeedsMain(t) => NeedsMain([t EXCEPT !.pc = "stop"])
          /\ NeedsTemp(t) => NeedsTemp([t EXCEPT !.pc = "stop"])
      BY <1>15 DEF Thread, NeedsMain, NeedsTemp, FlushToNoMore, Flushing
    <2> QED BY <1>10, <1>15, <2>1 DEF FlushToNoMore
  <1>16. CASE WriteSucceeds(r) \/ WriteFails(r)
    <2>1. ~NeedsTemp(t) /\ t.pass = "second"
      BY <1>16 DEF WriteSucceeds, WriteFails, NeedsTemp, Parts, ThreadsHaveStates
    <2>2. /\ NeedsMain([t EXCEPT !.pc = "flush", !.log_id = 0, !.out = 0])
          /\ NeedsMain([t EXCEPT !.pc = "exit", !.start_time = EPOCH, !.out = 0])
      BY <2>1 DEF Thread, NeedsMain
    <2>3. /\ state' = state
          /\ \/ thread' = [thread EXCEPT ![r] = [t EXCEPT !.pc = "flush", !.log_id = 0, !.out = 0]]
             \/ thread' = [thread EXCEPT ![r] =
                    [t EXCEPT !.pc = "exit", !.start_time = EPOCH, !.out = 0]]
      BY <1>16 DEF WriteSucceeds, WriteFails
    <2> QED BY <1>10, <2>1, <2>2, <2>3
  <1>17. CASE FirstPassReturns(r)
    <2>1. BeginFlush(t, "second").pc = "flush" /\ BeginFlush(t, "second").pass = "second"
      BY BeginFlushType
    <2>2. NeedsMain(BeginFlush(t, "second"))
      BY <2>1 DEF NeedsMain
    <2> QED BY <1>3, <1>17, <2>2, OneThreadKeepsStates DEF FirstPassReturns
  <1>18. CASE SecondPassReturns(r)
    <2>1. DOMAIN state' = DOMAIN state /\ ~NeedsTemp(t)
      BY <1>18 DEF SecondPassReturns, NeedsTemp
    <2>2. \A pc \in {"exit", "wait_until", "wait"} :
            NeedsMain([t EXCEPT !.pc = pc, !.start_time = EPOCH])
      BY DEF NeedsMain, Thread
    <2>3. \E pc \in {"exit", "wait_until", "wait"} :
            thread' = [thread EXCEPT ![r] = [t EXCEPT !.pc = pc, !.start_time = EPOCH]]
      BY <1>18 DEF SecondPassReturns
    <2> QED BY <1>10, <2>1, <2>2, <2>3
  <1>19. CASE ThreadExits(r)
    <2>1. Temp(r) \notin DOMAIN state
      BY <1>19 DEF ThreadExits, NeedsTemp
    <2> QED BY <1>3, <1>19, <2>1, OneThreadKeepsStates DEF ThreadExits
  <1>20. CASE DeadlinePasses(r)
    <2>1. ~NeedsTemp(t) /\ NeedsMain([t EXCEPT !.pc = "timed_out"])
      BY <1>20 DEF DeadlinePasses, NeedsTemp, NeedsMain, Thread
    <2> QED BY <1>10, <1>20, <2>1 DEF DeadlinePasses
  <1> QED BY <1>4, <1>5, <1>6, <1>7, <1>11, <1>12, <1>13, <1>14, <1>15, <1>16, <1>17, <1>18,
             <1>19, <1>20 DEF ReaderStep

-----------------------------------------------------------------------------
(***************************************************************************)
(* The positions of a reader                                                *)
(***************************************************************************)

\* ~SerializedFlushToState() gives back exactly the references the state held.
LEMMA DestroyStateKeepsChunks ==
    ASSUME Parts, ChunkInv, ~Clearing, ~Clearing', UNCHANGED <<logs, clear, pending>>,
           NEW s \in DOMAIN state, chunk' = DetachAll(s), state' = WithoutState(s)
    PROVE  ChunkInv'
  <1> DEFINE Held(c) == \E i \in DOMAIN state[s].log_positions :
                            state[s].log_positions[i].buffer_it = c
  <1>1. /\ DOMAIN chunk' = DOMAIN chunk
        /\ \A c \in DOMAIN chunk :
              chunk'[c] = IF Held(c) THEN DetachReader(chunk[c], s) ELSE chunk[c]
    BY DEF DetachAll
  <1>2. HeapIsSound(chunk, {})
    BY SoundWithoutCopies DEF ChunkInv
  <1>3. ASSUME NEW c \in DOMAIN chunk
        PROVE  /\ Held(c) <=> s \in chunk[c].readers
               /\ IsSound(chunk'[c], 0)
               /\ chunk'[c].writer_active = chunk[c].writer_active
               /\ chunk'[c].readers = chunk[c].readers \ {s}
    <2>1. chunk[c] \in Chunk /\ IsFiniteSet(chunk[c].readers) /\ IsSound(chunk[c], 0)
      BY <1>2 DEF Parts, IsHeap, HeapIsSound
    <2>2. Held(c) <=> s \in chunk[c].readers
      BY DEF Parts, PositionsAreValid, ChunkInv, ReadersArePositioned
    <2> HIDE DEF Held
    <2>3. CASE Held(c)
      <3>1. chunk'[c] = DetachReader(chunk[c], s)
        BY <1>1, <2>3
      <3> QED BY <2>1, <2>2, <2>3, <3>1, DetachReaderIsSound, DetachReaderType
    <2>4. CASE ~Held(c)
      BY <1>1, <2>1, <2>2, <2>4
    <2> QED BY <2>2, <2>3, <2>4
  <1>4. SameButReferences(chunk')
    BY <1>1, <1>3 DEF SameButReferences, HeapIsSound
  <1>5. ReadersArePositioned'
    <2> SUFFICES ASSUME NEW c \in DOMAIN chunk, NEW q \in chunk'[c].readers
                 PROVE  /\ q \in DOMAIN state'
                        /\ \E i \in DOMAIN state'[q].log_positions :
                              state'[q].log_positions[i].buffer_it = c
      BY <1>1 DEF ReadersArePositioned
    <2>1. q # s /\ q \in chunk[c].readers
      BY <1>3
    <2>2. /\ q \in DOMAIN state
          /\ \E i \in DOMAIN state[q].log_positions : state[q].log_positions[i].buffer_it = c
      BY <2>1 DEF ChunkInv, ReadersArePositioned
    <2>3. q \in DOMAIN state' /\ state'[q] = state[q]
      BY <2>1, <2>2 DEF WithoutState
    <2> QED BY <2>2, <2>3
  <1> QED BY <1>4, <1>5, ReaderKeepsChunks

(***************************************************************************)
(* In heap, c is the only chunk of log i that knows state s as a reader,    *)
(* and all other references are as they were.                               *)
(***************************************************************************)
OnlyReaderIn(s, i, c, heap) ==
    \A d \in DOMAIN chunk : \A q \in heap[d].readers :
        \/ q \in chunk[d].readers /\ (q # s \/ d \notin Elements(logs[i]))
        \/ q = s /\ d = c

\* A state that has one position, in the chunk that knows it, keeps ChunkInv.
LEMMA MoveKeepsChunks ==
    ASSUME Parts, ChunkInv, ~Clearing, ~Clearing', UNCHANGED <<logs, clear, pending>>,
           NEW s \in DOMAIN state, NEW i \in LogIds, NEW new,
           state' = [state EXCEPT ![s] = new],
           DOMAIN new.log_positions = (DOMAIN state[s].log_positions) \cup {i},
           \A j \in (DOMAIN state[s].log_positions) \ {i} :
              new.log_positions[j] = state[s].log_positions[j],
           SameButReferences(chunk'),
           OnlyReaderIn(s, i, new.log_positions[i].buffer_it, chunk')
    PROVE  ChunkInv'
  <1>1. ReadersArePositioned'
    <2> SUFFICES ASSUME NEW d \in DOMAIN chunk, NEW q \in chunk'[d].readers
                 PROVE  /\ q \in DOMAIN state'
                        /\ \E j \in DOMAIN state'[q].log_positions :
                              state'[q].log_positions[j].buffer_it = d
      BY DEF ReadersArePositioned, SameButReferences
    <2>1. /\ DOMAIN state' = DOMAIN state /\ state'[s] = new
          /\ \A p \in (DOMAIN state) \ {s} : state'[p] = state[p]
      OBVIOUS
    <2>2. CASE q = s /\ d = new.log_positions[i].buffer_it
      BY <2>1, <2>2
    <2>3. CASE q \in chunk[d].readers /\ (q # s \/ d \notin Elements(logs[i]))
      <3>1. PICK j \in DOMAIN state[q].log_positions : state[q].log_positions[j].buffer_it = d
        BY <2>3 DEF ChunkInv, ReadersArePositioned
      <3>2. q \in DOMAIN state /\ d \in Elements(logs[j])
        BY <2>3, <3>1 DEF ChunkInv, ReadersArePositioned, Parts, PositionsAreValid
      <3>3. CASE q # s
        BY <2>1, <3>1, <3>2, <3>3
      <3>4. CASE q = s
        <4>1. j # i
          BY <2>3, <3>2, <3>4
        <4> QED BY <2>1, <3>1, <3>4, <4>1
      <3> QED BY <3>3, <3>4
    <2> QED BY <2>2, <2>3 DEF OnlyReaderIn
  <1> QED BY <1>1, ReaderKeepsChunks

\* UpdateLogsNeeded() moves its reference along with the position.
LEMMA UpdateLogsNeededKeepsChunks ==
    ASSUME Parts, ChunkInv, ~Clearing, ~Clearing', UNCHANGED <<logs, clear, pending>>,
           NEW s \in DOMAIN state, NEW i \in LogIds, NEW heap, IsHeap(heap),
           NEW pos \in Position, IsValidPosition(s, pos, logs[i], heap),
           SameButReferences(heap), OnlyReaderIn(s, i, pos.buffer_it, heap),
           UpdateLogsNeeded(s, i, pos, heap)
    PROVE  ChunkInv'
  <1> DEFINE st == SetPosition(state[s], i, pos)
             list == logs[i]
  <1>1. IsState(state[s])
    BY DEF Parts, StatesOK
  <1>2. /\ IsState(st)
        /\ DOMAIN st.log_positions = (DOMAIN state[s].log_positions) \cup {i}
        /\ st.log_positions[i] = pos
        /\ \A j \in (DOMAIN state[s].log_positions) \ {i} :
              st.log_positions[j] = state[s].log_positions[j]
    BY <1>1, SetPositionType
  <1>3. st.logs_needed \subseteq LogIds
    BY <1>2 DEF IsState, FlushToState
  <1>4. ASSUME NEW needed \in SUBSET LogIds, chunk' = heap,
               state' = [state EXCEPT ![s] = [st EXCEPT !.logs_needed = needed]]
        PROVE  ChunkInv'
    <2> DEFINE new == [st EXCEPT !.logs_needed = needed]
    <2> HIDE DEF st
    <2>1. new.log_positions = st.log_positions
      BY <1>2, LogsNeededType
    <2>2. state' = [state EXCEPT ![s] = new]
      BY <1>4
    <2> HIDE DEF new
    <2>3. /\ DOMAIN new.log_positions = (DOMAIN state[s].log_positions) \cup {i}
          /\ \A j \in (DOMAIN state[s].log_positions) \ {i} :
                new.log_positions[j] = state[s].log_positions[j]
          /\ new.log_positions[i].buffer_it = pos.buffer_it
      BY <1>2, <2>1
    <2>4. SameButReferences(chunk') /\ OnlyReaderIn(s, i, pos.buffer_it, chunk')
      BY <1>4
    <2> QED BY <2>2, <2>3, <2>4, MoveKeepsChunks
  <1>5. ASSUME NEW k \in 1 .. Len(list) - 1, pos.buffer_it = list[k],
               LET next == [buffer_it |-> list[k + 1], read_offset |-> 0]
               IN  /\ chunk' = [heap EXCEPT ![list[k]] = DetachReader(@, s),
                                            ![list[k + 1]] = AttachReader(@, s)]
                   /\ state' = [state EXCEPT ![s] =
                         [SetPosition(st, i, next) EXCEPT
                             !.logs_needed = IF MoreInChunk(next, heap) THEN @ \ {i}
                                                                        ELSE @ \cup {i}]]
        PROVE  ChunkInv'
    <2> DEFINE a == list[k]
               b == list[k + 1]
               next == [buffer_it |-> b, read_offset |-> 0]
               st2 == SetPosition(st, i, next)
               needed == IF MoreInChunk(next, heap) THEN st2.logs_needed \ {i}
                                                    ELSE st2.logs_needed \cup {i}
               new == [st2 EXCEPT !.logs_needed = needed]
    <2>1. /\ a \in Elements(list) /\ b \in Elements(list) /\ a # b
          /\ a \in DOMAIN chunk /\ b \in DOMAIN chunk /\ b \in ChunkIds
      <3>1. /\ list \in Seq(ChunkIds) /\ Len(list) \in Nat /\ Distinct(list)
            /\ Elements(list) \subseteq DOMAIN chunk
        BY LenProperties DEF Parts, LogsOK, ListsAreDisjoint
      <3>2. k \in 1 .. Len(list) /\ k + 1 \in 1 .. Len(list) /\ k # k + 1
        BY <3>1
      <3>3. a \in Elements(list) /\ b \in Elements(list) /\ a # b
        BY <3>1, <3>2 DEF Elements, Distinct
      <3> QED BY <3>1, <3>2, <3>3, ElementOfSeq
    <2>2. chunk' = [heap EXCEPT ![a] = DetachReader(heap[a], s), ![b] = AttachReader(heap[b], s)]
      BY <1>5, <2>1
    <2>3. state' = [state EXCEPT ![s] = new]
      BY <1>5
    <2>4. next \in Position /\ next.buffer_it = b
      BY <2>1 DEF Position
    <2>5. a = pos.buffer_it
      BY <1>5
    <2> HIDE DEF a, b, next, st
    <2>6. /\ IsState(st2)
          /\ DOMAIN st2.log_positions = (DOMAIN st.log_positions) \cup {i}
          /\ st2.log_positions[i] = next
          /\ \A j \in (DOMAIN st.log_positions) \ {i} :
                st2.log_positions[j] = st.log_positions[j]
          /\ st2.logs_needed = st.logs_needed
      BY <1>2, <2>4, SetPositionType
    <2> HIDE DEF st2
    <2>7. needed \in SUBSET LogIds
      BY <1>3, <2>6
    <2> HIDE DEF needed
    <2>8. new.log_positions = st2.log_positions
      BY <2>6, <2>7, LogsNeededType
    <2> HIDE DEF new
    <2>9. DOMAIN heap = DOMAIN chunk /\ HeapIsSound(heap, {})
      BY DEF SameButReferences
    <2>10. /\ heap[a] \in Chunk /\ IsFiniteSet(heap[a].readers) /\ IsSound(heap[a], 0)
           /\ heap[b] \in Chunk /\ IsFiniteSet(heap[b].readers) /\ IsSound(heap[b], 0)
           /\ s \in States
      BY <2>1, <2>9 DEF IsHeap, HeapIsSound, Parts, StatesOK
    <2>11. s \in heap[a].readers /\ s \notin heap[b].readers
      BY <2>1, <2>5 DEF IsValidPosition, OnlyReaderIn
    <2>12. /\ IsSound(DetachReader(heap[a], s), 0)
           /\ DetachReader(heap[a], s).writer_active = heap[a].writer_active
           /\ DetachReader(heap[a], s).readers = heap[a].readers \ {s}
      BY <2>10, <2>11, DetachReaderIsSound, DetachReaderType
    <2>13. /\ IsSound(AttachReader(heap[b], s), 0)
           /\ AttachReader(heap[b], s).writer_active = heap[b].writer_active
           /\ AttachReader(heap[b], s).readers = heap[b].readers \cup {s}
      BY <2>10, <2>11, AttachReaderIsSound, AttachReaderType
    <2>14. /\ DOMAIN chunk' = DOMAIN chunk
           /\ chunk'[a] = DetachReader(heap[a], s)
           /\ chunk'[b] = AttachReader(heap[b], s)
           /\ \A d \in (DOMAIN chunk) \ {a, b} : chunk'[d] = heap[d]
      BY <2>1, <2>2, <2>9
    <2>15. SameButReferences(chunk')
      BY <2>1, <2>12, <2>13, <2>14 DEF SameButReferences, HeapIsSound
    <2>16. OnlyReaderIn(s, i, b, chunk')
      <3> SUFFICES ASSUME NEW d \in DOMAIN chunk, NEW q \in chunk'[d].readers
                   PROVE  \/ q \in chunk[d].readers /\ (q # s \/ d \notin Elements(logs[i]))
                          \/ q = s /\ d = b
        BY DEF OnlyReaderIn
      <3>1. CASE d = a
        <4>1. q \in heap[a].readers /\ q # s
          BY <2>12, <2>14, <3>1
        <4> QED BY <3>1, <4>1 DEF OnlyReaderIn
      <3>2. CASE d = b
        <4>1. q \in heap[b].readers \/ q = s
          BY <2>13, <2>14, <3>2
        <4> QED BY <2>1, <2>5, <3>2, <4>1 DEF OnlyReaderIn
      <3>3. CASE d # a /\ d # b
        <4>1. q \in heap[d].readers
          BY <2>14, <3>3
        <4> QED BY <2>5, <3>3, <4>1 DEF OnlyReaderIn
      <3> QED BY <3>1, <3>2, <3>3
    <2>17. new.log_positions[i].buffer_it = b
      BY <2>4, <2>6, <2>8
    <2>18. /\ DOMAIN new.log_positions = (DOMAIN state[s].log_positions) \cup {i}
           /\ \A j \in (DOMAIN state[s].log_positions) \ {i} :
                 new.log_positions[j] = state[s].log_positions[j]
      BY <1>2, <2>6, <2>8
    <2> QED BY <2>3, <2>15, <2>16, <2>17, <2>18, MoveKeepsChunks
  <1>6. \/ /\ chunk' = heap
           /\ \/ state' = [state EXCEPT ![s] = [st EXCEPT !.logs_needed = st.logs_needed \ {i}]]
              \/ state' = [state EXCEPT ![s] = [st EXCEPT !.logs_needed = st.logs_needed \cup {i}]]
        \/ \E k \in 1 .. Len(list) - 1 :
              LET next == [buffer_it |-> list[k + 1], read_offset |-> 0]
              IN  /\ pos.buffer_it = list[k]
                  /\ chunk' = [heap EXCEPT ![list[k]] = DetachReader(@, s),
                                           ![list[k + 1]] = AttachReader(@, s)]
                  /\ state' = [state EXCEPT ![s] =
                        [SetPosition(st, i, next) EXCEPT
                            !.logs_needed = IF MoreInChunk(next, heap) THEN @ \ {i}
                                                                       ELSE @ \cup {i}]]
    BY DEF UpdateLogsNeeded
  <1>7. st.logs_needed \ {i} \in SUBSET LogIds /\ st.logs_needed \cup {i} \in SUBSET LogIds
    BY <1>3
  <1> HIDE DEF st, list
  <1> QED BY <1>4, <1>5, <1>6, <1>7

\* CreateLogPosition() attaches a state that was in no chunk of the log.
LEMMA CreateLogPositionKeepsChunks ==
    ASSUME Parts, ChunkInv, ~Clearing, ~Clearing', UNCHANGED <<logs, clear, pending>>,
           NEW s \in DOMAIN state, NEW i \in LogIds, ~HasPosition(state[s], i),
           CreateLogPosition(s, i)
    PROVE  ChunkInv'
  <1>1. PICK k \in 1 .. Len(logs[i]) : \E n \in 0 .. Len(chunk[logs[i][k]].entries) :
            UpdateLogsNeeded(s, i, [buffer_it |-> logs[i][k], read_offset |-> n],
                             [chunk EXCEPT ![logs[i][k]] = AttachReader(@, s)])
    BY DEF CreateLogPosition
  <1> DEFINE c == logs[i][k]
             heap == [chunk EXCEPT ![c] = AttachReader(@, s)]
  <1>2. PICK n \in 0 .. Len(chunk[c].entries) :
            UpdateLogsNeeded(s, i, [buffer_it |-> c, read_offset |-> n], heap)
    BY <1>1
  <1> DEFINE pos == [buffer_it |-> c, read_offset |-> n]
  <1>3. c \in Elements(logs[i]) /\ c \in DOMAIN chunk /\ c \in ChunkIds
    <2>1. c \in Elements(logs[i])
      BY DEF Elements
    <2> QED BY <2>1 DEF Parts, ListsAreDisjoint, IsHeap
  <1>4. HeapIsSound(chunk, {})
    BY SoundWithoutCopies DEF ChunkInv
  <1>5. /\ s \in States /\ chunk[c] \in Chunk /\ IsFiniteSet(chunk[c].readers)
        /\ IsSound(chunk[c], 0)
    BY <1>3, <1>4 DEF Parts, StatesOK, IsHeap, HeapIsSound
  <1>6. \A d \in Elements(logs[i]) : d \in DOMAIN chunk => s \notin chunk[d].readers
    <2> SUFFICES ASSUME NEW d \in Elements(logs[i]), d \in DOMAIN chunk, s \in chunk[d].readers
                 PROVE  FALSE
      OBVIOUS
    <2>1. PICK j \in DOMAIN state[s].log_positions : state[s].log_positions[j].buffer_it = d
      BY DEF ChunkInv, ReadersArePositioned
    <2>2. j = i
      BY <2>1, OnePositionPerChunk
    <2> QED BY <2>1, <2>2 DEF HasPosition
  <1>7. /\ AttachReader(chunk[c], s) \in Chunk
        /\ AttachReader(chunk[c], s).readers = chunk[c].readers \cup {s}
        /\ AttachReader(chunk[c], s).entries = chunk[c].entries
        /\ IsFiniteSet(AttachReader(chunk[c], s).readers)
    BY <1>5, AttachReaderType
  <1>8. /\ IsSound(AttachReader(chunk[c], s), 0)
        /\ AttachReader(chunk[c], s).writer_active = chunk[c].writer_active
    BY <1>3, <1>5, <1>6, AttachReaderIsSound
  <1>9. Len(chunk[c].entries) \in Nat
    BY <1>5, LenProperties DEF Chunk
  <1>10. /\ pos \in Position /\ pos.buffer_it = c
         /\ pos.read_offset \in Nat /\ pos.read_offset <= Len(chunk[c].entries)
    BY <1>3, <1>9 DEF Position
  <1>11. /\ DOMAIN heap = DOMAIN chunk /\ heap[c] = AttachReader(chunk[c], s)
         /\ \A d \in (DOMAIN chunk) \ {c} : heap[d] = chunk[d]
    BY <1>3
  <1>12. UpdateLogsNeeded(s, i, pos, heap)
    BY <1>2
  <1> HIDE DEF c, heap, pos
  <1>13. IsHeap(heap)
    <2>1. \A d \in DOMAIN chunk : chunk[d] \in Chunk /\ IsFiniteSet(chunk[d].readers)
      BY DEF Parts, IsHeap
    <2>2. \A d \in DOMAIN chunk : heap[d] \in Chunk /\ IsFiniteSet(heap[d].readers)
      BY <1>3, <1>7, <1>11, <2>1
    <2> QED BY <1>11, <2>2 DEF Parts, IsHeap
  <1>14. SameButReferences(heap)
    <2>1. \A d \in DOMAIN chunk : IsSound(chunk[d], 0)
      BY <1>4 DEF HeapIsSound
    <2>2. \A d \in DOMAIN chunk : /\ IsSound(heap[d], 0)
                                  /\ heap[d].writer_active = chunk[d].writer_active
      BY <1>3, <1>8, <1>11, <2>1
    <2> QED BY <1>11, <2>2 DEF SameButReferences, HeapIsSound
  <1>15. OnlyReaderIn(s, i, pos.buffer_it, heap)
    <2> SUFFICES ASSUME NEW d \in DOMAIN chunk, NEW q \in heap[d].readers
                 PROVE  \/ q \in chunk[d].readers /\ (q # s \/ d \notin Elements(logs[i]))
                        \/ q = s /\ d = c
      BY <1>10 DEF OnlyReaderIn
    <2>1. q \in chunk[d].readers \/ (q = s /\ d = c)
      BY <1>7, <1>11
    <2> QED BY <1>6, <2>1
  <1>16. IsValidPosition(s, pos, logs[i], heap)
    BY <1>3, <1>7, <1>10, <1>11 DEF IsValidPosition
  <1> QED BY <1>10, <1>12, <1>13, <1>14, <1>15, <1>16, UpdateLogsNeededKeepsChunks

\* One iteration of CheckForNewLogs().
LEMMA CheckForNewLogsKeepsChunks ==
    ASSUME Parts, ChunkInv, NEW r \in Readers, CheckForNewLogs(r)
    PROVE  ChunkInv'
  <1> DEFINE s == Current(r)
             i == thread[r].log_id
  <1>1. /\ thread[r].pc = "flush" /\ logd_lock = {r} /\ i < LOG_ID_MAX
        /\ UNCHANGED <<logd_lock, logs, pending, clear>>
    BY DEF CheckForNewLogs, Flushing
  <1>2. \/ UNCHANGED <<chunk, state>>
        \/ ~HasPosition(state[s], i) /\ CreateLogPosition(s, i)
        \/ /\ HasPosition(state[s], i)
           /\ UpdateLogsNeeded(s, i, state[s].log_positions[i], chunk)
    BY DEF CheckForNewLogs
  <1>3. s \in DOMAIN state
    BY <1>1, CurrentIsLive
  <1>4. i \in LogIds
    <2>1. i \in 0 .. LOG_ID_MAX
      BY DEF Parts, ThreadsOK, Thread
    <2> QED BY <1>1, <2>1, LogIdAssumption DEF LogIds
  <1>5. ~Clearing /\ ~Clearing'
    BY <1>1, NotClearing DEF Clearing
  <1> HIDE DEF s, i
  <1>6. CASE UNCHANGED <<chunk, state>>
    BY <1>1, <1>6, ChunksUnchanged
  <1>7. CASE ~HasPosition(state[s], i) /\ CreateLogPosition(s, i)
    BY <1>1, <1>3, <1>4, <1>5, <1>7, CreateLogPositionKeepsChunks
  <1>8. CASE /\ HasPosition(state[s], i)
             /\ UpdateLogsNeeded(s, i, state[s].log_positions[i], chunk)
    <2> DEFINE pos == state[s].log_positions[i]
    <2>1. i \in DOMAIN state[s].log_positions
      BY <1>8 DEF HasPosition
    <2>2. IsValidPosition(s, pos, logs[i], chunk)
      BY <1>3, <2>1, PositionsByState DEF Parts, HasValidPosition
    <2>3. pos \in Position
      BY <1>3, <2>1 DEF Parts, StatesOK, IsState, FlushToState
    <2>4. SameButReferences(chunk) /\ IsHeap(chunk)
      BY <1>5, SoundWithoutCopies DEF ChunkInv, SameButReferences, Parts
    <2>5. OnlyReaderIn(s, i, pos.buffer_it, chunk)
      <3> SUFFICES ASSUME NEW d \in DOMAIN chunk, s \in chunk[d].readers, d \in Elements(logs[i])
                   PROVE  d = pos.buffer_it
        BY DEF OnlyReaderIn
      <3>1. PICK j \in DOMAIN state[s].log_positions : state[s].log_positions[j].buffer_it = d
        BY DEF ChunkInv, ReadersArePositioned
      <3>2. j = i
        BY <1>3, <1>4, <3>1, OnePositionPerChunk
      <3> QED BY <3>1, <3>2
    <2>6. UpdateLogsNeeded(s, i, pos, chunk)
      BY <1>8
    <2> HIDE DEF pos
    <2> QED BY <1>1, <1>3, <1>4, <1>5, <2>2, <2>3, <2>4, <2>5, <2>6, UpdateLogsNeededKeepsChunks
  <1> QED BY <1>2, <1>6, <1>7, <1>8

\* A reader that goes on in its chunks, or sets its start, keeps its references.
LEMMA SameChunksKept ==
    ASSUME Parts, ChunkInv, ~Clearing, ~Clearing', UNCHANGED <<chunk, logs, clear, pending>>,
           DOMAIN state' = DOMAIN state,
           \A s \in DOMAIN state :
              /\ DOMAIN state'[s].log_positions = DOMAIN state[s].log_positions
              /\ \A i \in DOMAIN state[s].log_positions :
                    state'[s].log_positions[i].buffer_it = state[s].log_positions[i].buffer_it
    PROVE  ChunkInv'
  <1>1. ReadersArePositioned'
    BY DEF ChunkInv, ReadersArePositioned
  <1>2. SameButReferences(chunk')
    BY SoundWithoutCopies DEF ChunkInv, SameButReferences
  <1> QED BY <1>1, <1>2, ReaderKeepsChunks

\* FlushTo() goes one entry further.
LEMMA FlushToEntryKeepsChunks ==
    ASSUME Parts, ChunkInv, NEW r \in Readers, FlushToEntry(r)
    PROVE  ChunkInv'
  <1> DEFINE s == Current(r)
  <1>1. /\ thread[r].pc = "flush" /\ logd_lock = {r}
        /\ UNCHANGED bufferVars
        /\ logd_lock' = {r} \/ logd_lock' = {}
    BY DEF FlushToEntry, Flushing
  <1>2. ~Clearing /\ ~Clearing'
    BY <1>1, NotClearing DEF Clearing
  <1>3. PICK i \in UnreadLogs(state[s]) :
           state' = [state EXCEPT ![s] =
              SetStart(PopNextUnreadLog(@, i), EntryAt(state[s].log_positions[i], chunk))]
    BY Zenon DEF FlushToEntry
  <1> DEFINE entry == EntryAt(state[s].log_positions[i], chunk)
             new == SetStart(PopNextUnreadLog(state[s], i), entry)
  <1>4. /\ s \in DOMAIN state /\ IsState(state[s])
        /\ i \in DOMAIN state[s].log_positions /\ entry \in Entry
    BY <1>1, UnreadEntry
  <1> HIDE DEF entry, s
  <1>5. /\ DOMAIN new.log_positions = DOMAIN state[s].log_positions
        /\ \A j \in DOMAIN state[s].log_positions :
              new.log_positions[j].buffer_it = state[s].log_positions[j].buffer_it
    BY <1>4, PopNextUnreadLogType
  <1>6. state' = [state EXCEPT ![s] = new]
    BY <1>3 DEF entry
  <1> HIDE DEF new
  <1>7. /\ DOMAIN state' = DOMAIN state
        /\ \A q \in DOMAIN state :
              /\ DOMAIN state'[q].log_positions = DOMAIN state[q].log_positions
              /\ \A j \in DOMAIN state[q].log_positions :
                    state'[q].log_positions[j].buffer_it = state[q].log_positions[j].buffer_it
    BY <1>5, <1>6
  <1> QED BY <1>1, <1>2, <1>7, SameChunksKept DEF bufferVars

\* The second pass ends: start moves on, the positions stay.
LEMMA SecondPassReturnsKeepsChunks ==
    ASSUME Parts, ChunkInv, NEW r \in Readers, SecondPassReturns(r)
    PROVE  ChunkInv'
  <1> DEFINE new == [state[Main(r)] EXCEPT !.start = state[Main(r)].start + 1]
  <1>1. /\ logd_lock = {r} /\ UNCHANGED bufferVars
        /\ logd_lock' = {r} \/ logd_lock' = {}
        /\ state' = [state EXCEPT ![Main(r)] = new]
    BY DEF SecondPassReturns
  <1>2. ~Clearing /\ ~Clearing'
    BY <1>1, NotClearing DEF Clearing
  <1>3. Main(r) \in DOMAIN state
    BY ThreadHas DEF SecondPassReturns, NeedsMain
  <1>4. new.log_positions = state[Main(r)].log_positions
    BY <1>3 DEF Parts, StatesOK, IsState, FlushToState
  <1> HIDE DEF new
  <1> QED BY <1>1, <1>2, <1>3, <1>4, SameChunksKept DEF bufferVars

\* EnterFlushTo() may create the state of a first pass.
LEMMA EnterFlushToKeepsChunks ==
    ASSUME Parts, ChunkInv, LockFree, NEW r \in Readers, NEW t, EnterFlushTo(r, t),
           UNCHANGED bufferVars, Temp(r) \notin DOMAIN state
    PROVE  ChunkInv'
  <1>1. logd_lock' = {r} /\ ~Clearing
    BY NotClearing DEF EnterFlushTo
  <1>2. ~Clearing'
    BY <1>1, ReaderAssumption DEF Clearing
  <1>3. CASE state' = state
    BY <1>1, <1>2, <1>3, ChunksUnchanged DEF bufferVars
  <1>4. CASE state' = WithState(Temp(r), NewFlushToState(state[Main(r)].start,
                                                         state[Main(r)].log_mask))
    BY <1>1, <1>2, <1>4, NewStateKeepsChunks, StatesType DEF bufferVars
  <1> QED BY <1>3, <1>4 DEF EnterFlushTo

\* Every step of a reader and of the listener
LEMMA ReadersKeepChunks ==
    ASSUME Parts, StatesHaveThreads, ChunkInv, NEW r \in Readers,
           \/ OnDataAvailable(r) \/ FindReturns(r) \/ CreateThread(r) \/ DoSocketDelete(r)
           \/ ReaderStep(r) \/ DeadlinePasses(r)
    PROVE  ChunkInv'
  <1> DEFINE t == thread[r]
  <1>1. /\ Main(r) \in DOMAIN state => NeedsMain(t)
        /\ Temp(r) \in DOMAIN state => NeedsTemp(t)
    BY DEF StatesHaveThreads
  <1>2. \A h \in {{}, {r}} : h # {"command"}
    BY ReaderAssumption
  <1>3. ASSUME UNCHANGED bufferVars, state' = state, LockFree \/ logd_lock = {r},
               logd_lock' \in {{}, {r}}
        PROVE  ChunkInv'
    <2>1. ~Clearing /\ ~Clearing'
      BY <1>2, <1>3, NotClearing DEF Clearing
    <2> QED BY <1>3, <2>1, ChunksUnchanged DEF bufferVars
  <1>4. ASSUME UNCHANGED <<bufferVars, state, logd_lock>>
        PROVE  ChunkInv'
    BY <1>4, ChunksUnchanged DEF bufferVars
  <1>5. ASSUME UNCHANGED bufferVars, LockFree, logd_lock' \in {{}, {r}},
               NEW s \in States, s \notin DOMAIN state, NEW start, NEW log_mask,
               state' = WithState(s, NewFlushToState(start, log_mask))
        PROVE  ChunkInv'
    <2>1. ~Clearing /\ ~Clearing'
      BY <1>2, <1>5, NotClearing DEF Clearing
    <2> QED BY <1>5, <2>1, NewStateKeepsChunks DEF bufferVars
  <1>6. ASSUME UNCHANGED <<logs, pending, clear>>, logd_lock = {r}, logd_lock' \in {{}, {r}},
               NEW s \in DOMAIN state, chunk' = DetachAll(s), state' = WithoutState(s)
        PROVE  ChunkInv'
    <2>1. ~Clearing /\ ~Clearing'
      BY <1>2, <1>6, NotClearing DEF Clearing
    <2> QED BY <1>6, <2>1, DestroyStateKeepsChunks
  <1>7. CASE OnDataAvailable(r)
    <2>1. Temp(r) \notin DOMAIN state /\ Temp(r) \in States /\ UNCHANGED bufferVars
      BY <1>1, <1>7, StatesType DEF OnDataAvailable, NeedsTemp
    <2>2. \/ UNCHANGED <<logd_lock, state>>
          \/ /\ LockFree /\ logd_lock' = {r}
             /\ \E start, log_mask : state' = WithState(Temp(r), NewFlushToState(start, log_mask))
      BY <1>7, Zenon DEF OnDataAvailable
    <2> QED BY <1>4, <1>5, <2>1, <2>2
  <1>8. CASE FindReturns(r)
    <2>1. Temp(r) \in DOMAIN state
      BY <1>8 DEF FindReturns, NeedsTemp, Parts, ThreadsHaveStates
    <2> QED BY <1>6, <1>8, <2>1 DEF FindReturns
  <1>9. CASE CreateThread(r)
    <2>1. Main(r) \notin DOMAIN state /\ Main(r) \in States
      BY <1>1, <1>9, StatesType DEF CreateThread, NeedsMain
    <2>2. logd_lock' \in {{}, {r}}
      BY <1>9 DEF CreateThread, LockFree
    <2> QED BY <1>5, <1>9, <2>1, <2>2 DEF CreateThread
  <1>10. CASE DoSocketDelete(r)
    BY <1>4, <1>10 DEF DoSocketDelete
  <1>11. CASE DeadlinePasses(r)
    BY <1>4, <1>11 DEF DeadlinePasses
  <1>12. ASSUME NEW t1, LeaveLoop(r, t1), LockFree, UNCHANGED bufferVars
         PROVE  ChunkInv'
    BY <1>3, <1>12 DEF LeaveLoop
  <1>13. CASE LoopTop(r)
    <2>1. Temp(r) \notin DOMAIN state
      BY <1>1, <1>13 DEF LoopTop, NeedsTemp
    <2> QED BY <1>4, <1>12, <1>13, <2>1, EnterFlushToKeepsChunks DEF LoopTop
  <1>14. CASE AfterWaitUntil(r)
    <2>1. Temp(r) \notin DOMAIN state
      BY <1>1, <1>14 DEF AfterWaitUntil, NeedsTemp
    <2>2. LockFree /\ UNCHANGED bufferVars /\ \E t1 : EnterFlushTo(r, t1) \/ LeaveLoop(r, t1)
      BY <1>14, Zenon DEF AfterWaitUntil
    <2> QED BY <1>12, <2>1, <2>2, EnterFlushToKeepsChunks
  <1>15. CASE CheckForNewLogs(r)
    BY <1>15, CheckForNewLogsKeepsChunks
  <1>16. CASE FlushToEntry(r)
    BY <1>16, FlushToEntryKeepsChunks
  <1>17. CASE FlushToNoMore(r)
    BY <1>4, <1>17 DEF FlushToNoMore
  <1>18. CASE WriteSucceeds(r) \/ WriteFails(r)
    BY <1>3, <1>18 DEF WriteSucceeds, WriteFails
  <1>19. CASE FirstPassReturns(r)
    <2>1. Temp(r) \in DOMAIN state /\ logd_lock' \in {{}, {r}}
      BY <1>19 DEF FirstPassReturns, NeedsTemp, Parts, ThreadsHaveStates
    <2> QED BY <1>6, <1>19, <2>1 DEF FirstPassReturns
  <1>20. CASE SecondPassReturns(r)
    BY <1>20, SecondPassReturnsKeepsChunks
  <1>21. CASE ThreadExits(r)
    <2>1. Main(r) \in DOMAIN state
      BY <1>21 DEF ThreadExits, NeedsMain, Parts, ThreadsHaveStates
    <2> QED BY <1>6, <1>21, <2>1 DEF ThreadExits
  <1> QED BY <1>7, <1>8, <1>9, <1>10, <1>11, <1>13, <1>14, <1>15, <1>16, <1>17, <1>18, <1>19,
             <1>20, <1>21 DEF ReaderStep

-----------------------------------------------------------------------------
(***************************************************************************)
(* BufferInv is inductive                                                   *)
(***************************************************************************)

\* Every step of a writer or a command
LEMMA BufferNextKeepsChunks ==
    ASSUME Parts, ChunkInv, BufferNext
    PROVE  ChunkInv'
  <1>1. ASSUME NEW w \in Writers, TakeSequence(w) PROVE ChunkInv'
    BY <1>1, TakeSequenceKeepsChunks
  <1>2. ASSUME NEW w \in Writers, Log(w) PROVE ChunkInv'
    BY <1>2, LogKeepsChunks
  <1>3. ASSUME NEW i \in LogIds, ClearAll(i) PROVE ChunkInv'
    BY <1>3, ClearAllKeepsChunks
  <1>4. ASSUME NEW i \in LogIds, NEW size \in Sizes, SetSize(i, size) PROVE ChunkInv'
    BY <1>4, SetSizeKeepsChunks
  <1>5. ASSUME NEW i \in LogIds, NEW m \in Messages, UidClear(i, m.uid) PROVE ChunkInv'
    <2>1. m.uid \in Nat
      BY MessageAssumption
    <2> QED BY <1>5, <2>1, UidClearKeepsChunks
  <1>6. CASE ReinitTrigger
    BY <1>6, ChunksUnchanged DEF ReinitTrigger
  <1>7. CASE ClearStep
    <2>1. CASE ClearSpliceChunk   BY <2>1, ClearSpliceChunkKeepsChunks
    <2>2. CASE ClearOpenChunk     BY <2>2, ClearOpenChunkKeepsChunks
    <2>3. CASE ClearEntry         BY <2>3, ClearEntryKeepsChunks
    <2>4. CASE ClearEraseChunk    BY <2>4, ClearEraseChunkKeepsChunks
    <2>5. CASE ClearSwap          BY <2>5, ClearSwapKeepsChunks
    <2> QED BY <1>7, <2>1, <2>2, <2>3, <2>4, <2>5 DEF ClearStep
  <1> QED BY <1>1, <1>2, <1>3, <1>4, <1>5, <1>6, <1>7 DEF BufferNext

\* There is no chunk and no state to begin with.
LEMMA InitBufferInv == Init => BufferInv
  <1> SUFFICES ASSUME Init PROVE BufferInv
    OBVIOUS
  <1>1. /\ DOMAIN chunk = {} /\ DOMAIN state = {} /\ DOMAIN pending = {}
        /\ logd_lock = {} /\ logs = [i \in LogIds |-> << >>]
    BY DEF Init, BufferInit
  <1>2. ~Clearing /\ Elements(<< >>) = {}
    BY <1>1 DEF Clearing, Elements
  <1>3. NewestAreWritable
    BY <1>1, <1>2 DEF NewestAreWritable, NewestIsWritable
  <1>4. PendingAreCut /\ ChunksAreSound /\ ReadersArePositioned /\ ChunksAreListed
        /\ StatesHaveThreads
    BY <1>1 DEF PendingAreCut, ChunksAreSound, ReadersArePositioned, ChunksAreListed,
                StatesHaveThreads
  <1> QED BY <1>3, <1>4, InitIInv DEF BufferInv, ChunkInv

\* Every step of logd preserves BufferInv.
LEMMA NextBufferInv == BufferInv /\ [Next]_vars => BufferInv'
  <1> SUFFICES ASSUME BufferInv, [Next]_vars PROVE BufferInv'
    OBVIOUS
  <1>1. Parts /\ StatesHaveThreads /\ ChunkInv
    BY PartsOfIInv DEF BufferInv
  <1>2. IInv'
    BY NextIInv DEF BufferInv
  <1>3. ASSUME NEW r \in Readers,
               \/ OnDataAvailable(r) \/ FindReturns(r) \/ CreateThread(r) \/ DoSocketDelete(r)
               \/ ReaderStep(r) \/ DeadlinePasses(r)
        PROVE  StatesHaveThreads' /\ ChunkInv'
    BY <1>1, <1>3, ReaderKeepsStates, ReadersKeepChunks
  <1>4. ASSUME BufferNext PROVE StatesHaveThreads' /\ ChunkInv'
    BY <1>1, <1>4, BufferNextKeepsStates, BufferNextKeepsChunks
  <1>5. ASSUME UNCHANGED vars PROVE StatesHaveThreads' /\ ChunkInv'
    <2>1. StatesHaveThreads'
      BY <1>1, <1>5 DEF vars, StatesHaveThreads
    <2>2. ChunkInv'
      BY <1>1, <1>5, ChunksUnchanged DEF vars
    <2> QED BY <2>1, <2>2
  <1>6. StatesHaveThreads' /\ ChunkInv'
    BY <1>3, <1>4, <1>5 DEF Next
  <1> QED BY <1>2, <1>6 DEF BufferInv

-----------------------------------------------------------------------------
(***************************************************************************)
(* The theorems                                                             *)
(***************************************************************************)

(***************************************************************************)
(* BufferInv holds in every reachable state, for every value of the         *)
(* constants.                                                               *)
(***************************************************************************)
THEOREM BufferInvariant == Spec => []BufferInv
  BY InitBufferInv, NextBufferInv, PTL DEF Spec

\* BufferInv pins the references of every chunk.
LEMMA CountsOfBufferInv == BufferInv => RefCountsAreExact
  <1> SUFFICES ASSUME BufferInv, NEW c \in DOMAIN chunk
               PROVE  /\ chunk[c].readers =
                            {s \in DOMAIN state : \E i \in DOMAIN state[s].log_positions :
                                                     state[s].log_positions[i].buffer_it = c}
                      /\ chunk[c].reader_ref_count =
                            Cardinality(chunk[c].readers) + (IF IsBeingCopied(c) THEN 1 ELSE 0)
    BY DEF RefCountsAreExact
  <1>1. chunk[c].reader_ref_count =
            Cardinality(chunk[c].readers) + (IF IsBeingCopied(c) THEN 1 ELSE 0)
    BY DEF BufferInv, ChunkInv, ChunksAreSound, IsSound, Copies
  <1>2. \A s \in chunk[c].readers :
            /\ s \in DOMAIN state
            /\ \E i \in DOMAIN state[s].log_positions : state[s].log_positions[i].buffer_it = c
    BY DEF BufferInv, ChunkInv, ReadersArePositioned
  <1>3. \A s \in DOMAIN state : \A i \in DOMAIN state[s].log_positions :
            state[s].log_positions[i].buffer_it = c => s \in chunk[c].readers
    BY DEF BufferInv, IInv, PositionsAreValid
  <1> QED BY <1>1, <1>2, <1>3

\* BufferInv leaves one writable chunk in a log, and that the newest.
LEMMA ListsOfBufferInv == BufferInv => ListsAreSound
  <1> SUFFICES ASSUME BufferInv PROVE ListsAreSound
    OBVIOUS
  <1>1. Parts /\ ChunkInv
    BY PartsOfIInv DEF BufferInv
  <1>2. OnlyNewestIsWritable
    <2> SUFFICES ASSUME NEW list \in Lists, NEW k \in 1 .. Len(list)
                 PROVE  LET c == chunk[list[k]]
                        IN  /\ c.writer_active <=> c.compressed_log = 0
                            /\ c.writer_active => k = Len(list)
                            /\ ~c.writer_active => k < Len(list)
                                                      \/ (Clearing /\ list = clear.new_logs
                                                            /\ ~clear.contains_uid_logs)
      BY DEF OnlyNewestIsWritable
    <2>1. list = clear.new_logs \/ \E i \in LogIds : list = logs[i]
      BY DEF Lists
    <2>2. list \in Seq(ChunkIds) /\ Distinct(list) /\ Elements(list) \subseteq DOMAIN chunk
      BY <1>1, <2>1 DEF Parts, LogsOK, CommandsOK, ListsAreDisjoint
    <2>3. Len(list) \in Nat
      BY <2>2, LenProperties
    <2>4. /\ list[k] \in Elements(list) /\ list[k] \in DOMAIN chunk
          /\ Len(list) \in 1 .. Len(list) /\ Elements(list) # {}
      BY <2>2, <2>3 DEF Elements
    <2>5. chunk[list[k]].writer_active <=> chunk[list[k]].compressed_log = 0
      BY <1>1, <2>4 DEF ChunkInv, ChunksAreSound, IsSound
    <2>6. CASE NewestIsWritable(list, chunk)
      <3>1. chunk[list[k]].writer_active <=> list[k] = list[Len(list)]
        BY <2>4, <2>6 DEF NewestIsWritable
      <3>2. chunk[list[k]].writer_active <=> k = Len(list)
        BY <2>2, <2>4, <3>1 DEF Distinct
      <3> QED BY <2>3, <2>5, <3>2
    <2>7. CASE /\ NoneIsWritable(list, chunk) /\ Clearing /\ list = clear.new_logs
               /\ ~clear.contains_uid_logs
      <3>1. ~chunk[list[k]].writer_active
        BY <2>4, <2>7 DEF NoneIsWritable
      <3> QED BY <2>5, <2>7, <3>1
    <2>8. ~Clearing /\ list = clear.new_logs => NewestIsWritable(list, chunk)
      BY <1>1 DEF Parts, ClearIsConsistent, NewestIsWritable, Elements
    <2> QED BY <1>1, <2>1, <2>6, <2>7, <2>8 DEF ChunkInv, NewestAreWritable
  <1> QED BY <1>1, <1>2 DEF ListsAreSound, ChunksAreOwned, Parts, ChunkInv

(***************************************************************************)
(* reader_ref_count_ of every chunk is the number of states positioned in   *)
(* it and the copy of ClearLogsByUid(): the CHECKs of DecReaderRefCount(),  *)
(* DetachReader() and ~SerializedLogChunk() never fire, whatever readers,   *)
(* writers and commands do in whatever order.                               *)
(***************************************************************************)
THEOREM RefCountsStayExact == Spec => []RefCountsAreExact
  BY BufferInvariant, CountsOfBufferInv, PTL

(***************************************************************************)
(* The contents of a chunk are in memory exactly as long as it is written   *)
(* or read, and no entry was written past their end: the CHECK of           *)
(* log_entry() never fires.                                                 *)
(***************************************************************************)
THEOREM ContentsStayAvailable == Spec => []ContentsAreAvailable
  <1>1. BufferInv => ContentsAreAvailable
    BY DEF BufferInv, ChunkInv, ChunksAreSound, IsSound, ContentsAreAvailable
  <1> QED BY <1>1, BufferInvariant, PTL

(***************************************************************************)
(* Log(), Prune(), SetSize(), Clear() and ClearLogsByUid() leave every      *)
(* chunk in exactly one place of one list, and only the newest of a log     *)
(* writable: the CHECK of FinishWriting() never fires and no chunk leaks.   *)
(***************************************************************************)
THEOREM ListsStaySound == Spec => []ListsAreSound
  BY BufferInvariant, ListsOfBufferInv, PTL
=============================================================================
