------------------------- MODULE SerializedLogChunk -------------------------
(***************************************************************************)
(* logd/SerializedLogChunk.{h,cpp} and logd/SerializedLogEntry.h: one chunk *)
(* of the serialized log buffer, as a record, and its operations.           *)
(*                                                                          *)
(* The bytes of contents_ are abstracted to the sequence of the entries     *)
(* written into it, so an offset is the number of entries before it.  The   *)
(* sizes the code compares are kept: contents is contents_.size(),          *)
(* compressed_log is compressed_log_.size() and write_offset is in bytes.   *)
(***************************************************************************)
EXTENDS Integers, Sequences, FiniteSets

CONSTANTS
    SIZEOF_ENTRY,    \* sizeof(SerializedLogEntry)
    SIZEOF_CHUNK     \* sizeof(SerializedLogChunk)

ASSUME SizeofAssumption == SIZEOF_ENTRY \in Nat /\ SIZEOF_CHUNK \in Nat

\* SerializedLogEntry::total_len()
total_len(entry) == SIZEOF_ENTRY + entry.msg_len

\* explicit SerializedLogChunk(size_t size)
NewChunk(size) ==
    [contents                |-> size,
     entries                 |-> << >>,
     write_offset            |-> 0,
     reader_ref_count        |-> 0,
     writer_active           |-> TRUE,
     highest_sequence_number |-> 1,
     compressed_log          |-> 0,
     readers                 |-> {}]

\* Mutant: the contents are freed under the readers.
FinishWriting_FreesAlways(chunk, zsize) ==
    [chunk EXCEPT !.writer_active = FALSE, !.compressed_log = zsize, !.contents = 0]

\* FinishWriting(): zsize is the size CompressionEngine::Compress() produced.
FinishWriting(chunk, zsize) ==
    [chunk EXCEPT
        !.writer_active  = FALSE,
        !.compressed_log = zsize,
        !.contents       = IF chunk.reader_ref_count = 0 THEN 0 ELSE @]

\* IncReaderRefCount(): the first reader of a finished chunk decompresses it.
IncReaderRefCount(chunk) ==
    [chunk EXCEPT
        !.reader_ref_count = @ + 1,
        !.contents = IF chunk.reader_ref_count = 0 /\ ~chunk.writer_active
                     THEN chunk.write_offset ELSE @]

\* DecReaderRefCount(): the last reader of a finished chunk frees its contents.
DecReaderRefCount(chunk) ==
    [chunk EXCEPT
        !.reader_ref_count = @ - 1,
        !.contents = IF chunk.reader_ref_count = 1 /\ ~chunk.writer_active
                     THEN 0 ELSE @]

AttachReader(chunk, reader) ==
    IncReaderRefCount([chunk EXCEPT !.readers = @ \cup {reader}])

\* Mutant: the reference is leaked.
DetachReader_KeepsReference(chunk, reader) ==
    [chunk EXCEPT !.readers = @ \ {reader}]

DetachReader(chunk, reader) ==
    DecReaderRefCount([chunk EXCEPT !.readers = @ \ {reader}])

CanLog(chunk, len) == chunk.write_offset + len <= chunk.contents

\* Mutant: highest_sequence_number_ is not brought up to date.
LogEntry_ForgetsHighest(chunk, entry) ==
    [chunk EXCEPT !.entries = Append(@, entry), !.write_offset = @ + total_len(entry)]

\* SerializedLogChunk::Log()
LogEntry(chunk, entry) ==
    [chunk EXCEPT
        !.entries                 = Append(@, entry),
        !.write_offset            = @ + total_len(entry),
        !.highest_sequence_number = entry.sequence]

PruneSize(chunk) ==
    SIZEOF_CHUNK + (IF chunk.compressed_log # 0 THEN chunk.compressed_log
                                                ELSE chunk.contents)
=============================================================================
