--------------------------- MODULE LogdRefinement ---------------------------
(***************************************************************************)
(* The serialized log buffer implements LogBuffer.  The entries of a log    *)
(* are those of its chunks in order; while ClearLogsByUid() rewrites it,    *)
(* those of the new chunks, then what is left to visit of the old ones.     *)
(***************************************************************************)
EXTENDS Logd, SequencesExt

EntriesIn(heap, list) == FlattenSeq([k \in 1 .. Len(list) |-> heap[list[k]].entries])

\* What ClearLogsByUid() has not come to, if it is at entry n of the first chunk
LeftToVisit(heap, list, n) ==
    IF n = 0 THEN EntriesIn(heap, list)
    ELSE LET entries == heap[Head(list)].entries
         IN  SubSeq(entries, n, Len(entries)) \o EntriesIn(heap, Tail(list))

LogOf(i) ==
    IF Clearing /\ i = clear.log_id
    THEN EntriesIn(chunk, clear.new_logs) \o LeftToVisit(chunk, logs[i], clear.entry)
    ELSE EntriesIn(chunk, logs[i])

EntryValues == [sequence : 1 .. MaxSequence,
                realtime : {m.realtime : m \in Messages},
                uid      : {m.uid : m \in Messages},
                pid      : {m.pid : m \in Messages},
                msg_len  : 1 .. LOGGER_ENTRY_MAX_PAYLOAD]

AbstractLog      == [i \in LogIds |-> LogOf(i)]
AbstractClearing == IF Clearing THEN {<<clear.log_id, clear.uid>>} ELSE {}
AbstractTaken    == [r \in Readers |-> thread[r].out]

Abstract == INSTANCE LogBuffer WITH
    Entries  <- EntryValues,
    log      <- AbstractLog,
    clearing <- AbstractClearing,
    taken    <- AbstractTaken,
    sent     <- delivered

\* Chunks, compression, positions and the unlocked write are invisible: every step
\* of logd is one of the abstract log buffer, or leaves it as it is.
ImplementsLogBuffer == Abstract!LogSpec

(***************************************************************************)
(* What the steps of logd need to be steps of LogBuffer, besides LogdInv    *)
(* and SizeInv                                                              *)
(***************************************************************************)

\* What is logged, or about to be, comes from a message.
EntriesAreValues ==
    /\ sequence \in Nat \ {0}
    /\ \A w \in DOMAIN pending : pending[w].entry \in EntryValues
    /\ \A c \in DOMAIN chunk : chunk[c].entries \in Seq(EntryValues)

\* A thread holds the number of an entry exactly while it writes it.
OutIsWritten == \A r \in Readers : thread[r].out # 0 <=> thread[r].pc = "write"

\* ClearLogsByUid() takes over no entry of the uid.
CopiesAreOfOthers ==
    Clearing => \A c \in Elements(clear.new_logs) : \A k \in 1 .. Len(chunk[c].entries) :
                    chunk[c].entries[k].uid # clear.uid

MapInv == EntriesAreValues /\ OutIsWritten /\ CopiesAreOfOthers
=============================================================================
