----------------------- MODULE SerializedFlushToState -----------------------
(***************************************************************************)
(* logd/SerializedFlushToState.{h,cpp} and FlushToState of logd/LogBuffer.h: *)
(* where one FlushTo() client has read up to in every log buffer.           *)
(*                                                                          *)
(* A state is a record.  log_positions is a partial function: its domain is *)
(* the set of log ids whose std::optional<LogPosition> has a value.         *)
(* logs_needed is the bitset logs_needed_from_next_position_ as a set.  A    *)
(* position names its chunk (buffer_it) by the chunk's identity, so that a  *)
(* reference to an erased chunk can be told from a reference to a live one. *)
(***************************************************************************)
EXTENDS SerializedLogChunk

\* SerializedFlushToState(start, log_mask, logs)
NewFlushToState(start, log_mask) ==
    [start         |-> start,
     log_mask      |-> log_mask,
     log_positions |-> [i \in {} |-> 0],
     logs_needed   |-> log_mask]

HasPosition(st, log_id) == log_id \in DOMAIN st.log_positions

SetPosition(st, log_id, pos) ==
    [st EXCEPT !.log_positions =
        [i \in (DOMAIN st.log_positions) \cup {log_id} |->
            IF i = log_id THEN pos ELSE st.log_positions[i]]]

ResetPosition(st, log_id) ==
    [st EXCEPT !.log_positions =
        [i \in (DOMAIN st.log_positions) \ {log_id} |-> st.log_positions[i]]]

(***************************************************************************)
(* CreateLogPosition() puts the position in the first chunk of the list     *)
(* whose highest sequence number is not below start (the last chunk if      *)
(* there is none), at the first entry whose sequence number is not below    *)
(* start (at the end if there is none).  list is a sequence of chunk        *)
(* identities, chunk the heap.                                              *)
(***************************************************************************)
IsStartChunk(k, start, list, chunk) ==
    /\ \A j \in 1 .. k - 1 : start > chunk[list[j]].highest_sequence_number
    /\ start > chunk[list[k]].highest_sequence_number => k = Len(list)

IsStartOffset(n, start, entries) ==
    /\ \A m \in 1 .. n : entries[m].sequence < start
    /\ n < Len(entries) => entries[n + 1].sequence >= start

\* UpdateLogsNeeded(), read_offset < write_offset()
MoreInChunk(pos, chunk) ==
    pos.read_offset < Len(chunk[pos.buffer_it].entries)

\* The log_entry() of a position
EntryAt(pos, chunk) == chunk[pos.buffer_it].entries[pos.read_offset + 1]

\* HasUnreadLogs(), after CheckForNewLogs()
UnreadLogs(st) == (DOMAIN st.log_positions) \ st.logs_needed

\* Mutant: any unread log will do.
IsNextUnreadLog_Any(st, log_id, chunk) == log_id \in UnreadLogs(st)

\* PopNextUnreadLog(): the log whose next entry has the smallest sequence number
IsNextUnreadLog(st, log_id, chunk) ==
    /\ log_id \in UnreadLogs(st)
    /\ \A j \in UnreadLogs(st) :
          EntryAt(st.log_positions[log_id], chunk).sequence
             <= EntryAt(st.log_positions[j], chunk).sequence

PopNextUnreadLog(st, log_id) ==
    [st EXCEPT
        !.log_positions[log_id].read_offset = @ + 1,
        !.logs_needed = @ \cup {log_id}]

\* Prune(), without the DetachReader() it does on the chunk
PruneState(st, log_id) ==
    [ResetPosition(st, log_id) EXCEPT !.logs_needed = @ \cup {log_id}]
=============================================================================
