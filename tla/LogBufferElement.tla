--------------------------- MODULE LogBufferElement ---------------------------
(***************************************************************************)
(* logd/LogBufferElement.{h,cpp}: an entry of SimpleLogBuffer and of         *)
(* ChattyLogBuffer.  A dropped ("chatty") element has given up its message   *)
(* and stands for dropped_count messages; otherwise dropped_count is 0.      *)
(* The element is the record                                                 *)
(*   [id, uid, pid, tid, seq, time, len, tag, msg, dropped]                  *)
(***************************************************************************)
EXTENDS Integers, Sequences

CONSTANT ElementOverhead    \* sizeof(LogBufferElement) plus the pointers of std::list

Binary == {"events", "stats", "security"}
IsBinary(id) == id \in Binary

msg_len(e) == IF e.dropped > 0 THEN 0 ELSE e.len
dropped_count(e) == e.dropped

\* Only messages of binary logs have a tag; a dropped one keeps it in place of msg_.
GetTag(e) == IF IsBinary(e.id) THEN e.tag ELSE 0

SetDropped(e, value) == [e EXCEPT !.dropped = value]

ToLogStatisticsElement(e) ==
    [id |-> e.id, uid |-> e.uid, pid |-> e.pid, tid |-> e.tid, tag |-> GetTag(e),
     time |-> e.time, name |-> e.msg, msg_len |-> msg_len(e), dropped |-> e.dropped,
     total_len |-> ElementOverhead + msg_len(e)]

=============================================================================
