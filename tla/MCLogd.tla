------------------------------- MODULE MCLogd -------------------------------
(***************************************************************************)
(* Values for the constants of Logd.  With SIZEOF_ENTRY 1, a size of 16 and *)
(* the divisor 4, a chunk holds two entries of uid 2 or one of uid 1.       *)
(***************************************************************************)
EXTENDS Logd, TLC

Message(log_id, uid, realtime) ==
    [log_id |-> log_id, uid |-> uid, pid |-> uid, realtime |-> realtime,
     msg_len |-> IF uid = 1 THEN 9 ELSE 1]

Request(start, timeout, tail, non_block) ==
    [tail |-> tail, start |-> start, timeout |-> timeout, lids |-> LogIds, pid |-> 0,
     non_block |-> non_block, privileged |-> TRUE, uid |-> 1, can_read_security |-> TRUE]

\* Two apps log into one buffer.
TwoUids == {Message(0, 1, 1), Message(0, 2, 1)}

\* One app logs into two buffers.
TwoLogs == {Message(0, 1, 1), Message(1, 1, 1)}

\* One app logs with a clock that is not monotonic.
TwoTimes == {Message(0, 1, 1), Message(0, 1, 2)}

\* Two apps log into one buffer, the second an entry with a later time stamp.
TwoUidsTwoTimes == {Message(0, 1, 1), Message(0, 2, 2)}

OneMessage == {Message(0, 2, 1)}

\* logcat
Follow == {Request(EPOCH, FALSE, 0, FALSE)}

\* logcat -T time, logcat with a timeout, and an app reading its own log
FromTime == {Request(1, FALSE, 0, FALSE), Request(1, TRUE, 0, FALSE),
             [Request(EPOCH, FALSE, 0, FALSE) EXCEPT !.privileged = FALSE, !.pid = 1]}

\* logcat, also with a start time and a timeout
Timeouts == {Request(EPOCH, FALSE, 0, FALSE), Request(1, TRUE, 0, FALSE)}

\* logcat -t 1, logcat -t 2, logcat -T 1, and a client that names a count and a
\* start time, which liblog does not do
Tails == {Request(EPOCH, FALSE, 1, TRUE), Request(EPOCH, FALSE, 2, TRUE),
          Request(EPOCH, FALSE, 1, FALSE), Request(1, FALSE, 1, TRUE)}

AnyRequest == FromTime \cup Tails

ReaderSymmetry == Permutations(Readers)
=============================================================================
