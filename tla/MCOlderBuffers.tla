--------------------------- MODULE MCOlderBuffers ---------------------------
(***************************************************************************)
(* The buffers that ro.logd.buffer_type may select instead of the serialized   *)
(* one.  A behaviour is one of the scenario it begins with; a scenario of the  *)
(* simple buffer keeps the variables of the chatty one at "off".              *)
(***************************************************************************)
EXTENDS Integers, PruneList

VARIABLES
    part,
    logs, oldest, stats, sequence, max_size, reader, lock, todo, prune, clear, commands,
    delivered, skipped,                                             \* SimpleLogBuffer
    last_logged, duplicate, mLastWorst, mLastWorstPidOfSystem,      \* ChattyLogBuffer
    rules, expired, logged

simpleVars == <<logs, oldest, stats, sequence, max_size, reader, lock, todo, prune, clear,
                commands, delivered, skipped>>
chattyVars == <<last_logged, duplicate, mLastWorst, mLastWorstPidOfSystem, rules, expired, logged>>
vars == <<part, simpleVars, chattyVars>>

-----------------------------------------------------------------------------
(***************************************************************************)
(* Values that all scenarios share.  The limits of integers are small enough  *)
(* to be reached.                                                           *)
(***************************************************************************)

ElementOverhead == 3
TrackTotalSize == FALSE
HourSec == 100
SizeModulus == 1000
LIBLOG_LOG_TAG == 5
Minute == 4
TooOld == 3
EXPIRE_RATELIMIT == 1
EXPIRE_THRESHOLD == 2
USHRT_MAX == 2
INT32_MAX == 3

Msg(id, uid, pid, msg) ==
    [id |-> id, uid |-> uid, pid |-> pid, tid |-> pid, seq |-> 0, time |-> 1, len |-> 2,
     tag |-> 0, msg |-> msg, dropped |-> 0, avc |-> "", count |-> 0]

Event(tag, number) == [Msg("events", 10, 7, "e") EXCEPT !.tag = tag, !.count = number]

Req(mask, uid, deadline, non_block) ==
    [mask |-> mask, uid |-> uid, deadline |-> deadline, non_block |-> non_block]

BothClears == {[id |-> "main", uid |-> 0], [id |-> "main", uid |-> 10]}

Follow == [r \in {"r1"} |-> Req({"main", "radio"}, 0, FALSE, FALSE)]

\* A reader of one log, and a reader of one uid that waits for a deadline
TwoReaders == [r \in {"r1", "r2"} |-> IF r = "r1" THEN Req({"main"}, 0, FALSE, FALSE)
                                      ELSE Req({"main", "radio"}, 10, TRUE, FALSE)]

-----------------------------------------------------------------------------
(***************************************************************************)
(* The simple buffer, with one reader and Clear(), and with two readers and   *)
(* Init() again.                                                            *)
(***************************************************************************)

Cleared == INSTANCE SimpleLogBuffer WITH
    Logs <- {"main", "radio"}, Enable <- FALSE, KMinPrune <- 1, KMaxPrune <- 2,
    Readers <- {"r1"}, Request <- TwoReaders,
    Messages <- {Msg("main", 10, 7, "m"), Msg("main", 20, 7, "m"), Msg("radio", 10, 7, "m")},
    BufferSizes <- {3}, Reinits <- {}, Clears <- BothClears, MaxLogged <- 4, MaxCommands <- 1

Shared == INSTANCE SimpleLogBuffer WITH
    Logs <- {"main", "radio"}, Enable <- FALSE, KMinPrune <- 1, KMaxPrune <- 2,
    Readers <- {"r1", "r2"}, Request <- TwoReaders,
    Messages <- {Msg("main", 10, 7, "m"), Msg("radio", 10, 7, "m")},
    BufferSizes <- {3}, Reinits <- {6}, Clears <- {}, MaxLogged <- 3, MaxCommands <- 1

\* What SimpleLogBufferProofs assumes of the constants
ASSUME SimpleScenarios == Cleared!SimpleConstants /\ Shared!SimpleConstants

-----------------------------------------------------------------------------
(***************************************************************************)
(* The chatty buffer: two senders one of which is worse, processes of system   *)
(* one of which is worst, a reader, events of liblog, audit messages, and      *)
(* rules that change while the buffer is cleared.                            *)
(***************************************************************************)

Senders == {Msg("main", 10, 7, "a"), Msg("main", 10, 7, "b"), Msg("main", 20, 8, "a")}

Worst == INSTANCE ChattyLogBuffer WITH
    Logs <- {"main"}, Enable <- FALSE, KMinPrune <- 3, KMaxPrune <- 4, Readers <- {},
    Request <- Follow, Messages <- Senders, BufferSizes <- {8}, Reinits <- {}, Clears <- {},
    Filters <- {<<WorstUid>>}, MaxLogged <- 8, MaxCommands <- 0

System == INSTANCE ChattyLogBuffer WITH
    Logs <- {"main"}, Enable <- FALSE, KMinPrune <- 2, KMaxPrune <- 3, Readers <- {},
    Request <- Follow,
    Messages <- {Msg("main", 1000, 7, "a"), Msg("main", 1000, 7, "b"),
                 Msg("main", 1000, 8, "a"), Msg("main", 20, 9, "a")},
    BufferSizes <- {6}, Reinits <- {}, Clears <- {}, Filters <- {InternalDefault},
    MaxLogged <- 7, MaxCommands <- 0

Read == INSTANCE ChattyLogBuffer WITH
    Logs <- {"main", "radio"}, Enable <- FALSE, KMinPrune <- 2, KMaxPrune <- 3,
    Readers <- {"r1"}, Request <- Follow,
    Messages <- {Msg("main", 10, 7, "a"), Msg("main", 20, 8, "b"), Msg("radio", 10, 7, "a")},
    BufferSizes <- {4}, Reinits <- {}, Clears <- {},
    Filters <- {<<WorstUid>>, <<Word(FALSE, 10, ALL, "")>>}, MaxLogged <- 5, MaxCommands <- 0

Liblog == INSTANCE ChattyLogBuffer WITH
    Logs <- {"events"}, Enable <- TRUE, KMinPrune <- 2, KMaxPrune <- 3, Readers <- {},
    Request <- Follow, Messages <- {Event(5, 1), Event(5, 2), Event(6, 0)}, BufferSizes <- {40},
    Reinits <- {}, Clears <- {}, Filters <- {<<WorstUid>>}, MaxLogged <- 6, MaxCommands <- 0

Avc == INSTANCE ChattyLogBuffer WITH
    Logs <- {"main", "security"}, Enable <- FALSE, KMinPrune <- 2, KMaxPrune <- 3,
    Readers <- {}, Request <- Follow,
    Messages <- {[Msg("main", 10, 7, m) EXCEPT !.avc = "denied"] : m \in {"audit(1)", "audit(2)"}}
                \cup {[Msg("security", 10, 7, "s") EXCEPT !.tag = 3],
                      [Msg("main", 10, 7, "z") EXCEPT !.time = 9]},
    BufferSizes <- {4}, Reinits <- {}, Clears <- {}, Filters <- {<<WorstUid>>},
    MaxLogged <- 6, MaxCommands <- 0

Rules == INSTANCE ChattyLogBuffer WITH
    Logs <- {"main"}, Enable <- FALSE, KMinPrune <- 2, KMaxPrune <- 3, Readers <- {},
    Request <- Follow, Messages <- Senders, BufferSizes <- {4}, Reinits <- {},
    Clears <- BothClears,
    Filters <- {<<WorstUid, Word(TRUE, 10, ALL, "")>>, <<Word(FALSE, 10, ALL, "")>>, << >>},
    MaxLogged <- 5, MaxCommands <- 2

-----------------------------------------------------------------------------

ChattyOff ==
    /\ last_logged = "off" /\ duplicate = "off" /\ mLastWorst = "off"
    /\ mLastWorstPidOfSystem = "off" /\ rules = "off" /\ expired = "off" /\ logged = "off"

Init ==
    \/ part = "cleared" /\ Cleared!Init /\ ChattyOff
    \/ part = "shared" /\ Shared!Init /\ ChattyOff
    \/ part = "worst" /\ Worst!ChattyInit
    \/ part = "system" /\ System!ChattyInit
    \/ part = "read" /\ Read!ChattyInit
    \/ part = "liblog" /\ Liblog!ChattyInit
    \/ part = "avc" /\ Avc!ChattyInit
    \/ part = "rules" /\ Rules!ChattyInit

Next ==
    /\ \/ part = "cleared" /\ Cleared!Next /\ UNCHANGED chattyVars
       \/ part = "shared" /\ Shared!Next /\ UNCHANGED chattyVars
       \/ part = "worst" /\ Worst!ChattyNext
       \/ part = "system" /\ System!ChattyNext
       \/ part = "read" /\ Read!ChattyNext
       \/ part = "liblog" /\ Liblog!ChattyNext
       \/ part = "avc" /\ Avc!ChattyNext
       \/ part = "rules" /\ Rules!ChattyNext
    /\ UNCHANGED part

Spec == Init /\ [][Next]_vars

-----------------------------------------------------------------------------

\* FlushTo() writes an element to the client after it gives up logd_lock, because
\* "we never prune logs equal to or newer than any LogReaderThreads' start value":
\* the element stays in the list as it is until the client has it, whatever is pruned,
\* cleared, squashed or coalesced meanwhile.
ElementIsSafe ==
    [][/\ part = "cleared" => Cleared!ElementIsKept
       /\ part = "shared" => Shared!ElementIsKept
       /\ part = "read" => Read!ElementIsKept]_vars

\* In the simple buffer a reader is sent its logs in order and once, and one that waits
\* has missed nothing, from the first it was sent, but what it was told to skip: Prune()
\* and Clear() take nothing that it has not passed, a wakeup is not lost, and a log over
\* twice its size has released whoever held on to it.  Left out, because the code does
\* miss messages there: a reader with a deadline (r2 of "shared") and any reader after
\* Init() ran again, which may be woken with nothing to read and then goes past the next
\* number (SimpleLogBuffer.cpp:211).  Of the chatty buffer only that nothing is sent
\* twice is checked: a copy that was held back enters the list behind higher numbers
\* (ChattyLogBuffer.cpp:129), and a reader that has passed them never gets it.
ReadersGetTheirLogs ==
    /\ part = "cleared" => /\ Cleared!OnlySkippedIsMissing /\ Cleared!InOrder
                           /\ Cleared!NoLostWakeup /\ Cleared!PressureReleases
    /\ part = "shared" => /\ Shared!NoLostWakeup /\ Shared!InOrder
                          /\ commands = 0 => Shared!MissesOnlySkipped("r1")
    /\ part = "read" => Read!SentOnce

\* oldest_, the watermarks of the worst senders and the iterators Prune() goes on with
\* are to elements of the list, after any pruning, clearing and change of the rules.
IteratorsAreLive ==
    /\ part = "cleared" => Cleared!OldestIsExact
    /\ part = "shared" => Shared!OldestIsExact
    /\ part = "worst" => Worst!OldestIsExact /\ Worst!WatermarksAreLive /\ Worst!PruneIteratorsAreLive
    /\ part = "system" => System!WatermarksAreLive /\ System!PruneIteratorsAreLive
    /\ part = "rules" => Rules!OldestIsExact /\ Rules!PruneIteratorsAreLive

\* What was logged and not pruned is in the list, counted by a chatty element or held
\* back, each message once; the statistics count the same elements.  Of the events of
\* liblog ("liblog") only that their sum counts no message twice: it is meant to start
\* again at INT32_MAX, and two that report the same number are taken for one message
\* repeated (ChattyLogBuffer.cpp:69), so the sum may be less than what was reported.
EveryMessageIsCounted ==
    /\ part = "cleared" => Cleared!StatsMatchList
    /\ part = "worst" => Worst!EveryMessageIsCounted /\ Worst!StatsMatchList
    /\ part = "system" => System!EveryMessageIsCounted
    /\ part = "read" => Read!EveryMessageIsCounted
    /\ part = "avc" => Avc!EveryMessageIsCounted
    /\ part = "liblog" => Liblog!LiblogIsNotInflated
=============================================================================
