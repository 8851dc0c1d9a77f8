------------------------------- MODULE MCTools -------------------------------
(***************************************************************************)
(* The tools around the log: logcat into files, commands that run under        *)
(* logwrapper, and the commands and statistics of logd that `logcat -S`, -G,   *)
(* -P and -c ask for.  The parts share no state: a behaviour is one of the      *)
(* part it begins with, and the variables of the others keep the value "off". *)
(***************************************************************************)
EXTENDS PruneList

VARIABLES
    part,
    log, files, idfile, p, crashes,                                             \* Logcat
    parent, abbr, logged, child, exit, pty, opened, holders, sig, written,      \* Logwrap
    signals, consumed, given, killed,
    cl, queue, stream, clearing, size, prune, content, text, done,              \* LogControl
    list, filter,                                                               \* PruneList
    contents, stats, added                                              \* StatisticsOfBuffer

logcatVars == <<log, files, idfile, p, crashes>>
wrapVars == <<parent, abbr, logged, child, exit, pty, opened, holders, sig, written, signals,
              consumed, given, killed>>
controlVars == <<cl, queue, stream, clearing, size, prune, content, text, done>>
pruneVars == <<list, filter>>
statsVars == <<contents, stats, added>>
vars == <<part, logcatVars, wrapVars, controlVars, pruneVars, statsVars>>

-----------------------------------------------------------------------------
(***************************************************************************)
(* logcat with two rotated files that is killed and started again; and one     *)
(* with --max-count, whose --id changes.                                     *)
(***************************************************************************)

Message(id, sel) == [id |-> id, sel |-> sel]

Rotating == INSTANCE Logcat WITH
    MaxRotated <- 2, RotateSize <- 2, MaxCount <- 0, PrintAnyway <- FALSE, Dividers <- TRUE,
    Signatures <- {"a"}, Kinds <- {Message("main", "match"), Message("main", "other")},
    MaxMessages <- 5, MaxCrashes <- 1, Base <- 2, Digits <- 2

Counting == INSTANCE Logcat WITH
    MaxRotated <- 2, RotateSize <- 2, MaxCount <- 2, PrintAnyway <- TRUE, Dividers <- TRUE,
    Signatures <- {"a", "b"},
    Kinds <- {Message("main", "match"), Message("main", "other"), Message("events", "match")},
    MaxMessages <- 3, MaxCrashes <- 1, Base <- 2, Digits <- 2

-----------------------------------------------------------------------------
(***************************************************************************)
(* A command that writes lines longer than the buffer, CR before NL and empty   *)
(* lines; one whose output is abbreviated, over the end of the ring; and one   *)
(* that closes its output, leaves a process behind and is sent signals.       *)
(***************************************************************************)

LongLines == INSTANCE Logwrap WITH
    p <- parent, Chars <- {"x", "NL", "CR"}, BufSize <- 4, BeginSize <- 4, EndSize <- 4,
    Abbreviated <- FALSE, Forward <- FALSE, WantStatus <- FALSE, MaxOutput <- 5,
    MaxSignals <- 0, Grandchild <- FALSE, Detach <- FALSE

LongOutput == INSTANCE Logwrap WITH
    p <- parent, Chars <- {"x", "NL"}, BufSize <- 4, BeginSize <- 3, EndSize <- 4,
    Abbreviated <- TRUE, Forward <- FALSE, WantStatus <- FALSE, MaxOutput <- 7,
    MaxSignals <- 0, Grandchild <- FALSE, Detach <- FALSE

Signalled == INSTANCE Logwrap WITH
    p <- parent, Chars <- {"x"}, BufSize <- 4, BeginSize <- 4, EndSize <- 4,
    Abbreviated <- FALSE, Forward <- TRUE, WantStatus <- FALSE, MaxOutput <- 1,
    MaxSignals <- 2, Grandchild <- TRUE, Detach <- TRUE

-----------------------------------------------------------------------------
(***************************************************************************)
(* A privileged client and an app with a command each; `logcat -S` while the   *)
(* statistics grow; and prune lists of up to two rules.                       *)
(***************************************************************************)

Job(cmd, id, arg, ok) == [cmd |-> cmd, id |-> id, arg |-> arg, args_ok |-> ok]

Commands == INSTANCE LogControl WITH
    Clients <- {"root", "app"}, Privileged <- {"root"}, LogIds <- {0, 1}, ValidSizes <- {1, 2},
    ValidRules <- {"rules"}, SmallBuf <- 5, FirstBuf <- 6, MaxRetry <- 2, MaxText <- 1,
    Jobs <- {Job("clear", 0, 0, TRUE), Job("clear", 9, 0, TRUE),
             Job("setLogSize", 0, 2, TRUE), Job("setLogSize", 0, 7, TRUE),
             Job("setLogSize", 0, 2, FALSE), Job("setPruneList", 0, "rules", TRUE),
             Job("setPruneList", 0, "wrong", TRUE), Job("getLogSize", 0, 0, TRUE),
             Job("reinit", 0, 0, TRUE), Job("exit", 0, 0, TRUE)}

Statistics == INSTANCE LogControl WITH
    Clients <- {"root"}, Privileged <- {"root"}, LogIds <- {0}, ValidSizes <- {1},
    ValidRules <- {"rules"}, SmallBuf <- 5, FirstBuf <- 8, MaxRetry <- 3, MaxText <- 12,
    Jobs <- {Job("getStatistics", 0, 0, TRUE), Job("getStatistics", 0, 0, FALSE),
             Job("getEventTag", 0, 0, TRUE), Job("getEventTag", 0, 0, FALSE)}

Words == {Word(n, u, q, "") : n \in BOOLEAN, u \in {WORST, ALL, SYSTEM, 5}, q \in {ALL, WORST, 7}}
         \cup {Word(TRUE, 5, 7, "x"), Word(TRUE, WORST, ALL, "x")}

\* Nothing follows ~! but text, and a pid "!" only ~1000/.
Writable(w) ==
    /\ w.uid = WORST => w.not /\ w.pid = ALL
    /\ w.pid = WORST => w.not /\ w.uid = SYSTEM

Filters == UNION {[1 .. n -> {w \in Words : Writable(w)}] : n \in 0 .. 2}

Senders == [uid : {5, 6, 1000}, pid : {7, 8}]

PruneInit == filter = << >> /\ list = InitList(InternalDefault)

PruneNext ==
    \/ \E f \in Filters : filter' = f /\ list' = InitList(f)
    \/ \E n, ro, persist \in {"default", "disable"} :
           filter' = << >> /\ list' = InitList(Resolve(n, ro, persist))

\* What getPruneList prints can be given to setPruneList: it is accepted and makes the
\* same rules, for the rules that any filter, right or wrong, left.
PrintedRulesAreTheRules == InitList(Format(list)) = [list EXCEPT !.ok = TRUE]

\* A filter is accepted only as a whole: each of its words has become a rule that picks
\* the elements it names, with the priority it names.
AcceptedMeansApplied ==
    list.ok => \A i \in DOMAIN filter : \A e \in Senders :
        (/\ filter[i].uid >= ALL /\ filter[i].uid \in {ALL, e.uid}
         /\ filter[i].pid >= ALL /\ filter[i].pid \in {ALL, e.pid}) =>
            IF filter[i].not THEN IsHighPriority(list, e) ELSE IsLowPriority(list, e)

-----------------------------------------------------------------------------
(***************************************************************************)
(* The statistics of three elements: of a buffer that tracks total sizes, also  *)
(* with a clock that is set, and of one that has chatty elements.             *)
(***************************************************************************)

Source(id, uid, pid, tag, len) ==
    [id |-> id, uid |-> uid, pid |-> pid, tid |-> pid, seq |-> 0, time |-> 0, len |-> len,
     tag |-> tag, msg |-> "m", dropped |-> 0]

SomeSources == {Source("main", 1000, 7, 0, 1), Source("main", 10, 8, 0, 2),
                Source("events", 1000, 7, 5, 1), Source("events", 1000, 7, 6, 1)}

Serialized == INSTANCE StatisticsOfBuffer WITH
    TrackTotalSize <- TRUE, Times <- {1, 2, 9}, Sources <- SomeSources, ElementOverhead <- 3,
    Logs <- {"main", "events"}, Enable <- TRUE, KMinPrune <- 1, KMaxPrune <- 3, HourSec <- 3,
    SizeModulus <- 1000, Month <- 100, MaxElements <- 3, MaxAdded <- 3

Chatty == INSTANCE StatisticsOfBuffer WITH
    TrackTotalSize <- FALSE, Times <- {1}, Sources <- SomeSources, ElementOverhead <- 3,
    Logs <- {"main", "events"}, Enable <- TRUE, KMinPrune <- 1, KMaxPrune <- 3, HourSec <- 3,
    SizeModulus <- 1000, Month <- 100, MaxElements <- 3, MaxAdded <- 3

-----------------------------------------------------------------------------

LogcatOff == log = "off" /\ files = "off" /\ idfile = "off" /\ p = "off" /\ crashes = "off"

WrapOff ==
    /\ parent = "off" /\ abbr = "off" /\ logged = "off" /\ child = "off" /\ exit = "off"
    /\ pty = "off" /\ opened = "off" /\ holders = "off" /\ sig = "off" /\ written = "off"
    /\ signals = "off" /\ consumed = "off" /\ given = "off" /\ killed = "off"

ControlOff ==
    /\ cl = "off" /\ queue = "off" /\ stream = "off" /\ clearing = "off" /\ size = "off"
    /\ prune = "off" /\ content = "off" /\ text = "off" /\ done = "off"

PruneOff == list = "off" /\ filter = "off"

StatsOff == contents = "off" /\ stats = "off" /\ added = "off"

Init ==
    \/ /\ WrapOff /\ ControlOff /\ PruneOff /\ StatsOff
       /\ \/ part = "rotating" /\ Rotating!Init
          \/ part = "counting" /\ Counting!Init
    \/ /\ LogcatOff /\ ControlOff /\ PruneOff /\ StatsOff
       /\ \/ part = "long lines" /\ LongLines!Init
          \/ part = "long output" /\ LongOutput!Init
          \/ part = "signalled" /\ Signalled!Init
    \/ /\ LogcatOff /\ WrapOff /\ PruneOff /\ StatsOff
       /\ \/ part = "commands" /\ Commands!Init
          \/ part = "statistics" /\ Statistics!Init
    \/ part = "prune list" /\ PruneInit /\ LogcatOff /\ WrapOff /\ ControlOff /\ StatsOff
    \/ /\ LogcatOff /\ WrapOff /\ ControlOff /\ PruneOff
       /\ \/ part = "serialized" /\ Serialized!Init
          \/ part = "chatty" /\ Chatty!Init

Next ==
    \/ /\ \/ part = "rotating" /\ Rotating!Next
          \/ part = "counting" /\ Counting!Next
       /\ UNCHANGED <<part, wrapVars, controlVars, pruneVars, statsVars>>
    \/ /\ \/ part = "long lines" /\ LongLines!Next
          \/ part = "long output" /\ LongOutput!Next
          \/ part = "signalled" /\ Signalled!Next
       /\ UNCHANGED <<part, logcatVars, controlVars, pruneVars, statsVars>>
    \/ /\ \/ part = "commands" /\ Commands!Next
          \/ part = "statistics" /\ Statistics!Next
       /\ UNCHANGED <<part, logcatVars, wrapVars, pruneVars, statsVars>>
    \/ /\ part = "prune list" /\ PruneNext
       /\ UNCHANGED <<part, logcatVars, wrapVars, controlVars, statsVars>>
    \/ /\ \/ part = "serialized" /\ Serialized!Next
          \/ part = "chatty" /\ Chatty!Next
       /\ UNCHANGED <<part, logcatVars, wrapVars, controlVars, pruneVars>>

Spec == Init /\ [][Next]_vars

-----------------------------------------------------------------------------

\* RotateLogs() and the search for where the last logcat stopped: wherever logcat is
\* killed and started again, no printable message is missing between two lines that are
\* kept, and while there is an output file no line is in it twice, as long as the times of
\* the messages do not decrease.  Messages are missing only at a restart: those less than
\* the precision that lastLogTime() guesses after the last line, that is those of its
\* printed time, and when all the times it finds end in 0 (logcat.cpp:480) those of the
\* next 10 ms, 100 ms or second.
LogcatMissesNothing ==
    /\ part = "rotating" => Rotating!NothingMissing /\ Rotating!NoReplayOfFile
    /\ part = "counting" => Counting!NothingMissing /\ Counting!NoReplayOfFile

\* Of the output that parent() has read, not abbreviated, it logs the lines however read()
\* cuts them up.  Abbreviated, the buffers hold the first lines and the last bytes of what
\* log_line() was given, whatever wraps around.  Excluded are output that is unread when
\* the child is found gone (logwrap.cpp:454), and of abbreviated output lines that a CR at
\* the end of a read joins (:413) and a last line without its end (:209).
\* A signal that is forwarded never goes to the pid of a child that was reaped, and the
\* caller's signals are restored.
WrappedOutputIsWhole ==
    /\ part = "long lines" => LongLines!LinesDoNotDependOnReads
    /\ part = "long output" => LongOutput!BeginningIsTheHead /\ LongOutput!RingIsTheTail
    /\ part = "signalled" => Signalled!NeverSignalsReaped /\ Signalled!SignalsAreRestored

\* A client of CommandListener believes an answer only if logd did what it asked, gets
\* the whole of one answer though the statistics grow while it asks again, unless logd
\* pauses for longer than the client waits (20 ms), and gets the prune list as rules that
\* make the same list.
AnswersAreTrue ==
    /\ part = "commands" => Commands!SuccessMeansDone
    /\ part = "statistics" => Statistics!StatisticsAreWhole
    /\ part = "prune list" => PrintedRulesAreTheRules /\ AcceptedMeansApplied

\* The counters and tables of LogStatistics add up to what the buffer holds, whatever
\* was added, dropped, coalesced and expired; the largest entries are found in any order;
\* and no span is negative however the clock is set.  With chatty elements the tables by
\* tag and tag name are excluded: Drop() takes the whole length from the latter
\* (LogStatistics.cpp:287), and elements of different tags are coalesced
\* (ChattyLogBuffer.cpp:242).
StatisticsMatch ==
    /\ part = "serialized" => /\ Serialized!CountersMatch /\ Serialized!TablesMatch
                              /\ Serialized!TagNamesMatch /\ Serialized!TopEntries
                              /\ Serialized!SpanNotNegative /\ Serialized!TotalSpanBetween
    /\ part = "chatty" => Chatty!CountersMatch /\ Chatty!TablesMatch /\ Chatty!TopEntries
=============================================================================
