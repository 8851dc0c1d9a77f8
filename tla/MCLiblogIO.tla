----------------------------- MODULE MCLiblogIO -----------------------------
(***************************************************************************)
(* What liblog writes and reads: the sockets of logd, the persistent store,    *)
(* the properties that say what is loggable, and binary events.  The parts     *)
(* share no state: a behaviour is one of the part it begins with, and the      *)
(* variables of the others keep the value "off".                             *)
(***************************************************************************)
EXTENDS Integers

VARIABLES
    part,
    sock, pmsg_fd, dropped, th, fds, logd, queue, logged, writes, closes,   \* LogdWriter
    failed, reported, forgotten,
    dev, w, started, lost, files,                                           \* PmsgFile
    file, req, pos, buf, out, status,                                       \* PmsgReader
    property, area, cache, last_tag, global_serial, lock, thread,           \* LogProperties
    changes, calls,
    ctx, parser, made, written                                              \* LogEventList

writerVars == <<sock, pmsg_fd, dropped, th, fds, logd, queue, logged, writes, closes, failed,
                reported, forgotten>>
fileVars == <<dev, w, started, lost, files>>
readerVars == <<file, req, pos, buf, out, status>>
propertyVars == <<property, area, cache, last_tag, global_serial, lock, thread, changes, calls>>
eventVars == <<ctx, parser, made, written>>
vars == <<part, writerVars, fileVars, readerVars, propertyVars, eventVars>>

-----------------------------------------------------------------------------
(***************************************************************************)
(* Two threads that race for sockets and descriptors, a thread that makes      *)
(* every call, and two threads over restarts of logd, with a socket that holds  *)
(* one datagram.                                                            *)
(***************************************************************************)

Text == [api |-> "print", id |-> "default", prio |-> 4, tag |-> 1, len |-> 9, snet |-> FALSE]
Debug == [Text EXCEPT !.api = "write", !.prio = 3]
BadLog == [Text EXCEPT !.id = "security"]
Security == [Text EXCEPT !.api = "bswrite", !.id = "security"]
Snet == [Text EXCEPT !.api = "bwrite", !.id = "events", !.snet = TRUE]
Ext == [Debug EXCEPT !.api = "print_ext"]
Short == [Text EXCEPT !.api = "btwrite", !.id = "events", !.len = 1]

App == [uid |-> "app", can_security |-> TRUE, debuggable |-> FALSE, minimum |-> 4,
        loggable |-> BOOLEAN]
DebugApp == [App EXCEPT !.debuggable = TRUE, !.loggable = {TRUE}]

Race == INSTANCE LogdWriter WITH
    Threads <- {"t1", "t2"}, Messages <- {Text, Security}, Cred <- DebugApp, MaxWrites <- 2,
    MaxFd <- 5, Capacity <- 2, MaxLogd <- 2, MaxCloses <- 1, MaxPayload <- 8, LogBufSize <- 5

Api == INSTANCE LogdWriter WITH
    Threads <- {"t1"}, Messages <- {Text, Debug, BadLog, Security, Snet, Short, Ext}, Cred <- App,
    MaxWrites <- 2, MaxFd <- 5, Capacity <- 1, MaxLogd <- 2, MaxCloses <- 1, MaxPayload <- 8,
    LogBufSize <- 5

Restarts == INSTANCE LogdWriter WITH
    Threads <- {"t1", "t2"}, Messages <- {Text}, Cred <- App, MaxWrites <- 3, MaxFd <- 2,
    Capacity <- 1, MaxLogd <- 2, MaxCloses <- 0, MaxPayload <- 8, LogBufSize <- 5

-----------------------------------------------------------------------------
(***************************************************************************)
(* Two writers of files, of which one has rotations, in a ring of four        *)
(* records; and files of up to four records, cut at both ends, of two logs    *)
(* and two processes, with what looks like a header in a payload.            *)
(***************************************************************************)

NL == "nl"
Numbers == [recovery |-> 0, log |-> 0, log2 |-> 2, log10 |-> 10]
Ranks == [log |-> 2, log10 |-> 3, log2 |-> 4, recovery |-> 5]
NumberOf(n) == Numbers[n]
RankOf(n) == Ranks[n]

Document(id, path, text) == [id |-> id, prio |-> 4, path |-> path, buf |-> text]
Brief == <<"a", NL, "b">>

Store == INSTANCE PmsgFile WITH
    Writers <- {"w1", "w2"}, Number <- NumberOf, Rank <- RankOf, Clean <- DOMAIN Ranks,
    Jobs <- {Document("main", <<"data", "recovery", "log">>,
                      <<"a", "b", NL, "c", NL, "d", "e", "f", "g", "h", "i">>),
             Document("main", <<"recovery", "log2">>, Brief),
             Document("system", <<"recovery", "log10">>,
                      <<NL, "a", "b", "c", "d", "e", "f", "g", "h", "i", NL, "k", "l", "m">>),
             Document("main", <<"recovery">>, Brief),
             Document("events", <<"recovery", "log">>, Brief)},
    Queries <- {[mask |-> {"main", "system"}, prio |-> 0, prefix |-> << >>],
                [mask |-> {"main"}, prio |-> 3, prefix |-> <<"data", "recovery", "log">>]},
    TagLen <- 2, MaxPayload <- 7, MaxSequence <- 3, RingRecords <- 4, MaxJobs <- 3

Stored == [len |-> 2, id |-> "main", sec |-> 5, pid |-> 1, fake |-> FALSE]

Boot == INSTANCE PmsgReader WITH
    Records <- {Stored, [Stored EXCEPT !.fake = TRUE, !.sec = 6],
                [Stored EXCEPT !.id = "events", !.len = 1, !.pid = 2, !.fake = TRUE]},
    Requests <- {[mask |-> {"main", "events"}, start |-> 0, pid |-> 0],
                 [mask |-> {"main"}, start |-> 6, pid |-> 0],
                 [mask |-> {"main", "events"}, start |-> 5, pid |-> 2]},
    Header <- 3, MaxRecords <- 4, MaxEntry <- 20, HdrSize <- 4

-----------------------------------------------------------------------------
(***************************************************************************)
(* Two threads that ask for the level of one tag, and of two, while properties *)
(* change; events of up to six calls, and events from elsewhere.             *)
(***************************************************************************)

Level == INSTANCE LogProperties WITH
    Threads <- {"t1", "t2"}, Tags <- {"A"}, Values <- {"", "V"}, MaxChanges <- 2, MaxCalls <- 3

TwoTags == INSTANCE LogProperties WITH
    Threads <- {"t1", "t2"}, Tags <- {"A", "B"}, Values <- {"V", "E"}, MaxChanges <- 2, MaxCalls <- 2

Event == INSTANCE LogEventList WITH
    calls <- written, MAX_EVENT_PAYLOAD <- 24, ANDROID_MAX_LIST_NEST_DEPTH <- 2,
    CountModulus <- 256, Lengths <- {0, 3, 9}, MaxCalls <- 6, Items <- {}, MaxItems <- 0

Item(type, n) == [type |-> type, n |-> n]

Foreign == INSTANCE LogEventList WITH
    calls <- written, MAX_EVENT_PAYLOAD <- 20, ANDROID_MAX_LIST_NEST_DEPTH <- 2,
    CountModulus <- 256, Lengths <- {0}, MaxCalls <- 0, MaxItems <- 3,
    Items <- {Item("INT", 0), Item("LONG", 0), Item("STRING", 0), Item("STRING", 2),
              Item("LIST", 0), Item("LIST", 1), Item("LIST", 2), Item("LIST", 7),
              Item("LIST", 200), Item("STOP", 0), Item("OTHER", 0)}

-----------------------------------------------------------------------------

WriterOff ==
    /\ sock = "off" /\ pmsg_fd = "off" /\ dropped = "off" /\ th = "off" /\ fds = "off"
    /\ logd = "off" /\ queue = "off" /\ logged = "off" /\ writes = "off" /\ closes = "off"
    /\ failed = "off" /\ reported = "off" /\ forgotten = "off"

FileOff == dev = "off" /\ w = "off" /\ started = "off" /\ lost = "off" /\ files = "off"

ReaderOff ==
    /\ file = "off" /\ req = "off" /\ pos = "off" /\ buf = "off" /\ out = "off" /\ status = "off"

PropertyOff ==
    /\ property = "off" /\ area = "off" /\ cache = "off" /\ last_tag = "off"
    /\ global_serial = "off" /\ lock = "off" /\ thread = "off" /\ changes = "off" /\ calls = "off"

EventOff == ctx = "off" /\ parser = "off" /\ made = "off" /\ written = "off"

Init ==
    \/ /\ FileOff /\ ReaderOff /\ PropertyOff /\ EventOff
       /\ \/ part = "race" /\ Race!Init
          \/ part = "api" /\ Api!Init
          \/ part = "restarts" /\ Restarts!Init
    \/ part = "store" /\ Store!Init /\ WriterOff /\ ReaderOff /\ PropertyOff /\ EventOff
    \/ part = "boot" /\ Boot!Init /\ WriterOff /\ FileOff /\ PropertyOff /\ EventOff
    \/ /\ WriterOff /\ FileOff /\ ReaderOff /\ EventOff
       /\ \/ part = "level" /\ Level!Init
          \/ part = "tags" /\ TwoTags!Init
    \/ /\ WriterOff /\ FileOff /\ ReaderOff /\ PropertyOff
       /\ \/ part = "event" /\ Event!Init
          \/ part = "foreign" /\ Foreign!ForeignInit

Next ==
    \/ /\ \/ part = "race" /\ Race!Next
          \/ part = "api" /\ Api!Next
          \/ part = "restarts" /\ Restarts!Next
       /\ UNCHANGED <<part, fileVars, readerVars, propertyVars, eventVars>>
    \/ /\ part = "store" /\ Store!Next
       /\ UNCHANGED <<part, writerVars, readerVars, propertyVars, eventVars>>
    \/ /\ part = "boot" /\ Boot!Next
       /\ UNCHANGED <<part, writerVars, fileVars, propertyVars, eventVars>>
    \/ /\ \/ part = "level" /\ Level!Next
          \/ part = "tags" /\ TwoTags!Next
       /\ UNCHANGED <<part, writerVars, fileVars, readerVars, eventVars>>
    \/ /\ \/ part = "event" /\ Event!Next
          \/ part = "foreign" /\ Foreign!ReadNext
       /\ UNCHANGED <<part, writerVars, fileVars, readerVars, propertyVars>>

Spec == Init /\ [][Next]_vars

-----------------------------------------------------------------------------

\* Threads take the count of dropped messages, report it and put it back when that
\* fails: over restarts of logd no refused message is counted twice or forgotten, none
\* is refused without a cause, and what arrives does so once and in order.
DroppedIsAccounted ==
    /\ part = "restarts" => /\ Restarts!DroppedIsAccounted /\ Restarts!RefusedOnlyForCause
                            /\ Restarts!ArriveOnceInOrder
    /\ part = "api" => /\ Api!DroppedIsAccounted /\ Api!RefusedOnlyForCause
                       /\ Api!ArriveOnceInOrder

\* GetSocket() and GetPmsgFd() race by compare and exchange: what is published is open
\* and of its kind until __android_log_close(), and the loser leaks nothing.
PublishedIsOpen ==
    /\ part = "race" => Race!PublishedIsOpen /\ Race!NoDescriptorLeak
    /\ part = "api" => Api!PublishedIsOpen /\ Api!NoDescriptorLeak

\* A file written to pmsg before a crash is read after it as far as it was written, but
\* for records that the ring lost, and rotations in order, by the first number in their
\* directory and name (pmsg_reader.cpp:323); and PmsgRead() finds each whole record in a
\* ring that begins and ends anywhere.
PmsgIsRestored ==
    /\ part = "store" => /\ Store!FilesAreRestored /\ Store!LinesAreNotSplit
                         /\ Store!OldestRotationFirst
    /\ part = "boot" => Boot!WholeRecordsAreRead

\* __android_log_level() answers from caches that threads share under a trylock as if
\* there were none, if no property changes meanwhile.  With more than one tag ("tags") a
\* global property is left out that was set for the first time and that no call has looked
\* at since: calls whose tag has a level of its own record the serial number of all
\* properties, and later ones see no change (properties.cpp:188, 228).  The order is the
\* code's, persist.log.tag.<tag> before log.tag.<tag> (properties.cpp:168), not that
\* of the comment at properties.cpp:109 or of logd/README.property:52.
LevelIsCurrent ==
    /\ part = "level" => Level!LevelIsCurrent /\ Level!LowestOfTheTwo
    /\ part = "tags" => TwoTags!LevelIsCurrentOrUnseen

\* The parser of events returns what was written, up to where it overflowed, and comes
\* to the end of any message within its bounds.  Excluded are lists nested as deep as only
\* the writer goes (log_event_list.cpp:500), lists of more than 127 elements (:510), and
\* the count of a string that was cut (:231).
EventsRoundTrip ==
    /\ part = "event" => Event!RoundTrip /\ Event!Truncated /\ Event!ParserIsInBounds
    /\ part = "foreign" => Foreign!ReadingEnds /\ Foreign!ParserIsInBounds
=============================================================================
