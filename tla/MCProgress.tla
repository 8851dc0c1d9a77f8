----------------------------- MODULE MCProgress -----------------------------
(***************************************************************************)
(* What must end, ends: the commands and the readers of the older buffers,     *)
(* writers of liblog, clients of the control socket and wrapped commands.      *)
(* The parts share no state: a behaviour is one of the part it begins with,    *)
(* and the variables of the others keep the value "off".                     *)
(***************************************************************************)
EXTENDS Integers, PruneList

VARIABLES
    part,
    logs, oldest, stats, sequence, max_size, reader, lock, todo, prune, clear, commands,
    delivered, skipped,                                             \* SimpleLogBuffer
    last_logged, duplicate, mLastWorst, mLastWorstPidOfSystem,      \* ChattyLogBuffer
    rules, expired, logged,
    sock, pmsg_fd, dropped, th, fds, logd, datagrams, received,     \* LogdWriter
    writes, closes, failed, reported, forgotten,
    cl, waiting, stream, clearing, size, pruneList, content, text, done,  \* LogControl
    p, abbr, output, child, exit, pty, opened, holders, sig,        \* Logwrap
    written, signals, consumed, given, killed

simpleVars == <<logs, oldest, stats, sequence, max_size, reader, lock, todo, prune, clear,
                commands, delivered, skipped>>
chattyVars == <<last_logged, duplicate, mLastWorst, mLastWorstPidOfSystem, rules, expired, logged>>
writerVars == <<sock, pmsg_fd, dropped, th, fds, logd, datagrams, received, writes, closes,
                failed, reported, forgotten>>
controlVars == <<cl, waiting, stream, clearing, size, pruneList, content, text, done>>
wrapVars == <<p, abbr, output, child, exit, pty, opened, holders, sig, written, signals,
              consumed, given, killed>>
vars == <<part, simpleVars, chattyVars, writerVars, controlVars, wrapVars>>

-----------------------------------------------------------------------------
(***************************************************************************)
(* A simple buffer that is cleared while a reader dumps it, and a chatty one   *)
(* whose rules change.                                                      *)
(***************************************************************************)

Msg(id, uid, pid, msg) ==
    [id |-> id, uid |-> uid, pid |-> pid, tid |-> pid, seq |-> 0, time |-> 1, len |-> 2,
     tag |-> 0, msg |-> msg, dropped |-> 0, avc |-> "", count |-> 0]

Request == [r \in {"r1"} |-> [mask |-> {"main"}, uid |-> 0, deadline |-> TRUE, non_block |-> TRUE]]

Dump == INSTANCE SimpleLogBuffer WITH
    ElementOverhead <- 3, TrackTotalSize <- FALSE, HourSec <- 100, SizeModulus <- 1000,
    Logs <- {"main"}, Enable <- FALSE, KMinPrune <- 1, KMaxPrune <- 2, Readers <- {"r1"},
    Messages <- {Msg("main", 10, 7, "m")}, BufferSizes <- {3}, Reinits <- {},
    Clears <- {[id |-> "main", uid |-> 0]}, MaxLogged <- 2, MaxCommands <- 1

Chatty == INSTANCE ChattyLogBuffer WITH
    ElementOverhead <- 3, TrackTotalSize <- FALSE, HourSec <- 100, SizeModulus <- 1000,
    Logs <- {"main"}, Enable <- FALSE, KMinPrune <- 2, KMaxPrune <- 3, Readers <- {},
    Messages <- {Msg("main", 10, 7, "a"), Msg("main", 20, 8, "a")}, BufferSizes <- {4},
    Reinits <- {}, Clears <- {[id |-> "main", uid |-> 10]}, MaxLogged <- 5, MaxCommands <- 1,
    Filters <- {<<WorstUid, Word(TRUE, 10, ALL, "")>>, <<WorstUid>>},
    LIBLOG_LOG_TAG <- 5, Minute <- 4, TooOld <- 3, EXPIRE_RATELIMIT <- 1, EXPIRE_THRESHOLD <- 2,
    USHRT_MAX <- 2, INT32_MAX <- 3

\* A process that fills the socket of one datagram, also with security messages
Text == [api |-> "print", id |-> "default", prio |-> 4, tag |-> 1, len |-> 9, snet |-> FALSE]

Writer == INSTANCE LogdWriter WITH
    queue <- datagrams, logged <- received, Threads <- {"t1"},
    Messages <- {Text, [Text EXCEPT !.api = "bswrite", !.id = "security"]},
    Cred <- [uid |-> "app", can_security |-> TRUE, debuggable |-> FALSE, minimum |-> 4,
             loggable |-> BOOLEAN],
    MaxWrites <- 2, MaxFd <- 2, Capacity <- 1, MaxLogd <- 2, MaxCloses <- 0, MaxPayload <- 8,
    LogBufSize <- 5

\* A client, of a logd that may never answer it or only a part
Job(cmd) == [cmd |-> cmd, id |-> 0, arg |-> 0, args_ok |-> TRUE]

Control == INSTANCE LogControl WITH
    queue <- waiting, prune <- pruneList, Clients <- {"root"}, Privileged <- {"root"},
    Jobs <- {Job("clear"), Job("getLogSize"), Job("getStatistics")},
    LogIds <- {0}, ValidSizes <- {1, 2}, ValidRules <- {"rules"}, SmallBuf <- 3, FirstBuf <- 4,
    MaxRetry <- 1, MaxText <- 3

\* A command that leaves a process behind or closes its output, and signals
Wrapped == INSTANCE Logwrap WITH
    logged <- output, Chars <- {"x"}, BufSize <- 4, BeginSize <- 4, EndSize <- 4,
    Abbreviated <- FALSE, Forward <- TRUE, WantStatus <- FALSE, MaxOutput <- 1,
    MaxSignals <- 1, Grandchild <- TRUE, Detach <- TRUE

-----------------------------------------------------------------------------

SimpleOff ==
    /\ logs = "off" /\ oldest = "off" /\ stats = "off" /\ sequence = "off" /\ max_size = "off"
    /\ reader = "off" /\ lock = "off" /\ todo = "off" /\ prune = "off" /\ clear = "off"
    /\ commands = "off" /\ delivered = "off" /\ skipped = "off"

ChattyOff ==
    /\ last_logged = "off" /\ duplicate = "off" /\ mLastWorst = "off"
    /\ mLastWorstPidOfSystem = "off" /\ rules = "off" /\ expired = "off" /\ logged = "off"

WriterOff ==
    /\ sock = "off" /\ pmsg_fd = "off" /\ dropped = "off" /\ th = "off" /\ fds = "off"
    /\ logd = "off" /\ datagrams = "off" /\ received = "off" /\ writes = "off"
    /\ closes = "off" /\ failed = "off" /\ reported = "off" /\ forgotten = "off"

ControlOff ==
    /\ cl = "off" /\ waiting = "off" /\ stream = "off" /\ clearing = "off" /\ size = "off"
    /\ pruneList = "off" /\ content = "off" /\ text = "off" /\ done = "off"

WrapOff ==
    /\ p = "off" /\ abbr = "off" /\ output = "off" /\ child = "off" /\ exit = "off"
    /\ pty = "off" /\ opened = "off" /\ holders = "off" /\ sig = "off" /\ written = "off"
    /\ signals = "off" /\ consumed = "off" /\ given = "off" /\ killed = "off"

Init ==
    \/ part = "dump" /\ Dump!Init /\ ChattyOff /\ WriterOff /\ ControlOff /\ WrapOff
    \/ part = "chatty" /\ Chatty!ChattyInit /\ WriterOff /\ ControlOff /\ WrapOff
    \/ part = "writer" /\ Writer!Init /\ SimpleOff /\ ChattyOff /\ ControlOff /\ WrapOff
    \/ part = "control" /\ Control!Init /\ SimpleOff /\ ChattyOff /\ WriterOff /\ WrapOff
    \/ part = "wrapped" /\ Wrapped!Init /\ SimpleOff /\ ChattyOff /\ WriterOff /\ ControlOff

Next ==
    \/ /\ part = "dump" /\ Dump!Next
       /\ UNCHANGED <<part, chattyVars, writerVars, controlVars, wrapVars>>
    \/ /\ part = "chatty" /\ Chatty!ChattyNext
       /\ UNCHANGED <<part, writerVars, controlVars, wrapVars>>
    \/ /\ part = "writer" /\ Writer!Next
       /\ UNCHANGED <<part, simpleVars, chattyVars, controlVars, wrapVars>>
    \/ /\ part = "control" /\ Control!Next
       /\ UNCHANGED <<part, simpleVars, chattyVars, writerVars, wrapVars>>
    \/ /\ part = "wrapped" /\ Wrapped!Next
       /\ UNCHANGED <<part, simpleVars, chattyVars, writerVars, controlVars>>

\* A thread that can go on does, and one that waits for logd_lock gets it in the end.
\* A client that does not read what it is sent may stay so; no command is bound to end.
Fairness ==
    /\ WF_simpleVars(part = "dump" /\ Dump!LogStep)
    /\ SF_simpleVars(part = "dump" /\ Dump!ClearStep)
    /\ SF_simpleVars(part = "dump" /\ Dump!LoopTop("r1"))
    /\ WF_simpleVars(part = "dump" /\ Dump!FlushStep("r1"))
    /\ WF_simpleVars(part = "dump" /\ Dump!Deadline("r1"))
    /\ WF_<<simpleVars, chattyVars>>(part = "chatty" /\ Chatty!PruneNext)
    /\ WF_writerVars(part = "writer" /\ Writer!Running("t1"))
    /\ WF_writerVars(part = "writer" /\ Writer!HandleData)
    /\ WF_writerVars(part = "writer" /\ Writer!LogdStart)
    /\ WF_controlVars(part = "control" /\ Control!Client("root"))
    /\ WF_wrapVars(part = "wrapped" /\ Wrapped!Parent)
    /\ WF_wrapVars(part = "wrapped" /\ Wrapped!HandleSignal)
    /\ WF_wrapVars(part = "wrapped" /\ Wrapped!ChildStarts)

Spec == Init /\ [][Next]_vars /\ Fairness

-----------------------------------------------------------------------------

In(name, predicate) == part = name /\ predicate

\* "Try three times to clear, then disconnect the readers and try one final time":
\* Clear() ends though a client never takes what it is sent, and so does a reader
\* that was released or that reads once, unless its client does not take it.
ClearEnds ==
    /\ In("dump", clear.pc # "none") ~> In("dump", clear.pc = "none")
    /\ In("dump", reader["r1"].pc \notin {"idle", "gone"})
           ~> In("dump", reader["r1"].pc \in {"gone", "write"})

\* Prune() of the chatty buffer ends though each round of its first pass may find
\* another worst sender, by a size that may be one of an element that was erased.
PruneEnds ==
    In("chatty", prune.pc \notin {"none", "return"}) ~> In("chatty", prune.pc \in {"none", "return"})

\* A call returns: a full socket makes only the security writer wait, until LogListener
\* has emptied it; a client of the control socket gives up on a logd that does not
\* answer; and logwrap_fork_execvp() sees the end of a command that never opened its
\* terminal, once nothing the command left behind has it.
CallsReturn ==
    /\ In("writer", th["t1"].pc # "idle") ~> In("writer", th["t1"].pc = "idle")
    /\ In("control", TRUE) ~> In("control", \A c \in DOMAIN cl : cl[c].pc \in {"ok", "failed"})
    /\ In("wrapped", child \in {"zombie", "reaped"} /\ holders = {}) ~> In("wrapped", p.pc = "done")
=============================================================================
