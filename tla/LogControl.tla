------------------------------ MODULE LogControl ------------------------------
(***************************************************************************)
(* The control protocol of logd: logcat's commands (logcat.cpp) are sent by *)
(* SendLogdControlMessage() (liblog/logd_reader.cpp) over a stream socket  *)
(* with a time-out, and are run one after the other by the thread of       *)
(* CommandListener.  A reply arrives in pieces.  The client gives up after *)
(* two seconds without an answer and after 20 ms without more of one.      *)
(***************************************************************************)
EXTENDS Integers, Sequences, FiniteSets, FiniteSetsExt, SequencesExt

CONSTANTS Clients,
          Jobs,         \* commands: [cmd, id, arg, args_ok]
          Privileged,   \* the clients with log credentials
          LogIds,       \* LOG_ID_MAIN .. LOG_ID_KERNEL
          ValidSizes,   \* sizes LogBuffer::SetSize() accepts
          ValidRules,   \* rules PruneList::Init() accepts
          SmallBuf,     \* the 512 bytes of most commands, below PAGE_SIZE
          FirstBuf,     \* the 8192 bytes logcat begins with
          MaxRetry,     \* 32
          MaxText       \* bound: the statistics are at most this long

VARIABLES cl,       \* the clients
          queue,    \* accepted connections with a command, in order
          stream,   \* the reply to each client: [reply, sent]
          clearing, \* the client whose Clear() runs, or "none"
          size, prune, content,     \* what the commands read and change
          text,     \* how long the statistics are now
          done      \* history: the commands that took effect, by client

logdstate == <<size, prune, content, text>>
vars == <<cl, queue, stream, clearing, logdstate, done>>

NoReply == [kind |-> "none", size |-> 0, total |-> 0]
Reply(kind, n) == [kind |-> kind, size |-> n, total |-> n]

Init == /\ \E j \in [Clients -> Jobs] :
               cl = [c \in Clients |->
                        [pc |-> "send", job |-> j[c], buf |-> 0, got |-> 0, reply |-> NoReply,
                         ret |-> 0, retry |-> MaxRetry, gave_up |-> FALSE]]
        /\ queue = <<>> /\ clearing = "none"
        /\ stream = [c \in Clients |-> [reply |-> NoReply, sent |-> 0]]
        /\ size = [id \in LogIds |-> 1] /\ prune = "default"
        /\ content = LogIds \X {"root", "app"} /\ text \in 1 .. MaxText
        /\ done = [c \in Clients |-> FALSE]

-----------------------------------------------------------------------------
RECURSIVE Digits(_)
Digits(n) == IF n < 10 THEN 1 ELSE 1 + Digits(n \div 10)

(* PackageString(): "<length>\n<data>\n\f", where the length counts itself; *)
(* size is the length of the string, total the number it begins with.       *)
PackageString(n) ==
    LET str_size_digits == Digits(n + 3)
        total_size_digits == Digits(n + 3 + str_size_digits)
        overhead_length == IF total_size_digits # str_size_digits THEN 4 ELSE 3
        total_size == n + overhead_length + str_size_digits
    IN  [kind |-> "package", size |-> Digits(total_size) + n + 3, total |-> total_size]

(* The reply and the effect of each command (the runCommand() functions).   *)
Set(c, reply, new_size, new_prune, effect) ==
    /\ stream' = [stream EXCEPT ![c] = [reply |-> reply, sent |-> 0]]
    /\ size' = new_size /\ prune' = new_prune
    /\ done' = [done EXCEPT ![c] = effect]
    /\ queue' = Tail(queue)
    /\ UNCHANGED <<cl, clearing, content, text>>

Answer(c, reply) == Set(c, reply, size, prune, FALSE)

LogIdError(j) == IF ~j.args_ok THEN "Missing Argument" ELSE "Range Error"
HasLogId(j) == j.args_ok /\ j.id \in LogIds

GetSize(c, j) ==
    /\ j.cmd = "getLogSize"
    /\ Answer(c, IF HasLogId(j) THEN Reply("number", 2) ELSE Reply(LogIdError(j), 3))

SetSize_AlwaysSuccess(c, j) == j.cmd = "setLogSize" /\ Answer(c, Reply("success", 3))
SetSize(c, j) ==
    /\ j.cmd = "setLogSize"
    /\ IF c \notin Privileged THEN Answer(c, Reply("Permission Denied", 3))
       ELSE IF ~HasLogId(j) THEN Answer(c, Reply(LogIdError(j), 3))
       ELSE IF j.arg \notin ValidSizes THEN Answer(c, Reply("busy", 3))
       ELSE Set(c, Reply("success", 3), [size EXCEPT ![j.id] = j.arg], prune, TRUE)

SetPrune(c, j) ==
    /\ j.cmd = "setPruneList"
    /\ IF c \notin Privileged THEN Answer(c, Reply("Permission Denied", 3))
       ELSE IF j.arg \notin ValidRules THEN Answer(c, Reply("Invalid", 3))
       ELSE Set(c, Reply("success", 3), size, j.arg, TRUE)

(* getStatistics and getPruneList answer with a package, and so does        *)
(* getEventTag unless id= is mixed with name= or format=.                   *)
GetPackage(c, j) ==
    /\ j.cmd = "getStatistics"
    /\ Answer(c, IF j.args_ok THEN PackageString(text) ELSE Reply("Range Error", 3))

GetEventTag(c, j) ==
    /\ j.cmd = "getEventTag"
    /\ Answer(c, IF j.args_ok THEN PackageString(text) ELSE Reply("can not mix", 3))

(* reinit re-reads sizes and rules; exit is answered before the connection  *)
(* is released.                                                             *)
Reinit(c, j) == /\ j.cmd = "reinit"
                /\ Set(c, Reply("success", 3), [id \in LogIds |-> 1], "default", TRUE)
Exit(c, j) == j.cmd = "exit" /\ Set(c, Reply("success", 3), size, prune, TRUE)

RunCommand ==
    /\ queue # <<>> /\ clearing = "none"
    /\ LET c == Head(queue)   j == cl[c].job
       IN  \/ GetSize(c, j) \/ SetSize(c, j) \/ SetPrune(c, j)
           \/ GetPackage(c, j) \/ GetEventTag(c, j) \/ Reinit(c, j) \/ Exit(c, j)

(* ClearCmd: Clear() may sleep, and nobody else is served meanwhile.        *)
StartClear ==
    /\ queue # <<>> /\ clearing = "none"
    /\ LET c == Head(queue)   j == cl[c].job
       IN  /\ j.cmd = "clear"
           /\ IF HasLogId(j)
              THEN clearing' = c /\ UNCHANGED stream
              ELSE /\ stream' = [stream EXCEPT ![c] = [reply |-> Reply(LogIdError(j), 3), sent |-> 0]]
                   /\ UNCHANGED clearing
    /\ queue' = Tail(queue)
    /\ UNCHANGED <<cl, logdstate, done>>

ClearEffect(c) ==
    content \ ({cl[c].job.id} \X (IF c \in Privileged THEN {"root", "app"} ELSE {"app"}))

FinishClear ==
    /\ clearing # "none"
    /\ \E ok \in BOOLEAN :
           /\ stream' = [stream EXCEPT ![clearing] =
                  [reply |-> Reply(IF ok THEN "success" ELSE "busy", 3), sent |-> 0]]
           /\ content' = IF ok THEN ClearEffect(clearing) ELSE content
           /\ done' = [done EXCEPT ![clearing] = ok]
    /\ clearing' = "none"
    /\ UNCHANGED <<cl, queue, size, prune, text>>

(* The socket hands over the next piece of a reply, at least a byte.        *)
SendPiece(c) ==
    /\ cl[c].pc \in {"read", "more"}
    /\ \E n \in stream[c].sent + 1 .. stream[c].reply.size :
           stream' = [stream EXCEPT ![c].sent = n]
    /\ UNCHANGED <<cl, queue, clearing, logdstate, done>>

Grow == /\ text < MaxText /\ text' = text + 1
        /\ UNCHANGED <<cl, queue, stream, clearing, size, prune, content, done>>

-----------------------------------------------------------------------------
IsPackage(j) == j.cmd \in {"getStatistics", "getEventTag"}

(* SendLogdControlMessage(): connect and write the command. *)
Send(c) ==
    /\ cl[c].pc = "send"
    /\ cl' = [cl EXCEPT ![c].pc = "read", ![c].got = 0,
                        ![c].buf = IF ~IsPackage(cl[c].job) THEN SmallBuf
                                   ELSE IF @ = 0 THEN FirstBuf ELSE @]
    /\ queue' = Append(queue, c)
    /\ stream' = [stream EXCEPT ![c] = [reply |-> NoReply, sent |-> 0]]
    /\ UNCHANGED <<clearing, logdstate, done>>

(* read(): all there is and fits; a small buffer is read once, a large one  *)
(* until it is full.                                                        *)
Read(c) ==
    LET here == Min({stream[c].sent, cl[c].buf})
    IN  /\ cl[c].pc \in {"read", "more"} /\ stream[c].sent > cl[c].got
        /\ cl' = [cl EXCEPT ![c].got = here, ![c].reply = stream[c].reply, ![c].ret = here,
                            ![c].pc = IF ~IsPackage(cl[c].job) \/ here = cl[c].buf
                                      THEN "replied" ELSE "more"]
        /\ UNCHANGED <<queue, stream, clearing, logdstate, done>>

(* poll() for 20 ms, then two seconds: the other side sent nothing more.    *)
(* Nothing more of a whole reply is the normal end.                         *)
PollTimeout(c) ==
    /\ cl[c].pc = "more" /\ cl[c].got = stream[c].sent
    /\ cl' = [cl EXCEPT ![c].pc = "replied",
                        ![c].gave_up = @ \/ cl[c].got < stream[c].reply.size]
    /\ UNCHANGED <<queue, stream, clearing, logdstate, done>>

ReadTimeout(c) ==
    /\ cl[c].pc = "read" /\ stream[c].sent = 0
    /\ cl' = [cl EXCEPT ![c].pc = "failed", ![c].ret = -1, ![c].gave_up = TRUE]
    /\ UNCHANGED <<queue, stream, clearing, logdstate, done>>

(* check_log_success(), of the commands that change something.              *)
CheckSuccess(c) ==
    /\ cl[c].pc = "replied" /\ ~IsPackage(cl[c].job) /\ cl[c].job.cmd # "getLogSize"
    /\ cl' = [cl EXCEPT ![c].pc =
                 IF cl[c].reply.kind = "success" /\ cl[c].got = cl[c].reply.size
                 THEN "ok" ELSE "failed"]
    /\ UNCHANGED <<queue, stream, clearing, logdstate, done>>

(* GetLogSize(): what does not begin with a number is a failure.            *)
GetLogSize(c) ==
    /\ cl[c].pc = "replied" /\ cl[c].job.cmd = "getLogSize"
    /\ cl' = [cl EXCEPT ![c].pc = IF cl[c].reply.kind = "number" THEN "ok" ELSE "failed"]
    /\ UNCHANGED <<queue, stream, clearing, logdstate, done>>

(* atol() of what was received of the length. *)
ret_length(c) ==
    LET r == cl[c].reply   missing == Digits(r.total) - cl[c].got
    IN  IF r.kind # "package" THEN 0
        ELSE IF missing <= 0 THEN r.total
        ELSE r.total \div (CASE missing = 1 -> 10 [] missing = 2 -> 100 [] OTHER -> 1000)


Fits(c) == ret_length(c) < cl[c].buf

(* The loop of logcat -S and -p: again with a larger buffer, at most 32      *)
(* times, until the announced length fits.                                  *)
Retry(c) ==
    /\ cl[c].pc = "replied" /\ IsPackage(cl[c].job)
    /\ cl' = [cl EXCEPT ![c] =
                 IF ret_length(c) < 3 THEN [@ EXCEPT !.pc = "failed"]
                 ELSE IF Fits(c) THEN [@ EXCEPT !.pc = "ok", !.ret = ret_length(c)]
                 ELSE IF cl[c].retry = 0 THEN [@ EXCEPT !.pc = "failed"]
                 ELSE [@ EXCEPT !.pc = "send", !.retry = @ - 1, !.buf = ret_length(c) + 1]]
    /\ UNCHANGED <<queue, stream, clearing, logdstate, done>>

Client(c) == \/ Send(c) \/ Read(c) \/ PollTimeout(c) \/ ReadTimeout(c)
             \/ CheckSuccess(c) \/ GetLogSize(c) \/ Retry(c)

Next == \/ \E c \in Clients : Client(c) \/ SendPiece(c)
        \/ RunCommand \/ StartClear \/ FinishClear \/ Grow

Spec == /\ Init /\ [][Next]_vars
        /\ \A c \in Clients : WF_vars(Client(c))

-----------------------------------------------------------------------------
(* check_log_success() believes an answer only if logd did what was asked,   *)
(* however late or in however many pieces the answers of other clients and  *)
(* its own come.                                                            *)
SuccessMeansDone ==
    \A c \in Clients : cl[c].pc = "ok" /\ cl[c].job.cmd \in {"setLogSize", "setPruneList", "clear"}
                           => done[c]

(* logcat prints the whole of one answer, though the statistics change and   *)
(* grow while it asks again with a larger buffer: the length PackageString() *)
(* announces is that of the answer, and it is what was received, unless     *)
(* logd paused for longer than the client waits.                            *)
StatisticsAreWhole ==
    \A c \in Clients : cl[c].pc = "ok" /\ IsPackage(cl[c].job) /\ ~cl[c].gave_up
        => cl[c].ret = cl[c].reply.size /\ cl[c].got = cl[c].reply.size
=============================================================================
