------------------------------ MODULE LogdWriter ------------------------------
(***************************************************************************)
(* The write path of liblog in one process: write_to_log() of              *)
(* logger_write.cpp, LogdWrite() with its lazily opened sockets and its    *)
(* count of dropped messages (logd_writer.cpp), PmsgWrite() with its lazily*)
(* opened descriptor (pmsg_writer.cpp), and the receiving end,             *)
(* LogListener::HandleData().  The kernel (descriptor table, datagram      *)
(* socket of bounded capacity) and the restarts of logd are external.      *)
(* Every atomic access and every system call is one step of a thread.      *)
(***************************************************************************)
EXTENDS Integers, Sequences, FiniteSets, FiniteSetsExt, SequencesExt

CONSTANTS Threads,      \* the threads of the process
          Messages,     \* the calls they make: [api, id, prio, tag (its length), len, snet]
          Cred,         \* the process: [uid, can_security, debuggable, minimum,
                        \* loggable], the last the answers about "liblog"
          MaxWrites,    \* bound: writes in a behaviour
          MaxFd,        \* descriptors are 0 .. MaxFd
          Capacity,     \* datagrams the logdw socket holds
          MaxLogd,      \* bound: how often logd is started
          MaxCloses,    \* bound: calls of __android_log_close()
          MaxPayload,   \* LOGGER_ENTRY_MAX_PAYLOAD
          LogBufSize    \* LOG_BUF_SIZE

kUninitialized == -1
Sockets == {"blocking", "nonblocking"}
Fds == 0 .. MaxFd
Closed == [kind |-> "closed", peer |-> 0]

VARIABLES sock,     \* LogdSocket::sock_ of the two sockets
          pmsg_fd,  \* 0 is "not opened yet", -1 "not available"
          dropped,  \* the static atomic_int of LogdWrite
          th,       \* the threads: program counter and locals
          fds,      \* the descriptor table of the process
          logd,     \* [up, incarnation]: connections name the incarnation
          queue,    \* datagrams in logd's socket
          logged,   \* what LogListener handed to the log buffer
          writes, closes,               \* bounded counters
          failed, reported, forgotten   \* history of the dropped count

kernel == <<fds, logd, queue, logged>>
history == <<failed, reported, forgotten>>
vars == <<sock, pmsg_fd, dropped, th, kernel, writes, closes, history>>

Sum(s) == FoldLeft(+, 0, s)
Idle == [pc |-> "idle", msg |-> CHOOSE m \in Messages : TRUE, n |-> 0, snapshot |-> 0,
         new |-> kUninitialized, excused |-> FALSE]

Init == /\ sock = [s \in Sockets |-> kUninitialized]
        /\ pmsg_fd = 0 /\ dropped = 0
        /\ th = [t \in Threads |-> Idle]
        /\ \E stdin \in {"closed", "stdin"} :
               fds = [f \in Fds |-> IF f = 0 THEN [Closed EXCEPT !.kind = stdin] ELSE Closed]
        /\ logd = [up |-> FALSE, incarnation |-> 0]
        /\ queue = <<>> /\ logged = <<>>
        /\ writes = 0 /\ closes = 0
        /\ failed = 0 /\ reported = 0 /\ forgotten = 0

-----------------------------------------------------------------------------
(* The iovecs that are sent: the payload is cut at LOGGER_ENTRY_MAX_PAYLOAD. *)
NewVec(vec) ==
    LET payloadSize(i) == Sum(SubSeq(vec, 1, i))
        over == {i \in 1 .. Len(vec) : payloadSize(i) > MaxPayload}
    IN  IF over = {} THEN vec
        ELSE LET i == Min(over)
                 iov_len == vec[i] - (payloadSize(i) - MaxPayload)
             IN  SubSeq(vec, 1, i - 1) \o (IF iov_len # 0 THEN <<iov_len>> ELSE <<>>)

(* The iovecs each function of the API hands to write_to_log(): priority,   *)
(* tag and message of a text, which the printing functions format into a    *)
(* buffer first; tag, type, length and payload of an event.                 *)
MessageLen(m) == CASE m.api = "print" -> Min({m.len, LogBufSize - 1})
                   [] m.api = "print_ext" -> Min({m.len, LogBufSize - 2})
                   [] OTHER -> m.len
TextApi == {"write", "print", "print_ext"}
Vec(m) == CASE m.api \in TextApi -> <<1, m.tag + 1, MessageLen(m) + 1>>
            [] m.api = "bwrite"  -> <<4, m.len>>
            [] m.api = "btwrite" -> <<4, 1, m.len>>
            [] m.api = "bswrite" -> <<4, 1, 4, m.len>>

(* __android_log_logd_logger(): the default log is the main one. *)
buffer_id(m) == IF m.id = "default" THEN "main" ELSE m.id

(* The text functions want a loggable priority (all but the one that was     *)
(* added to print with a file and a line) and a text log.                   *)
text_error(m) ==
    /\ m.api \in TextApi
    /\ \/ m.api # "print_ext" /\ m.prio < Cred.minimum
       \/ m.id \notin {"default", "main", "system", "radio", "crash"}

(* write_to_log(): what is refused before anything is sent. *)
write_to_log_error(m) ==
    \/ m.id = "kernel"
    \/ m.id \in {"events", "stats", "security"} /\ Vec(m)[1] < 4
    \/ m.id = "security" /\ ~Cred.can_security

(* PmsgWrite(): on a build that is not debuggable only the security log     *)
(* and the SNET events are kept.                                            *)
PmsgWrite_error(m) ==
    /\ ~Cred.debuggable
    /\ m.id # "security"
    /\ ~(m.id = "events" /\ m.snet)

TheSocket(m) == IF m.id = "security" THEN "blocking" ELSE "nonblocking"

Goto(t, pc) == th' = [th EXCEPT ![t].pc = pc]
Free == {f \in Fds : fds[f].kind = "closed"}
Connection == IF logd.up THEN logd.incarnation ELSE 0

(* The outcome of writev() on a datagram socket; a blocking one waits while  *)
(* the receiver is full.                                                    *)
Connected(s) == logd.up /\ fds[sock[s]].peer = logd.incarnation
Full == Len(queue) >= Capacity
Blocks(s) == s = "blocking" /\ Connected(s) /\ Full
Errno(s) == IF ~Connected(s) THEN "ECONNREFUSED" ELSE IF Full THEN "EAGAIN" ELSE "ok"

(* __android_log_buf_write() and the others end in write_to_log(). *)
Write(t, m) ==
    /\ th[t].pc = "idle" /\ writes < MaxWrites
    /\ writes' = writes + 1
    /\ th' = [th EXCEPT ![t] = [Idle EXCEPT !.msg = m, !.n = writes,
                    !.excused = ~logd.up,
                    !.pc = IF text_error(m) \/ write_to_log_error(m) THEN "idle" ELSE "sock"]]
    /\ UNCHANGED <<sock, pmsg_fd, dropped, kernel, closes, history>>

(* GetSocket(): the first look at sock_, then socket() and connect(). *)
GetSocket(t) ==
    LET s == TheSocket(th[t].msg)
    IN  /\ th[t].pc = "sock"
        /\ IF sock[s] # kUninitialized
           THEN Goto(t, "exchange") /\ UNCHANGED fds
           ELSE IF Free = {}
           THEN /\ th' = [th EXCEPT ![t].pc = "pmsg", ![t].excused = TRUE]
                /\ UNCHANGED fds
           ELSE /\ fds' = [fds EXCEPT ![Min(Free)] = [kind |-> "sock", peer |-> Connection]]
                /\ th' = [th EXCEPT ![t].pc = "cas", ![t].new = Min(Free)]
        /\ UNCHANGED <<sock, pmsg_fd, dropped, logd, queue, logged, writes, closes, history>>

(* close(new_socket), by the thread that lost the race. *)
CloseLoser_Winner(t, s) == [fds EXCEPT ![sock[s]] = Closed]
CloseLoser(t, s) == [fds EXCEPT ![th[t].new] = Closed]

(* compare_exchange_strong(): the loser closes the socket it opened. *)
ExchangeSocket(t) ==
    LET s == TheSocket(th[t].msg)
    IN  /\ th[t].pc = "cas"
        /\ IF sock[s] = kUninitialized
           THEN sock' = [sock EXCEPT ![s] = th[t].new] /\ UNCHANGED fds
           ELSE fds' = CloseLoser(t, s) /\ UNCHANGED sock
        /\ th' = [th EXCEPT ![t].pc = "exchange", ![t].new = kUninitialized]
        /\ UNCHANGED <<pmsg_fd, dropped, logd, queue, logged, writes, closes, history>>

(* logd itself writes nothing; anybody else takes the count of dropped      *)
(* messages, which is lost when "liblog" is not loggable.                   *)
TakeDropped(t) ==
    /\ th[t].pc = "exchange"
    /\ IF Cred.uid = "logd"
       THEN Goto(t, "pmsg") /\ UNCHANGED <<dropped, forgotten>>
       ELSE /\ dropped' = 0
            /\ \E loggable \in Cred.loggable :
               IF dropped # 0 /\ loggable
               THEN /\ th' = [th EXCEPT ![t].pc = "report", ![t].snapshot = dropped]
                    /\ UNCHANGED forgotten
               ELSE /\ Goto(t, "write")
                    /\ forgotten' = forgotten + dropped
    /\ UNCHANGED <<sock, pmsg_fd, kernel, writes, closes, failed, reported>>

(* The event that reports the dropped messages. *)
ReportDropped(t) ==
    LET s == TheSocket(th[t].msg)
    IN  /\ th[t].pc = "report" /\ ~Blocks(s)
        /\ IF Errno(s) = "ok"
           THEN /\ queue' = Append(queue, [from |-> t, n |-> th[t].n, id |-> "liblog",
                                           size |-> 0, full |-> 0])
                /\ reported' = reported + th[t].snapshot
                /\ th' = [th EXCEPT ![t].pc = "write", ![t].snapshot = 0]
           ELSE Goto(t, "putback") /\ UNCHANGED <<queue, reported>>
        /\ UNCHANGED <<sock, pmsg_fd, dropped, fds, logd, logged, writes, closes, failed, forgotten>>

PutBack_Store(t) == th[t].snapshot
PutBack(t) == dropped + th[t].snapshot

(* atomic_fetch_add(&dropped, snapshot): the report could not be sent. *)
PutBackDropped(t) ==
    /\ th[t].pc = "putback"
    /\ dropped' = PutBack(t)
    /\ th' = [th EXCEPT ![t].pc = "write", ![t].snapshot = 0]
    /\ UNCHANGED <<sock, pmsg_fd, kernel, writes, closes, history>>

Retries(t, s) == Errno(s) # "EAGAIN" /\ th[t].pc = "write"

(* The message itself: a second attempt follows only after an error that is *)
(* not EAGAIN, on the same socket connected again.                          *)
WriteV(t) ==
    LET s == TheSocket(th[t].msg)
    IN  /\ th[t].pc \in {"write", "rewrite"} /\ ~Blocks(s)
        /\ IF Errno(s) = "ok"
           THEN /\ queue' = Append(queue,
                       [from |-> t, n |-> th[t].n, id |-> buffer_id(th[t].msg),
                        size |-> Sum(NewVec(Vec(th[t].msg))), full |-> Sum(Vec(th[t].msg))])
                /\ Goto(t, "pmsg")
           ELSE /\ IF Retries(t, s)
                   THEN Goto(t, "reconnect")
                   ELSE th' = [th EXCEPT ![t].pc = "count",
                                   ![t].excused = @ \/ Errno(s) = "EAGAIN"]
                /\ UNCHANGED queue
        /\ UNCHANGED <<sock, pmsg_fd, dropped, fds, logd, logged, writes, closes, history>>

(* Reconnect(): connect() that fails leaves the socket as it is. *)
Reconnect(t) ==
    LET f == sock[TheSocket(th[t].msg)]
    IN  /\ th[t].pc = "reconnect"
        /\ fds' = [fds EXCEPT ![f].peer = IF logd.up THEN logd.incarnation ELSE @]
        /\ Goto(t, "rewrite")
        /\ UNCHANGED <<sock, pmsg_fd, dropped, logd, queue, logged, writes, closes, history>>

(* atomic_fetch_add(&dropped, 1) *)
CountDropped(t) ==
    /\ th[t].pc = "count"
    /\ dropped' = dropped + 1 /\ failed' = failed + 1
    /\ Goto(t, "pmsg")
    /\ UNCHANGED <<sock, pmsg_fd, kernel, writes, closes, reported, forgotten>>

(* PmsgWrite() up to the open() of GetPmsgFd(); open() may fail. *)
GetPmsgFd(t) ==
    /\ th[t].pc = "pmsg"
    /\ IF PmsgWrite_error(th[t].msg) THEN Goto(t, "idle") /\ UNCHANGED fds
       ELSE IF pmsg_fd # 0 THEN Goto(t, "pwrite") /\ UNCHANGED fds
       ELSE IF Free = {} THEN Goto(t, "pcas") /\ UNCHANGED fds
       ELSE /\ fds' = [fds EXCEPT ![Min(Free)] = [kind |-> "pmsg", peer |-> 0]]
            /\ th' = [th EXCEPT ![t].new = Min(Free),
                                ![t].pc = IF Min(Free) = 0 THEN "reopen" ELSE "pcas"]
    /\ UNCHANGED <<sock, pmsg_fd, dropped, logd, queue, logged, writes, closes, history>>

(* open() gave descriptor 0: open again, then close(0). *)
ReopenPmsg(t) ==
    LET f == IF Free = {} THEN kUninitialized ELSE Min(Free)
    IN  /\ th[t].pc = "reopen"
        /\ fds' = [g \in Fds |-> IF g = 0 THEN Closed
                                 ELSE IF g = f THEN [kind |-> "pmsg", peer |-> 0] ELSE fds[g]]
        /\ th' = [th EXCEPT ![t].new = f, ![t].pc = "pcas"]
        /\ UNCHANGED <<sock, pmsg_fd, dropped, logd, queue, logged, writes, closes, history>>

ExchangePmsg(t) ==
    /\ th[t].pc = "pcas"
    /\ IF pmsg_fd = 0
       THEN pmsg_fd' = th[t].new /\ UNCHANGED fds
       ELSE /\ fds' = IF th[t].new # -1 THEN [fds EXCEPT ![th[t].new] = Closed] ELSE fds
            /\ UNCHANGED pmsg_fd
    /\ th' = [th EXCEPT ![t].pc = "pwrite", ![t].new = kUninitialized]
    /\ UNCHANGED <<sock, dropped, logd, queue, logged, writes, closes, history>>

(* The rest of PmsgWrite(): the write to /dev/pmsg0, if it could be opened. *)
PmsgWrite(t) ==
    /\ th[t].pc = "pwrite"
    /\ Goto(t, "idle")
    /\ UNCHANGED <<sock, pmsg_fd, dropped, kernel, writes, closes, history>>

(* __android_log_close(), which the zygote calls while it has one thread.   *)
Close ==
    /\ closes < MaxCloses /\ closes' = closes + 1
    /\ \A t \in Threads : th[t].pc = "idle"
    /\ fds' = [f \in Fds |-> IF f \in Range(sock) \cup ({pmsg_fd} \ {0}) THEN Closed ELSE fds[f]]
    /\ sock' = [s \in Sockets |-> kUninitialized]
    /\ pmsg_fd' = 0
    /\ UNCHANGED <<dropped, th, logd, queue, logged, writes, history>>

(* LogListener::HandleData(): one datagram, which carries the credentials.  *)
HandleData ==
    /\ logd.up /\ queue # <<>>
    /\ queue' = Tail(queue)
    /\ logged' = IF Cred.uid # "logd" /\ Head(queue).id # "kernel"
                    /\ (Head(queue).id = "security" => Cred.can_security)
                 THEN Append(logged, Head(queue)) ELSE logged
    /\ UNCHANGED <<sock, pmsg_fd, dropped, th, fds, logd, writes, closes, history>>

(* init starts logd, which may die with datagrams unread. *)
LogdStart ==
    /\ ~logd.up /\ logd.incarnation < MaxLogd
    /\ logd' = [up |-> TRUE, incarnation |-> logd.incarnation + 1]
    /\ UNCHANGED <<sock, pmsg_fd, dropped, th, fds, queue, logged, writes, closes, history>>

LogdDie ==
    /\ logd.up /\ logd.incarnation < MaxLogd
    /\ logd' = [logd EXCEPT !.up = FALSE]
    /\ queue' = <<>>
    /\ th' = [t \in Threads |-> [th[t] EXCEPT !.excused = TRUE]]
    /\ UNCHANGED <<sock, pmsg_fd, dropped, fds, logged, writes, closes, history>>

Step(t) == \/ \E m \in Messages : Write(t, m)
           \/ GetSocket(t) \/ ExchangeSocket(t) \/ TakeDropped(t) \/ ReportDropped(t)
           \/ PutBackDropped(t) \/ WriteV(t) \/ Reconnect(t) \/ CountDropped(t)
           \/ GetPmsgFd(t) \/ ReopenPmsg(t) \/ ExchangePmsg(t) \/ PmsgWrite(t)

Next == \/ \E t \in Threads : Step(t)
        \/ Close \/ HandleData \/ LogdStart \/ LogdDie

(* Threads run, LogListener's thread loops for ever and init restarts logd. *)
Running(t) == th[t].pc # "idle" /\ Step(t)
Spec == /\ Init /\ [][Next]_vars
        /\ \A t \in Threads : WF_vars(Running(t))
        /\ WF_vars(HandleData) /\ WF_vars(LogdStart)

-----------------------------------------------------------------------------
(* GetSocket() and GetPmsgFd() publish a descriptor by compare/exchange and *)
(* the loser of the race closes its own: whatever the interleaving, a       *)
(* published descriptor is open and of its kind until __android_log_close().*)
PublishedIsOpen ==
    /\ \A s \in Sockets : sock[s] # kUninitialized => fds[sock[s]].kind = "sock"
    /\ pmsg_fd > 0 => fds[pmsg_fd].kind = "pmsg"

(* No race leaks a descriptor ("sock_ should only be opened once"): one that *)
(* is open is published or is about to be exchanged or closed by one thread. *)
NoDescriptorLeak ==
    \A f \in Fds : fds[f].kind \in {"sock", "pmsg"} =>
        Cardinality({s \in Sockets : sock[s] = f} \cup {t \in Threads : th[t].new = f}
                    \cup {x \in {"pmsg"} : pmsg_fd = f /\ f # 0}) = 1

(* LogdWrite() takes the count of dropped messages, reports it and puts it  *)
(* back when the report fails: no message that was refused is counted twice *)
(* or forgotten, except the ones taken while "liblog" is not loggable.      *)
DroppedIsAccounted ==
    failed = dropped + reported + forgotten
             + MapThenSumSet(LAMBDA t : th[t].snapshot, Threads)

(* LogdWrite() retries once after Reconnect(): a message is refused only if *)
(* logd was down at some time during the call, its socket was full, or the  *)
(* process had no descriptor left; a restart of logd alone loses nothing.   *)
RefusedOnlyForCause ==
    \A t \in Threads : th[t].pc = "count" => th[t].excused

(* Each thread's messages reach the log buffer at most once and in the order *)
(* they were written, over retries and restarts of logd, cut at most to the *)
(* payload limit of LogdWrite().                                            *)
ArriveOnceInOrder ==
    LET all == logged \o queue
    IN  /\ \A i, j \in 1 .. Len(all) :
               i < j /\ all[i].from = all[j].from =>
                   \/ all[i].n < all[j].n
                   \/ all[i].n = all[j].n /\ all[i].id = "liblog" /\ all[j].id # "liblog"
        /\ \A i \in 1 .. Len(all) : all[i].size = Min({all[i].full, MaxPayload})
=============================================================================
