------------------------------- MODULE Logwrap -------------------------------
(***************************************************************************)
(* logwrapper/logwrap.cpp: run a command behind a pseudo terminal and log    *)
(* what it writes, line by line or abbreviated to its beginning and its end, *)
(* forwarding signals to it.                                                 *)
(*                                                                          *)
(* Output is a sequence of "x", "CR" and "NL"; "NUL" is the terminator that  *)
(* the code writes over a character.  The terminal and the processes are     *)
(* external: pty holds what was written and not read, holders who has its    *)
(* far end open.  fd_mutex is held from "open" to the return, so one call at *)
(* a time is under way.                                                      *)
(***************************************************************************)
EXTENDS Integers, Sequences, SequencesExt

CONSTANTS Chars,              \* what the command may write: "x", "NL", "CR"
          BufSize,            \* usable size of buffer in parent()
          BeginSize, EndSize, \* usable sizes of the abbreviated buffers
          Abbreviated, Forward, WantStatus,
          MaxOutput, MaxSignals, \* bounds: characters written, signals sent
          Grandchild,         \* the command may leave a process behind that has the pty
          Detach              \* the command may close the pty and go on running

VARIABLES p,                  \* the caller: [pc, buf, received, revents, found, status, rc]
          abbr,               \* the abbreviated buffers
          logged,             \* lines that do_log_line() was given
          child,              \* "none", "new", "running", "zombie", "reaped"
          exit,               \* how the command ended
          pty, opened, holders,
          sig,                \* [blocked, handler, child_pid, pending]
          written, signals,   \* how much happened (bounds)
          consumed, given,    \* history: what was read, and the lines log_line() was given
          killed              \* history: the states of the child that kill() met
vars == <<p, abbr, logged, child, exit, pty, opened, holders, sig, written, signals, consumed, given, killed>>
parentVars == <<p, abbr, logged, consumed, given>>
childVars == <<child, exit, pty, opened, holders, written>>

EmptyAbbr == [begin |-> << >>, full |-> FALSE, data |-> [i \in 0 .. EndSize - 1 |-> "NUL"],
              used |-> 0, read |-> 0, write |-> 0]

Init ==
    /\ p = [pc |-> "open", buf |-> << >>, received |-> FALSE, revents |-> {}, found |-> FALSE,
            status |-> "exit0", rc |-> 0]
    /\ abbr = EmptyAbbr /\ logged = << >>
    /\ child = "none" /\ exit = "exit0" /\ pty = << >> /\ opened = FALSE /\ holders = {}
    /\ sig = [blocked |-> FALSE, handler |-> FALSE, child_pid |-> 0, pending |-> 0]
    /\ written = 0 /\ signals = 0 /\ consumed = << >> /\ given = << >> /\ killed = {}

-----------------------------------------------------------------------------
(***************************************************************************)
(* The abbreviated buffers.                                                 *)
(***************************************************************************)
\* The oldest bytes make room.
Discard(e, needed) == [e EXCEPT !.read = (@ + needed) % EndSize, !.used = @ - needed]

\* add_line_to_circular_buf()
AddToCircular(a, line) ==
    LET n == Len(line)
        free == EndSize - a.used
        e == IF n > free THEN Discard(a, n - free) ELSE a
        at(i) == (i - e.write) % EndSize          \* offset in the line of byte i
    IN  IF n > EndSize THEN a
        ELSE [e EXCEPT !.data = [i \in 0 .. EndSize - 1 |-> IF at(i) < n THEN line[at(i) + 1] ELSE @[i]],
                       !.used = @ + n, !.write = (@ + n) % EndSize]

\* add_line_to_abbr_buf(), add_line_to_linear_buf()
AddToAbbr(a, line) ==
    IF ~a.full /\ Len(a.begin) + Len(line) <= BeginSize
    THEN [a EXCEPT !.begin = @ \o line]
    ELSE AddToCircular([a EXCEPT !.full = TRUE], line)

\* print_abbr_buf(): the ring as a linear buffer
Linear(a) ==
    IF a.used = 0 THEN << >>
    ELSE IF a.read < a.write THEN [i \in 1 .. a.used |-> a.data[a.read + i - 1]]
    ELSE [i \in 1 .. EndSize - a.read |-> a.data[a.read + i - 1]]
         \o [i \in 1 .. a.write |-> a.data[i - 1]]

\* do_log_line() ends at the terminator.
Text(line) == LET nul == SelectInSeq(line, LAMBDA c : c = "NUL")
              IN  IF nul = 0 THEN line ELSE SubSeq(line, 1, nul - 1)

\* print_buf_lines(): only lines that end
PrintBufLines(buf) ==
    LET add(acc, c) == IF c = "NL" THEN [lines |-> Append(acc.lines, acc.cur), cur |-> << >>]
                       ELSE [acc EXCEPT !.cur = Append(@, c)]
    IN  FoldLeft(add, [lines |-> << >>, cur |-> << >>], buf).lines

ELLIPSIS == <<"...">>
PrintAbbr(a) ==
    PrintBufLines(a.begin) \o (IF a.used = EndSize THEN <<ELLIPSIS>> ELSE << >>)
    \o PrintBufLines(Linear(a))

\* log_line() for each of these lines
LogLines(lines) ==
    /\ given' = given \o lines
    /\ IF Abbreviated
       THEN abbr' = FoldLeft(AddToAbbr, abbr, lines) /\ UNCHANGED logged
       ELSE logged' = logged \o [i \in DOMAIN lines |-> Text(lines[i])] /\ UNCHANGED abbr

-----------------------------------------------------------------------------
(***************************************************************************)
(* parent(): the loop over the buffer.  What was left over is looked at      *)
(* again, with the characters that were written over.                        *)
(***************************************************************************)
ReturnBecomes(abbreviated) == IF abbreviated THEN "NL" ELSE "NUL"
ScanChar(acc, c) ==
    IF c = "NL" THEN [lines |-> Append(acc.lines, acc.cur), cur |-> << >>]
    ELSE [acc EXCEPT !.cur = Append(@, IF c = "CR" THEN ReturnBecomes(Abbreviated) ELSE c)]

LeftOver_Lost(scanned) == << >>
LeftOver(scanned) ==          \* nothing, when a full buffer was flushed
    IF scanned.lines = << >> /\ Len(scanned.cur) = BufSize THEN << >> ELSE scanned.cur

\* read() returns what there is, up to the room in the buffer.
Read ==
    LET room == BufSize - Len(p.buf)
        n == IF Len(pty) < room THEN Len(pty) ELSE room
        new == SubSeq(pty, 1, n)
        scanned == FoldLeft(ScanChar, [lines |-> << >>, cur |-> << >>], p.buf \o new)
        full == scanned.lines = << >> /\ Len(scanned.cur) = BufSize
    IN
    /\ p.pc = "read"
    /\ LogLines(IF full THEN <<scanned.cur>> ELSE scanned.lines)
    /\ p' = [p EXCEPT !.buf = LeftOver(scanned), !.received = TRUE, !.pc = "check"]
    /\ pty' = SubSeq(pty, n + 1, Len(pty)) /\ consumed' = consumed \o new
    /\ UNCHANGED <<child, exit, opened, holders, sig, written, signals, killed>>

-----------------------------------------------------------------------------
(***************************************************************************)
(* logwrap_fork_execvp()                                                    *)
(***************************************************************************)
Block(s) == IF Forward THEN [s EXCEPT !.blocked = TRUE] ELSE s
Unblock(s) == IF Forward THEN [s EXCEPT !.blocked = FALSE] ELSE s

\* The terminal cannot be made; otherwise the signals are blocked for fork().
OpenPty ==
    /\ p.pc = "open"
    /\ \/ p' = [p EXCEPT !.pc = "done", !.rc = -1] /\ UNCHANGED sig
       \/ p' = [p EXCEPT !.pc = "fork"] /\ sig' = Block(sig)
    /\ UNCHANGED <<abbr, logged, consumed, given, childVars, signals, killed>>

\* setup_signal_handlers() comes before the signals are let in again.
Installed(s) == [s EXCEPT !.handler = TRUE, !.child_pid = 1]

Fork ==
    /\ p.pc = "fork"
    /\ \/ /\ p' = [p EXCEPT !.pc = "done", !.rc = -1] /\ sig' = Unblock(sig) /\ UNCHANGED child
       \/ /\ p' = [p EXCEPT !.pc = "poll"] /\ child' = "new"
          /\ sig' = IF Forward THEN Unblock(Installed(sig)) ELSE sig
    /\ UNCHANGED <<abbr, logged, consumed, given, exit, pty, opened, holders, written, signals, killed>>

\* poll(): data, the far end closed, or a second without a message so far
Revents == (IF pty # << >> THEN {"POLLIN"} ELSE {}) \cup (IF opened /\ holders = {} THEN {"POLLHUP"} ELSE {})
MayTimeOut_Never(q) == FALSE
MayTimeOut(q) == ~q.received

Poll ==
    /\ p.pc = "poll"
    /\ Revents # {} \/ MayTimeOut(p)
    /\ p' = [p EXCEPT !.revents = Revents, !.pc = IF "POLLIN" \in Revents THEN "read" ELSE "check"]
    /\ UNCHANGED <<abbr, logged, consumed, given, childVars, sig, signals, killed>>

PollFails ==
    /\ p.pc = "poll"
    /\ p' = [p EXCEPT !.pc = "return", !.rc = -1]
    /\ UNCHANGED <<abbr, logged, consumed, given, childVars, sig, signals, killed>>

Check ==
    /\ p.pc = "check"
    /\ \/ /\ p.received /\ "POLLHUP" \notin p.revents
          /\ p' = [p EXCEPT !.pc = "poll"] /\ UNCHANGED sig
       \/ /\ ~p.received \/ "POLLHUP" \in p.revents
          /\ p' = [p EXCEPT !.pc = "waitpid"] /\ sig' = Block(sig)
    /\ UNCHANGED <<abbr, logged, consumed, given, childVars, signals, killed>>

\* restore_signal_handlers()
Restored(s) == IF Forward THEN [s EXCEPT !.handler = FALSE, !.child_pid = 0] ELSE s

\* waitpid(), with WNOHANG unless the far end was closed
WaitPid ==
    /\ p.pc = "waitpid"
    /\ \/ /\ child = "zombie" /\ child' = "reaped"
          /\ p' = [p EXCEPT !.pc = "reaped", !.status = exit] /\ UNCHANGED sig
       \/ /\ child # "zombie" /\ "POLLHUP" \notin p.revents
          /\ p' = [p EXCEPT !.pc = "poll"] /\ sig' = Unblock(sig) /\ UNCHANGED child
    /\ UNCHANGED <<abbr, logged, consumed, given, exit, pty, opened, holders, written, signals, killed>>

\* SIGCHLD is ignored, or another thread has reaped the child.
WaitPidFails ==
    /\ p.pc = "waitpid" /\ child = "zombie"
    /\ child' = "reaped" /\ p' = [p EXCEPT !.pc = "return", !.rc = 10]
    /\ UNCHANGED <<abbr, logged, consumed, given, exit, pty, opened, holders, sig, written, signals, killed>>

AfterReap(s) == Unblock(Restored(s))

Reaped ==
    /\ p.pc = "reaped"
    /\ p' = [p EXCEPT !.pc = "flush", !.found = TRUE] /\ sig' = AfterReap(sig)
    /\ UNCHANGED <<abbr, logged, consumed, given, childVars, signals, killed>>

\* The rest of the output, the abbreviated output and how the command ended
Terminated == <<"terminated">>
Flush ==
    LET rest == IF p.buf = << >> THEN << >> ELSE <<p.buf>>
        whole == FoldLeft(AddToAbbr, abbr, rest)
        texts == [i \in DOMAIN rest |-> Text(rest[i])]
    IN
    /\ p.pc = "flush"
    /\ given' = given \o rest
    /\ abbr' = IF Abbreviated THEN whole ELSE abbr
    /\ logged' = logged \o (IF Abbreviated THEN PrintAbbr(whole) ELSE texts)
                        \o (IF p.status = "exit0" THEN << >> ELSE <<Terminated>>)
    /\ p' = [p EXCEPT !.pc = "return", !.buf = << >>,
                      !.rc = IF WantStatus \/ p.status = "exit0" THEN 0
                             ELSE IF p.status = "exit1" THEN 1 ELSE -10]
    /\ UNCHANGED <<consumed, childVars, sig, signals, killed>>

Return ==
    /\ p.pc = "return"
    /\ p' = [p EXCEPT !.pc = "done"] /\ sig' = Unblock(Restored(sig))
    /\ UNCHANGED <<abbr, logged, consumed, given, childVars, signals, killed>>

-----------------------------------------------------------------------------
(***************************************************************************)
(* The command, and whoever sends signals.                                  *)
(***************************************************************************)
\* The child opens the terminal and runs the command, or it ends at once.
ChildStarts ==
    /\ child = "new"
    /\ \/ child' = "running" /\ opened' = TRUE /\ holders' = {"child"} /\ UNCHANGED exit
       \/ child' = "zombie" /\ exit' = "exit1" /\ UNCHANGED <<opened, holders>>
    /\ UNCHANGED <<parentVars, pty, sig, written, signals, killed>>

ChildWrites(c) ==
    /\ child = "running" /\ "child" \in holders /\ written < MaxOutput
    /\ pty' = pty \o (IF c = "NL" THEN <<"CR", "NL">> ELSE <<c>>)
    /\ written' = written + 1
    /\ UNCHANGED <<parentVars, child, exit, opened, holders, sig, signals, killed>>

ChildForks ==
    /\ Grandchild /\ child = "running" /\ holders = {"child"}
    /\ holders' = {"child", "grandchild"}
    /\ UNCHANGED <<parentVars, child, exit, pty, opened, sig, written, signals, killed>>

Closes(who) ==
    /\ who \in holders
    /\ who = "child" => Detach /\ child = "running"
    /\ holders' = holders \ {who}
    /\ UNCHANGED <<parentVars, child, exit, pty, opened, sig, written, signals, killed>>

ChildExits(status) ==
    /\ child = "running"
    /\ child' = "zombie" /\ exit' = status /\ holders' = holders \ {"child"}
    /\ UNCHANGED <<parentVars, pty, opened, sig, written, signals, killed>>

Signal ==
    /\ signals < MaxSignals /\ p.pc # "done"
    /\ signals' = signals + 1 /\ sig' = [sig EXCEPT !.pending = @ + 1]
    /\ UNCHANGED <<parentVars, childVars, killed>>

\* signal_handler(), or what the caller had before; the command ends or ignores it
HandleSignal ==
    /\ sig.pending > 0 /\ ~sig.blocked
    /\ \/ /\ sig.handler /\ sig.child_pid # 0 /\ killed' = killed \cup {child}
          /\ sig' = [sig EXCEPT !.pending = @ - 1]
          /\ \/ UNCHANGED <<child, exit, holders>>
             \/ /\ child = "running" /\ child' = "zombie" /\ exit' = "signal"
                /\ holders' = holders \ {"child"}
       \/ /\ sig.handler /\ sig.child_pid = 0
          /\ sig' = [Restored(sig) EXCEPT !.pending = @ - 1] /\ UNCHANGED <<child, exit, holders, killed>>
       \/ /\ ~sig.handler
          /\ sig' = [sig EXCEPT !.pending = @ - 1] /\ UNCHANGED <<child, exit, holders, killed>>
    /\ UNCHANGED <<parentVars, pty, opened, written, signals>>

-----------------------------------------------------------------------------
Parent == \/ OpenPty \/ Fork \/ Poll \/ Read \/ Check \/ WaitPid \/ Reaped \/ Flush \/ Return
Next ==
    \/ Parent \/ PollFails \/ WaitPidFails
    \/ ChildStarts \/ ChildForks \/ Signal \/ HandleSignal
    \/ \E c \in Chars : ChildWrites(c)
    \/ \E who \in {"child", "grandchild"} : Closes(who)
    \/ \E s \in {"exit0", "exit1"} : ChildExits(s)

Spec == Init /\ [][Next]_vars /\ WF_vars(Parent) /\ WF_vars(HandleSignal) /\ WF_vars(ChildStarts)

-----------------------------------------------------------------------------
\* The lines of the output, one character at a time
RefLines(chars) ==
    LET add(acc, c) == LET next == ScanChar(acc, c)
                       IN  IF Len(next.cur) = BufSize
                           THEN [lines |-> Append(next.lines, next.cur), cur |-> << >>] ELSE next
    IN  FoldLeft(add, [lines |-> << >>, cur |-> << >>], chars)

(* "Log one line at a time": unless the output is abbreviated, the lines of  *)
(* what parent() has read do not depend on how read() cuts it up, also where *)
(* a line is longer than the buffer or a cut falls between the CR and the NL *)
(* that end it.  What the command wrote and parent() did not read before it  *)
(* found the child gone (logwrap.cpp:454) is no part of them.                *)
LinesDoNotDependOnReads ==
    p.pc \notin {"return", "done"} =>
        given = RefLines(consumed).lines /\ p.buf = RefLines(consumed).cur

(* The first lines that fit the linear buffer, once one did not fit.        *)
Length(lines) == Len(FlattenSeq(lines))
Fitting == CHOOSE k \in 0 .. Len(given) :
              /\ Length(SubSeq(given, 1, k)) <= BeginSize
              /\ k = Len(given) \/ Length(SubSeq(given, 1, k + 1)) > BeginSize

(* "It holds up to the first beginning_buf->buf_size bytes of output": of the *)
(* lines that log_line() was given, the first ones are held, whole and in    *)
(* order, and not one that comes after a line that did not fit.  Which lines *)
(* log_line() is given depends on the reads here: where a CR ends a read the *)
(* line goes without the NL that separates it (logwrap.cpp:413).             *)
BeginningIsTheHead == Abbreviated => abbr.begin = FlattenSeq(SubSeq(given, 1, Fitting))

(* "This is a circular buf that holds up to the last ending_buf->buf_size    *)
(* bytes of output from a command after the first": what the ring holds,     *)
(* read from its read offset, are the last bytes of the lines that did not   *)
(* fit, whatever wrapped around.  Of a last line without its end             *)
(* print_buf_lines() then logs nothing (:209).                               *)
RingIsTheTail ==
    Abbreviated => LET all == FlattenSeq(SubSeq(given, Fitting + 1, Len(given)))
                       kept == IF Len(all) > EndSize THEN EndSize ELSE Len(all)
                   IN  Linear(abbr) = SubSeq(all, Len(all) - kept + 1, Len(all))

(* "Our signal handlers forward these signals to 'child_pid', but waitpid()  *)
(* may reap the child": kill() never meets the pid of a child that has been  *)
(* reaped, and that may be the pid of another process by now.                *)
NeverSignalsReaped == "reaped" \notin killed

(* Whatever failed, the caller gets its signal handlers back, unblocked.     *)
SignalsAreRestored == p.pc = "done" => ~sig.blocked /\ ~sig.handler /\ sig.child_pid = 0
=============================================================================
