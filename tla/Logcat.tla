-------------------------------- MODULE Logcat --------------------------------
(***************************************************************************)
(* logcat -f <file> -r <kbytes> -n <count> (logcat.cpp): the read loop,     *)
(* the filter by uid, tag and regular expression, --max-count, the dividers *)
(* between logs, the rotation of the output file, the signature of --id,   *)
(* and the way a logcat that is started again finds where the last one      *)
(* stopped.  The process may be killed between any two steps; what stdio    *)
(* had not flushed is lost then.  The reader of logd (module Logd) delivers *)
(* the log in order from the requested time on.                             *)
(***************************************************************************)
EXTENDS Integers, Sequences, FiniteSets, FiniteSetsExt, SequencesExt

CONSTANTS MaxRotated,         \* max_rotated_logs_
          RotateSize,   \* log_rotate_size_kb_, in lines
          MaxCount,     \* --max-count, 0 without
          PrintAnyway,  \* --print
          Dividers,     \* --dividers
          Signatures,   \* values of --id
          Kinds,        \* messages: [id, sel], sel one of "match", "other", "filtered"
          Base, Digits, \* a second is printed with Digits digits in base Base
          MaxMessages,  \* bound: messages logged
          MaxCrashes    \* bound: times logcat is killed

Absent == <<[k |-> -1, sig |-> "none", div |-> FALSE]>>     \* no such file
EPOCH == 0

VARIABLES log,      \* the messages in logd: [id, sel, ms], ms the printed time
          files,    \* 0 is the output file, i the file with suffix .i
          idfile,   \* <file>.id
          p,        \* the logcat process
          crashes
vars == <<log, files, idfile, p, crashes>>

Dead == [pc |-> "dead", i |-> 0, next |-> 1, bytes |-> 0, buffered |-> <<>>, count |-> 0,
         last |-> "none", begun |-> {}, sig |-> "none"]

Init == /\ log = <<>>
        /\ files = [i \in 0 .. MaxRotated |-> Absent]
        /\ idfile = "none" /\ p = Dead /\ crashes = 0

-----------------------------------------------------------------------------
Lines(f) == IF f = Absent THEN <<>> ELSE SelectSeq(f, LAMBDA x : ~x.div)

(* The units in which a time may be round, from the last printed digit to    *)
(* the second.                                                              *)
Second == Base ^ Digits
Units == {Base ^ d : d \in 0 .. Digits}

(* "determine the time precision of the logs": the unit of the last digit    *)
(* that is not 0 in one of the times found, a second when they all end in 0. *)
LastDigit(ms) == Min({u \in Units : u = Second \/ ms % (u * Base) # 0})
modulo(times) == Min({LastDigit(ms) : ms \in times})

Times(ls) == {log[x.k].ms : x \in ToSet(ls)}

(* lastLogTime(): the latest time in the output file, plus modulo.  All the  *)
(* times are before now.  The rotated files are meant to be read too, but    *)
(* the test of their suffix looks at the wrong place of the name.            *)
tail_time_Skip(fs) ==
    LET times == Times(Lines(fs[0])) IN IF times = {} THEN EPOCH ELSE Max(times) + Second
tail_time(fs) ==
    LET times == Times(Lines(fs[0]))
    IN  IF times = {} THEN EPOCH ELSE Max(times) + modulo(times)

(* Where the reader of logd begins, given that start time. *)
FirstFrom(t) == LET later == {k \in 1 .. Len(log) : log[k].ms >= t}
                IN  IF later = {} THEN Len(log) + 1 ELSE Min(later)

(* Run(): the options; -f looks for the last line, then --id compares and    *)
(* writes the signature.  When it changed the files are removed.            *)
Start(sig) ==
    /\ p.pc = "dead" /\ crashes <= MaxCrashes
    /\ p' = [Dead EXCEPT !.next = FirstFrom(tail_time(files)), !.sig = sig,
                !.pc = IF idfile \in {"none", sig} THEN "open" ELSE "unlink", !.i = MaxRotated]
    /\ idfile' = sig
    /\ UNCHANGED <<log, files, crashes>>

Unlink ==
    /\ p.pc = "unlink"
    /\ files' = [files EXCEPT ![p.i] = Absent]
    /\ p' = [p EXCEPT !.i = IF @ = 0 THEN 0 ELSE @ - 1,
                     !.pc = IF p.i = 0 THEN "open" ELSE "unlink"]
    /\ UNCHANGED <<log, idfile, crashes>>

Size(f) == IF f = Absent THEN 0 ELSE Len(f)

(* SetupOutputAndSchedulingPolicy() and the end of RotateLogs(): openLogFile() *)
(* appends, out_byte_count_ is the size of the file.                        *)
Open ==
    /\ p.pc = "open"
    /\ files' = [files EXCEPT ![0] = IF @ = Absent THEN <<>> ELSE @]
    /\ p' = [p EXCEPT !.pc = "loop", !.bytes = Size(files[0])]
    /\ UNCHANGED <<log, idfile, crashes>>

(* PrintDividers() *)
DividersFor(m) ==
    IF m.id # p.last /\ (m.id \notin p.begun \/ Dividers)
    THEN <<[k |-> 0, sig |-> p.sig, div |-> TRUE]>> ELSE <<>>

Prints(m) == m.sel = "match" \/ (m.sel = "other" /\ PrintAnyway)
MustRotate(bytes) == RotateSize > 0 /\ bytes >= RotateSize

Counted(m) == IF m.sel = "match" THEN 1 ELSE 0

(* while (!max_count_ || print_count_ < max_count_) *)
More(n) == MaxCount = 0 \/ n < MaxCount

(* One turn of the read loop and ProcessBuffer(); dividers are not counted   *)
(* as bytes written.                                                        *)
Process ==
    /\ p.pc = "loop" /\ p.next <= Len(log)
    /\ More(p.count)
    /\ LET m == log[p.next]
           line == [k |-> p.next, sig |-> p.sig, div |-> FALSE]
           bytes == p.bytes + (IF Prints(m) THEN 1 ELSE 0)
       IN  p' = [p EXCEPT
               !.next = @ + 1, !.bytes = bytes,
               !.count = @ + Counted(m),
               !.buffered = IF Prints(m) THEN @ \o DividersFor(m) \o <<line>> ELSE @,
               !.last = IF Prints(m) THEN m.id ELSE @,
               !.begun = IF Prints(m) THEN @ \cup {m.id} ELSE @,
               !.i = MaxRotated,
               !.pc = IF MustRotate(bytes) THEN "close" ELSE "loop"]
    /\ UNCHANGED <<log, files, idfile, crashes>>

(* stdio writes its buffer when it likes. *)
Flush(pc) == files' = [files EXCEPT ![0] = @ \o p.buffered]
             /\ p' = [p EXCEPT !.buffered = <<>>, !.pc = pc]

Stdio == p.pc = "loop" /\ p.buffered # <<>> /\ Flush("loop") /\ UNCHANGED <<log, idfile, crashes>>

(* RotateLogs(): fclose(), then a rename() from each file to the next.      *)
Close == p.pc = "close" /\ Flush("rename") /\ UNCHANGED <<log, idfile, crashes>>

AfterRename(i) == IF i = 1 THEN "open" ELSE "rename"

Rename ==
    /\ p.pc = "rename"
    /\ files' = IF files[p.i - 1] = Absent THEN files        \* ENOENT
                ELSE [files EXCEPT ![p.i] = files[p.i - 1], ![p.i - 1] = Absent]
    /\ p' = [p EXCEPT !.i = @ - 1, !.pc = AfterRename(p.i)]
    /\ UNCHANGED <<log, idfile, crashes>>

(* --max-count is reached: exit, which flushes. *)
Exit == /\ p.pc = "loop" /\ ~More(p.count)
        /\ Flush("done")
        /\ UNCHANGED <<log, idfile, crashes>>

Kill == /\ p.pc \notin {"dead", "done"} /\ crashes < MaxCrashes
        /\ p' = Dead /\ crashes' = crashes + 1
        /\ UNCHANGED <<log, files, idfile>>

(* Another message reaches logd, in the same millisecond or the next.       *)
Logged == /\ Len(log) < MaxMessages
          /\ \E m \in Kinds, d \in {0, 1} :
                 log' = Append(log, [id |-> m.id, sel |-> m.sel,
                                     ms |-> d + (IF log = <<>> THEN 1 ELSE log[Len(log)].ms)])
          /\ UNCHANGED <<files, idfile, p, crashes>>

Next == \/ \E s \in Signatures : Start(s)
        \/ Unlink \/ Open \/ Process \/ Stdio \/ Close \/ Rename \/ Exit \/ Kill \/ Logged

Spec == Init /\ [][Next]_vars

-----------------------------------------------------------------------------
(* For each line that is kept, from the oldest file to the newest, the lines *)
(* of its file up to it.                                                    *)
Kept == LET upTo(ls) == [i \in DOMAIN ls |-> SubSeq(ls, 1, i)]
        IN  FlattenSeq([i \in 1 .. MaxRotated + 1 |-> upTo(Lines(files[MaxRotated + 1 - i]))])

(* The coarsest unit in which the times of all of these lines are round. *)
RoundIn(ls) == Max({u \in Units : \A ms \in Times(ls) : ms % u = 0})

(* RotateLogs() loses nothing but the oldest file, wherever logcat is killed *)
(* and started again: from a line that is kept to the next one no printable  *)
(* message is missing, with one exception.  Where the last logcat was killed *)
(* the messages up to the precision lastLogTime() guesses are missing: those *)
(* of the last printed time, and when the times of all the lines before, in  *)
(* the same file, end in 0 (logcat.cpp:480) also those of the next 10 ms,    *)
(* 100 ms or second.                                                        *)
NothingMissing ==
    \A i \in 1 .. Len(Kept) - 1 :
        LET a == Last(Kept[i]).k   b == Last(Kept[i + 1]).k
        IN  \A k \in a + 1 .. b - 1 :
                Prints(log[k]) => log[k].ms < log[a].ms + RoundIn(Kept[i])

(* "round up by the modulo to prevent a replay of the last entry": while the *)
(* output file has a line to go by, logcat prints no line a second time.     *)
NoReplayOfFile ==
    \A i, j \in DOMAIN Lines(files[0]) : i # j => Lines(files[0])[i].k # Lines(files[0])[j].k
=============================================================================
