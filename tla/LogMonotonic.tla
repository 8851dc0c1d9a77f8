---------------------------- MODULE LogMonotonic ----------------------------
(***************************************************************************)
(* convertMonotonic() of liblog/logprint.cpp: logcat -v monotonic turns the  *)
(* real time of an entry into the kernel's monotonic time, which stands still *)
(* while the device sleeps, with the help of the lines dmesg has about it.   *)
(*                                                                         *)
(* The kernel, its clocks and its log are external.  It announces a suspend,  *)
(* sleeps, says "Suspended for" how long, and announces the end.  Times count *)
(* ticks.  A line of dmesg is [kind, mono, arg]: arg is the real time in it,   *)
(* or, for kind "suspended", how long the device slept.                      *)
(***************************************************************************)
EXTENDS Integers, SequencesExt

CONSTANTS
    SEC,            \* ticks in a second
    Offset,         \* real time when the monotonic clock was 0
    Sleeps,         \* how long the device may sleep
    MinResume,      \* least ticks from "Suspended for" to the next line with a time
    MaxMono, MaxSleeps, MaxBattery, MaxEntries, MaxRotations    \* bounds

VARIABLES
    mono, real,     \* the clocks
    phase,          \* "awake", "suspending", "resuming"
    woke,           \* when "Suspended for" was printed last
    dmesg,          \* the kernel's log
    entries,        \* history: [real, mono] of the entries in the Android log
    convertHead,    \* the conversion list: [time, convert]
    used            \* how many sleeps, battery lines and rotations there were

vars == <<mono, real, phase, woke, dmesg, entries, convertHead, used>>

\* The list is built once, by the first entry that is printed.
Built == convertHead # <<>>

-----------------------------------------------------------------------------
(***************************************************************************)
(* The device                                                               *)
(***************************************************************************)

Line(kind, arg) == [kind |-> kind, mono |-> mono, arg |-> arg]

Tick ==
    /\ ~Built /\ mono < MaxMono
    /\ mono' = mono + 1 /\ real' = real + 1
    /\ UNCHANGED <<phase, woke, dmesg, entries, convertHead, used>>

SuspendEntry ==
    /\ ~Built /\ phase = "awake" /\ used.sleeps < MaxSleeps
    /\ phase' = "suspending"
    /\ dmesg' = Append(dmesg, Line("suspend", real))
    /\ UNCHANGED <<mono, real, woke, entries, convertHead, used>>

Sleep(d) ==
    /\ ~Built /\ phase = "suspending"
    /\ phase' = "resuming" /\ woke' = mono
    /\ real' = real + d
    /\ dmesg' = Append(dmesg, Line("suspended", d))
    /\ used' = [used EXCEPT !.sleeps = @ + 1]
    /\ UNCHANGED <<mono, entries, convertHead>>

SuspendExit ==
    /\ ~Built /\ phase = "resuming" /\ mono - woke >= MinResume
    /\ phase' = "awake"
    /\ dmesg' = Append(dmesg, Line("resume", real))
    /\ UNCHANGED <<mono, real, woke, entries, convertHead, used>>

\* A line of healthd
Battery ==
    /\ ~Built /\ used.battery < MaxBattery
    /\ phase = "resuming" => mono - woke >= MinResume
    /\ dmesg' = Append(dmesg, Line("battery", real))
    /\ used' = [used EXCEPT !.battery = @ + 1]
    /\ UNCHANGED <<mono, real, phase, woke, entries, convertHead>>

\* The ring of the kernel's log loses its oldest line.
Rotate ==
    /\ ~Built /\ used.rotations < MaxRotations /\ dmesg # <<>>
    /\ dmesg' = Tail(dmesg)
    /\ used' = [used EXCEPT !.rotations = @ + 1]
    /\ UNCHANGED <<mono, real, phase, woke, entries, convertHead>>

LogEntry ==
    /\ ~Built /\ Len(entries) < MaxEntries
    /\ entries' = Append(entries, [real |-> real, mono |-> mono])
    /\ UNCHANGED <<mono, real, phase, woke, dmesg, convertHead, used>>

-----------------------------------------------------------------------------
(***************************************************************************)
(* convertMonotonic(): the list                                             *)
(***************************************************************************)

Breakpoint(time, convert) == [time |-> time, convert |-> convert]

\* Just before a sleep of diff that ended at monotonic time m, and just after it;
\* convert is the factor before it.
AroundSleep(m, diff, convert) ==
    <<Breakpoint(m + convert, convert), Breakpoint(m + convert + diff, convert + diff)>>

ConvertBefore_Resume(tail, m, diff) == tail.convert - diff

\* The factor before the sleep, from the breakpoint at the end of the list.  If that is
\* a second or more after it, it is of the resume, otherwise of the suspend.
ConvertBefore(tail, m, diff) ==
    IF (tail.time - tail.convert) - m >= SEC THEN tail.convert - diff ELSE tail.convert

\* A line of dmesg; s is [list, pending]: pending is the last line "suspended" for
\* which there is no breakpoint yet, or <<>>.
ReadLine(s, line) ==
    LET isTime == line.kind # "suspended"
        list == IF isTime THEN Append(s.list, Breakpoint(line.arg, line.arg - line.mono))
                ELSE s.list
        pending == IF isTime THEN s.pending ELSE <<line>>
    IN  IF pending = <<>> \/ list = <<>> THEN [list |-> list, pending |-> pending]
        ELSE LET sleep == Head(pending)
                 before == ConvertBefore(Last(list), sleep.mono, sleep.arg)
             IN  [list |-> list \o AroundSleep(sleep.mono, sleep.arg, before),
                  pending |-> <<>>]

\* All lines, then the conversion of now; a sleep that no line with a time followed is
\* put before everything.
BuildList ==
    LET s == FoldLeft(ReadLine, [list |-> <<>>, pending |-> <<>>], dmesg)
        now == Breakpoint(real, real - mono)
    IN  IF s.pending = <<>> THEN Append(s.list, now)
        ELSE LET sleep == Head(s.pending)
             IN  AroundSleep(sleep.mono, sleep.arg, now.convert - sleep.arg)
                 \o Append(s.list, now)

BuildConversionList ==
    /\ ~Built /\ entries # <<>>
    /\ convertHead' = BuildList
    /\ UNCHANGED <<mono, real, phase, woke, dmesg, entries, used>>

-----------------------------------------------------------------------------
(***************************************************************************)
(* convertMonotonic(): an entry                                             *)
(***************************************************************************)

\* The first breakpoint later than time, or the last; and the one before it, or the first
NextPoint(time) ==
    LET found == SelectInSeq(convertHead, LAMBDA b : time < b.time)
    IN  IF found = 0 THEN Len(convertHead) ELSE found

ListPoint(time) ==
    LET found == SelectInSeq(convertHead, LAMBDA b : time < b.time)
    IN  IF found = 0 THEN Len(convertHead) ELSE IF found = 1 THEN 1 ELSE found - 1

\* "blend time from one breakpoint to the next"; crun is cut towards zero.  run is
\* unsigned: for a time before the list it is larger than any total.
Blend(list, next, time) ==
    LET total == next.time - list.time
        run == time - list.time
        diff == next.convert - list.convert
        abs == ((IF diff < 0 THEN -diff ELSE diff) * run) \div total
    IN  IF run >= 0 /\ run < total THEN IF diff < 0 THEN -abs ELSE abs ELSE 0

convertMonotonic(time) ==
    LET list == convertHead[ListPoint(time)]
        next == convertHead[NextPoint(time)]
    IN  time - (list.convert + Blend(list, next, time))

-----------------------------------------------------------------------------

Init ==
    /\ mono = 0 /\ real = Offset /\ phase = "awake" /\ woke = 0
    /\ dmesg = <<>> /\ entries = <<>> /\ convertHead = <<>>
    /\ used = [sleeps |-> 0, battery |-> 0, rotations |-> 0]

Next ==
    \/ Tick \/ SuspendEntry \/ SuspendExit \/ Battery \/ Rotate \/ LogEntry
    \/ \E d \in Sleeps : Sleep(d)
    \/ BuildConversionList

Spec == Init /\ [][Next]_vars

-----------------------------------------------------------------------------

\* Only what is "before the dmesg logging span" is "highly suspect regarding the
\* monotonic time calculations": an entry since the oldest line of dmesg gets the
\* monotonic time at which it was logged, however often the device slept.
SpanIsExact ==
    Built /\ dmesg # <<>> =>
        \A i \in DOMAIN entries :
            entries[i].mono > dmesg[1].mono => convertMonotonic(entries[i].real) = entries[i].mono

\* Where dmesg has lost nothing, every entry since boot is exact, and so are their
\* order and the sleeps between them.
AllExact ==
    Built => \A i \in DOMAIN entries : convertMonotonic(entries[i].real) = entries[i].mono
=============================================================================
