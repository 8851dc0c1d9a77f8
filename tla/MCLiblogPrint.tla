---------------------------- MODULE MCLiblogPrint ----------------------------
(***************************************************************************)
(* What liblog prints: filters and lines of text, binary events, and the       *)
(* monotonic time.  The parts share no state: a behaviour is one of the part   *)
(* it begins with, and the variables of the others keep the value "off".      *)
(***************************************************************************)
EXTENDS Integers

VARIABLES
    part,
    filters, global_pri, rules, wrote, bytes, entry, layout, pc, size, out, pm,     \* LogPrint
    lines,
    event, given, format, room, step, next, inCount, painted, outRemaining, fmt,    \* LogPrintEvent
    dressed, stack, result, mark, shown,
    mono, real, phase, woke, dmesg, entries, convertHead, used                      \* LogMonotonic

textVars == <<filters, global_pri, rules, wrote, bytes, entry, layout, pc, size, out, pm, lines>>
eventVars == <<event, given, format, room, step, next, inCount, painted, outRemaining, fmt,
               dressed, stack, result, mark, shown>>
timeVars == <<mono, real, phase, woke, dmesg, entries, convertHead, used>>
vars == <<part, textVars, eventVars, timeVars>>

-----------------------------------------------------------------------------
(***************************************************************************)
(* Filter strings of up to three rules; and tags and messages of up to three   *)
(* characters, and any payload of up to four bytes behind the priority.       *)
(***************************************************************************)

UpTo(n, kinds) == UNION {[1 .. k -> kinds] : k \in 0 .. n}

Layout(long, printable) ==
    [long |-> long, printable |-> printable, prefixLen |-> 2, suffixLen |-> 1]

Filtered == INSTANCE LogPrint WITH
    Tags <- {"", "*", "t1", "t2"},
    RuleChars <- {"", "v", "d", "w", "s", "*", "0", "1", "4", "9", "q"}, MaxRules <- 3,
    Texts <- {<<"a">>}, Foreign <- {}, MaxPayload <- 5, Layouts <- {Layout(FALSE, FALSE)},
    DefaultBufferSize <- 4

Lines == INSTANCE LogPrint WITH
    Tags <- {"", "*", "t1"}, RuleChars <- {""}, MaxRules <- 0,
    Texts <- UpTo(3, {"a", "ctl", "nl"}), Foreign <- UpTo(4, {"nul", "nl", "ctl", "a"}),
    MaxPayload <- 6, Layouts <- {Layout(l, p) : l \in BOOLEAN, p \in BOOLEAN},
    DefaultBufferSize <- 4

-----------------------------------------------------------------------------
(***************************************************************************)
(* Events of one value, of a list, of a list in a list, and empty ones, cut at  *)
(* any byte, in buffers of several sizes: without a format, and with formats   *)
(* of every unit, of two descriptions, of a type that is not known, and of the *)
(* list itself.                                                             *)
(***************************************************************************)

\* 7: "7", "7s"
Seven == [width |-> 1, kilo |-> 0, secs |-> 0, clock |-> <<2>>]

\* 2048: "2048", "2KB", "2.048", "34:" "08"
Kilo == [width |-> 4, kilo |-> 3, secs |-> 5, clock |-> <<3, 2>>]

\* 5000: "5000", "5", "1:" "23:" "20"
Thousands == [width |-> 4, kilo |-> 0, secs |-> 1, clock |-> <<2, 3, 2>>]

Num(v) == [type |-> "int", value |-> v]
Str(n) == [type |-> "string", len |-> n]
List(n) == [type |-> "list", count |-> n]

SomeEvents == {
    <<Num(Kilo)>>, <<Num(Thousands)>>, <<Str(3)>>, <<List(0)>>,
    <<[type |-> "long", value |-> Seven]>>, <<[type |-> "float", value |-> Seven]>>,
    <<List(2), Num(Seven), Str(2)>>,
    <<List(2), Str(0), Num(Kilo)>>, <<List(2), Num(Seven), [type |-> "unknown"]>>,
    <<List(3), Num(Thousands), List(1), Str(1), Num(Seven)>>}

Item(name, type, unit) == [name |-> name, type |-> type, unit |-> unit]

SomeFormats ==
    {<<Item(2, "int", u)>> : u \in {"none", "objects", "percent", "bytes", "milliseconds",
                                    "monotonic"}}
    \cup {<<Item(1, "int", "bytes"), Item(3, "string", "none")>>,
          <<Item(2, "string", "bytes"), Item(2, "int", "monotonic")>>,
          <<Item(0, "any", "milliseconds"), Item(1, "any", "percent")>>,
          <<Item(1, "list", "monotonic"), Item(1, "int", "none")>>}

Bare == INSTANCE LogPrintEvent WITH
    pc <- step, out <- painted, Events <- SomeEvents, Formats <- {<<>>},
    BufferSizes <- {6, 8, 9, 10, 12, 16, 20, 24}, TagWidths <- {0, 3}

Dressed == INSTANCE LogPrintEvent WITH
    pc <- step, out <- painted, Events <- SomeEvents, Formats <- SomeFormats,
    BufferSizes <- {6, 8, 10, 12, 16, 22}, TagWidths <- {0}

-----------------------------------------------------------------------------
(***************************************************************************)
(* An entry anywhere in the time since boot, with two sleeps: dmesg whole,     *)
(* and dmesg as a ring that lost lines, on a device that takes a second to     *)
(* resume.                                                                  *)
(***************************************************************************)

WholeDmesg == INSTANCE LogMonotonic WITH
    SEC <- 2, Offset <- 10, Sleeps <- {1, 4}, MinResume <- 0, MaxMono <- 4, MaxSleeps <- 2,
    MaxBattery <- 1, MaxEntries <- 1, MaxRotations <- 0

RingDmesg == INSTANCE LogMonotonic WITH
    SEC <- 2, Offset <- 10, Sleeps <- {1, 4}, MinResume <- 2, MaxMono <- 6, MaxSleeps <- 2,
    MaxBattery <- 1, MaxEntries <- 1, MaxRotations <- 3

-----------------------------------------------------------------------------

TextOff ==
    /\ filters = "off" /\ global_pri = "off" /\ rules = "off" /\ wrote = "off" /\ bytes = "off"
    /\ entry = "off" /\ layout = "off" /\ pc = "off" /\ size = "off" /\ out = "off"
    /\ pm = "off" /\ lines = "off"

EventOff ==
    /\ event = "off" /\ given = "off" /\ format = "off" /\ room = "off" /\ step = "off"
    /\ next = "off" /\ inCount = "off" /\ painted = "off" /\ outRemaining = "off"
    /\ fmt = "off" /\ dressed = "off" /\ stack = "off" /\ result = "off" /\ mark = "off"
    /\ shown = "off"

TimeOff ==
    /\ mono = "off" /\ real = "off" /\ phase = "off" /\ woke = "off" /\ dmesg = "off"
    /\ entries = "off" /\ convertHead = "off" /\ used = "off"

Init ==
    \/ /\ EventOff /\ TimeOff
       /\ \/ part = "filters" /\ Filtered!Init
          \/ part = "lines" /\ Lines!Init
    \/ /\ TextOff /\ TimeOff
       /\ \/ part = "bare" /\ Bare!Init
          \/ part = "dressed" /\ Dressed!Init
    \/ /\ TextOff /\ EventOff
       /\ \/ part = "whole dmesg" /\ WholeDmesg!Init
          \/ part = "ring" /\ RingDmesg!Init

Next ==
    \/ /\ \/ part = "filters" /\ Filtered!Next
          \/ part = "lines" /\ Lines!Next
       /\ UNCHANGED <<part, eventVars, timeVars>>
    \/ /\ \/ part = "bare" /\ Bare!Next
          \/ part = "dressed" /\ Dressed!Next
       /\ UNCHANGED <<part, textVars, timeVars>>
    \/ /\ \/ part = "whole dmesg" /\ WholeDmesg!Next
          \/ part = "ring" /\ RingDmesg!Next
       /\ UNCHANGED <<part, textVars, eventVars>>

Spec == Init /\ [][Next]_vars

-----------------------------------------------------------------------------

\* android_log_addFilterString() and android_log_shouldPrintLine() let through what the
\* help of logcat says, for every sequence of rules with letters of its own.
FiltersAsDocumented == part = "filters" => Filtered!FiltersAsDocumented

\* The loop that counts the lines of a message and the one that prints them agree, so
\* that a message that was sent whole is shown whole and within its buffer, an empty one
\* within the buffer that the caller hands in (the size counted for it is too small), and
\* one that was cut is shown as far as it came.  An event fits its buffer also when it is
\* painted again, is shown whole or marked, with '^' only if it does not fit without its
\* format, and with '!' only if it is damaged or was painted again: the second paint goes
\* on with the length that the first one left (logprint.cpp:1083), so an undamaged event
\* may get the '!' there.
LinesAreWhole ==
    /\ part = "lines" => /\ Lines!LinesFitBuffer /\ Lines!MessageIsShown
                         /\ Lines!CutMessageIsPrefix /\ Lines!EntryIsWithinPayload
    /\ part = "bare" => /\ Bare!UnmarkedLineIsWhole /\ Bare!FailsOnlyIfDamaged
                        /\ Bare!OutputFits /\ Bare!CutOnlyIfNeeded
    /\ part = "dressed" => /\ Dressed!UnmarkedLineIsWhole /\ Dressed!FailsOnlyIfDamaged
                           /\ Dressed!OutputFits /\ Dressed!CutOnlyIfNeeded

\* convertMonotonic() gives an entry the monotonic time at which it was logged, however
\* often the device slept: since boot if dmesg is whole, or else since the oldest line that
\* dmesg still has, on a device that takes a second to resume.  (A resume within a second
\* of a suspend line that is lost is counted twice, logprint.cpp:1324.)
TimesAreExact ==
    /\ part = "whole dmesg" => WholeDmesg!AllExact
    /\ part = "ring" => RingDmesg!SpanIsExact
=============================================================================
