------------------------------- MODULE KlogTime -------------------------------
(***************************************************************************)
(* LogKlog's clock: kernel lines carry monotonic time, which stands still    *)
(* while the device sleeps; sniffTime() turns it into real time with a        *)
(* correction that it learns from the lines themselves, and log() then       *)
(* takes back jumps of a quarter of an hour, "near_seconds" early or late.    *)
(* Times are in seconds.  main() sets the time zone to UTC, so that the       *)
(* offset calculateCorrection() adds is zero.                               *)
(***************************************************************************)
EXTENDS Integers, Sequences

CONSTANTS Start,            \* monotonic and real time at the start
          Ticks, Sleeps, Jumps,   \* seconds that pass, that the device sleeps, that the clock is set by
          UintModulus,      \* tv_sec is a uint32_t: 2^32, less to stay within TLC's numbers
          MaxLines, MaxSleeps, MaxJumps    \* bounds

VARIABLES mono, real,       \* the clocks
          lines,            \* kernel lines that were not read yet
          asleep,           \* "no", "entry" (the line was printed), "resumed" (the exit line is missing)
          correction, vote_time,
          entries,          \* history: what was logged, [raw, now, real, settled]
          printed, slept, jumped   \* bounds; slept is the sum of the sleep since the last exit line
vars == <<mono, real, lines, asleep, correction, vote_time, entries, printed, slept, jumped>>

Difference(a, b) == IF a < b THEN 0 ELSE a - b

Init == /\ mono = Start.mono /\ real = Start.real
        /\ lines = << >> /\ asleep = "no"
        /\ correction = Difference(real, mono) /\ vote_time = <<0, 0, 0>>
        /\ entries = << >> /\ printed = 0 /\ slept = 0 /\ jumped = 0

-----------------------------------------------------------------------------
(***************************************************************************)
(* The device.                                                              *)
(***************************************************************************)
Line(kind, t, n) == [kind |-> kind, mono |-> mono, real |-> t, n |-> n, settled |-> asleep = "no" /\ slept > 0]
Emit(kind, t, n) == /\ printed < MaxLines /\ printed' = printed + 1
                     /\ lines' = Append(lines, Line(kind, t, n))

Tick == /\ printed < MaxLines
        /\ \E dt \in Ticks : mono' = mono + dt /\ real' = real + dt
        /\ \E kind \in {"plain", "healthd"} :
              lines' = Append(lines, [Line(kind, real', 0) EXCEPT !.mono = mono']) /\ printed' = printed + 1
        /\ UNCHANGED <<asleep, correction, vote_time, entries, slept, jumped>>

SuspendEntry == /\ asleep = "no" /\ slept = 0 /\ MaxSleeps > 0
                /\ Emit("entry", real, 0) /\ asleep' = "entry"
                /\ UNCHANGED <<mono, real, correction, vote_time, entries, slept, jumped>>
Resume == /\ asleep = "entry"
          /\ \E n \in Sleeps : /\ real' = real + n /\ slept' = slept + n
                               /\ printed' = printed + 1
                               /\ lines' = Append(lines, Line("suspended", real', n))
          /\ asleep' = "resumed"
          /\ UNCHANGED <<mono, correction, vote_time, entries, jumped>>
SuspendExit == /\ asleep = "resumed" /\ asleep' = "no"
               /\ printed' = printed + 1
               /\ lines' = Append(lines, [Line("exit", real, 0) EXCEPT !.settled = TRUE])
               /\ UNCHANGED <<mono, real, correction, vote_time, entries, slept, jumped>>
SetClock == /\ jumped < MaxJumps /\ jumped' = jumped + 1
            /\ \E d \in Jumps : real' = real + d
            /\ UNCHANGED <<mono, lines, asleep, correction, vote_time, entries, printed, slept>>

-----------------------------------------------------------------------------
(***************************************************************************)
(* sniffTime() and the end of log()                                          *)
(***************************************************************************)
\* "Suspended for N": the number is read from strlen(suspendStr) on, four characters too far.
Digits(n) == CHOOSE d \in 1 .. 9 : n < 10 ^ d /\ (d = 1 \/ n >= 10 ^ (d - 1))
Sniffed(n) == IF Digits(n) < 4 THEN 0 ELSE n % 10 ^ (Digits(n) - 4)

\* calculateCorrection(); healthd only triggers a look at the clocks.
Corrected_Entry(line) == IF line.kind = "exit" THEN correction ELSE Difference(line.real, line.mono)
Corrected(line) == IF line.real > real THEN correction ELSE Difference(line.real, line.mono)
Correction(line) ==
    CASE line.kind \in {"entry", "exit"} -> Corrected(line)
      [] line.kind = "healthd" -> Difference(real, mono)
      [] line.kind = "suspended" -> correction + Sniffed(line.n)
      [] OTHER -> correction

\* Three votes: the last two lines agree, and this one is near a multiple of a quarter of an hour away.
near_seconds == 10
timezones_seconds == 900
Quarters == timezones_seconds \div near_seconds
Apart(a, b) == ((a - b) % UintModulus) \div near_seconds
Agree(a, b) == Apart(a, b) <= 1
Multiple(off) == off \div Quarters
TakenBack(votes) ==
    LET off == Apart(votes[1], votes[2]) + 1
    IN  IF /\ votes[2] # 0 /\ votes[3] # 0
           /\ Agree(votes[2], votes[3]) /\ off % Quarters <= 2
        THEN Multiple(off) * timezones_seconds ELSE 0

Log ==
    /\ lines # << >> /\ lines' = Tail(lines)
    /\ correction' = Correction(Head(lines))
    /\ LET raw == Head(lines).mono + correction'
       IN  /\ vote_time' = <<raw, vote_time[1], vote_time[2]>>
           /\ entries' = Append(entries, [raw |-> raw, now |-> (raw - TakenBack(vote_time')) % UintModulus,
                                          real |-> Head(lines).real, settled |-> Head(lines).settled])
    /\ UNCHANGED <<mono, real, asleep, printed, slept, jumped>>

Next == Tick \/ SuspendEntry \/ Resume \/ SuspendExit \/ SetClock \/ Log
Spec == Init /\ [][Next]_vars

-----------------------------------------------------------------------------
(* As long as nobody sets the clock, and however late the lines are read     *)
(* from which the correction is learnt: the lines that follow the end of a   *)
(* suspend are stamped with real time, and the others are never off by more  *)
(* than the sleep.                                                           *)
StampsAreReal ==
    jumped = 0 =>
        \A i \in DOMAIN entries :
           /\ entries[i].raw - entries[i].real \in 0 - slept .. slept
           /\ entries[i].settled => entries[i].raw = entries[i].real

(* A line that jumps ahead of two lines in agreement by quarters of an hour  *)
(* is put back to their time.                                                *)
JumpsAreTakenBack ==
    \A i \in DOMAIN entries :
       (/\ i > 2 /\ entries[i - 1].raw - entries[i - 2].raw \in 0 .. 2 * near_seconds - 1
        /\ \E k \in 1 .. 3 : entries[i].raw - entries[i - 1].raw - k * timezones_seconds
                                 \in 0 - near_seconds .. near_seconds)
       => entries[i].now - entries[i - 1].raw \in 0 - 2 * near_seconds .. 2 * near_seconds

(* A line that follows another without such a jump keeps its time.           *)
NothingElseIsTakenBack ==
    \A i \in DOMAIN entries :
       (i > 1 /\ entries[i].raw - entries[i - 1].raw \in 0 .. timezones_seconds - 3 * near_seconds)
       => entries[i].now = entries[i].raw

=============================================================================
