---------------------------- MODULE MCLogdInputs ----------------------------
(***************************************************************************)
(* What logd reads from the kernel and from its tag files, and what the map   *)
(* of tags in liblog makes of those.  The parts share no state: a behaviour is *)
(* one of the part it begins with, and the variables of the others keep the    *)
(* value "off".                                                             *)
(***************************************************************************)
EXTENDS Integers, SequencesExt

VARIABLES
    part,
    config, kernel, logd, logged, count,                        \* KernelLog
    unread, buffer, got, at, maxPrioLen, lines, input,          \* KlogLines
    mono, real, kmsg, asleep, correction, vote_time, entries,   \* KlogTime
    printed, slept, jumped,
    key2tag, tag2name, tag2format, tag2uid, uid2count,          \* LogTags
    tag2total, file2watermark, phase, todo, job, file, pmsg,
    mounted, total, requests, faults, answers, damaged,
    disk, missing, named, pc, which, line, fd, mapLen,          \* EventTagMap
    Idx2TagFmt, result

-----------------------------------------------------------------------------
(***************************************************************************)
(* The kernel log and the audit daemon: started twice, with lines that are not *)
(* loggable, also over a ring that overflows, and started once under every     *)
(* setting and failure.                                                      *)
(***************************************************************************)

Properties(auditd, klogd, dmesg) ==
    [auditd |-> auditd, klogd |-> klogd, dmesg |-> dmesg, main |-> TRUE, events |-> FALSE]

AllProperties ==
    {Properties(a, k, d) : a, k, d \in BOOLEAN}
    \cup {[Properties(TRUE, TRUE, TRUE) EXCEPT !.events = TRUE],
          [Properties(TRUE, TRUE, TRUE) EXCEPT !.main = FALSE]}

BugMapFiles == << << <<"#", "comment">>, <<"d", "b/12345678">>, << >> >>,
                  << <<"d", "b/1">>, <<"ill", "formed", "line">>, <<"e", "b/87654321">> >> >>

Restart == INSTANCE KernelLog WITH
    Tags <- {"init", "noisy"}, Suppressed <- {"noisy"}, Denials <- {"d"}, Apps <- {}, BugMap <- BugMapFiles,
    Configs <- {Properties(TRUE, TRUE, TRUE)}, RingSize <- 20, SetupFailures <- FALSE,
    MaxMessages <- 3, MaxStarts <- 2

Ring == INSTANCE KernelLog WITH
    Tags <- {"init"}, Suppressed <- {}, Denials <- {"d"}, Apps <- {}, BugMap <- BugMapFiles,
    Configs <- {Properties(TRUE, TRUE, TRUE)}, RingSize <- 3, SetupFailures <- FALSE,
    MaxMessages <- 3, MaxStarts <- 2

Boot == INSTANCE KernelLog WITH
    Tags <- {"init"}, Suppressed <- {}, Denials <- {"d", "e"}, Apps <- {"e"},
    BugMap <- BugMapFiles, Configs <- AllProperties, RingSize <- 20, SetupFailures <- TRUE,
    MaxMessages <- 3, MaxStarts <- 1

\* Pairs of records, the first or the second with up to three pieces of signatures
\* in it, in a buffer that holds few of them, and in one that holds most.
Prefix == <<"<", "d", ">", "[", " ", "d", ".", "d", "]", " ">>

Pieces == {<<"x">>, <<"<", "d", "d", ">", "[">>, <<"[", "d", ".", "d", "]", " ">>,
           <<"<", "d", ">">>, <<"[", "d", "]", " ">>}

Bodies(n) == {FlattenSeq(p) : p \in UNION {[1 .. k -> Pieces] : k \in 0 .. n}}

Record(body) == Prefix \o body \o <<"n">>

Pairs == {<<Record(a), Record(b)>> : a \in Bodies(3), b \in Bodies(0)}
         \cup {<<Record(a), Record(b)>> : a \in Bodies(1), b \in Bodies(2)}

Small == INSTANCE KlogLines WITH BufferSize <- 14, Records <- Pairs
Large == INSTANCE KlogLines WITH BufferSize <- 24, Records <- Pairs

\* A clock that sleeps, and one that is set ahead
Booted == [mono |-> 100, real |-> 50000]

Sleeping == INSTANCE KlogTime WITH
    lines <- kmsg, Start <- Booted, Ticks <- {0, 1}, Sleeps <- {5, 1234, 23456}, Jumps <- {},
    UintModulus <- 1048576, MaxLines <- 5, MaxSleeps <- 1, MaxJumps <- 0

Jumping == INSTANCE KlogTime WITH
    lines <- kmsg, Start <- Booted, Ticks <- {0, 1, 9, 19}, Sleeps <- {},
    Jumps <- {900, 1800, 891, 909, 60}, UintModulus <- 1048576, MaxLines <- 4, MaxSleeps <- 0,
    MaxJumps <- 1

-----------------------------------------------------------------------------
(***************************************************************************)
(* Event tags: on a debuggable build, where they go to files that may be cut, *)
(* and with pmsg and references by other threads.                            *)
(***************************************************************************)

Line(tag, uid, name, format) ==
    [kind |-> "entry", tag |-> tag, uid |-> uid, name |-> name, format |-> format]

Number(n) == CASE n = "a" -> 100 [] n = "b" -> 200 [] OTHER -> 300

HashOf(name, format) == Number(name) + (IF format = "f" THEN 1 ELSE 0)

\* The hash of "b" is the tag of a name without a format.
PlainHash(name, format) == IF name = "b" THEN 20 ELSE HashOf(name, format)

TagFiles == INSTANCE LogTags WITH
    Names <- {"a", "own"}, Formats <- {"", "f"}, Uids <- {0, 8}, Hash <- HashOf,
    SystemTags <- <<[kind |-> "comment"], [kind |-> "invalid"], Line(11, 7, "own", "f"),
                    [kind |-> "text"], Line(12, 0, "unread", "f")>>,
    Debuggable <- TRUE, Pmsg <- FALSE, max_per_uid <- 1, rate_to_pmsg <- 2,
    MaxRequests <- 2, MaxTraffic <- 0, MaxFaults <- 2

TagTraffic == INSTANCE LogTags WITH
    Names <- {"a", "b"}, Formats <- {"", "f"}, Uids <- {0, 8}, Hash <- PlainHash,
    SystemTags <- <<Line(20, 0, "plain", ""), Line(10, 7, "a", "f")>>,
    Debuggable <- FALSE, Pmsg <- TRUE, max_per_uid <- 1, rate_to_pmsg <- 2,
    MaxRequests <- 2, MaxTraffic <- 3, MaxFaults <- 1

\* Files of tags: empty, sound, without a last newline, with a tag twice, at odds with
\* one another, and damaged at either end
TagLine(i, n) == [kind |-> "tag", idx |-> i, name |-> n, fmt |-> "f"]

Ended(list) == [lines |-> list, eol |-> TRUE]

TagMap == INSTANCE EventTagMap WITH
    file <- disk,
    Files <- {Ended(<<>>),
              Ended(<<TagLine(1, "a")>>),
              Ended(<<TagLine(1, "b"), TagLine(2, "c")>>),
              Ended(<<TagLine(2, "d"), [kind |-> "blank"], TagLine(1, "a")>>),
              Ended(<<TagLine(1, "a"), TagLine(1, "b")>>),
              Ended(<<TagLine(3, "e"), TagLine(3, "e"), TagLine(2, "c")>>),
              Ended(<<[kind |-> "junk"], TagLine(1, "a")>>),
              Ended(<<TagLine(2, "c"), [kind |-> "bad"]>>),
              [lines |-> <<TagLine(1, "a"), TagLine(2, "d")>>, eol |-> FALSE]}

-----------------------------------------------------------------------------

kernelVars == <<config, kernel, logd, logged, count>>
klogVars == <<unread, buffer, got, at, maxPrioLen, lines, input>>
timeVars == <<mono, real, kmsg, asleep, correction, vote_time, entries, printed, slept, jumped>>
tagVars == <<key2tag, tag2name, tag2format, tag2uid, uid2count, tag2total, file2watermark, phase,
             todo, job, file, pmsg, mounted, total, requests, faults, answers, damaged>>
mapVars == <<disk, missing, named, pc, which, line, fd, mapLen, Idx2TagFmt, result>>
vars == <<part, kernelVars, klogVars, timeVars, tagVars, mapVars>>

KernelOff == config = "off" /\ kernel = "off" /\ logd = "off" /\ logged = "off" /\ count = "off"

KlogOff == /\ unread = "off" /\ buffer = "off" /\ got = "off" /\ at = "off"
           /\ maxPrioLen = "off" /\ lines = "off" /\ input = "off"

TimeOff == /\ mono = "off" /\ real = "off" /\ kmsg = "off" /\ asleep = "off"
           /\ correction = "off" /\ vote_time = "off" /\ entries = "off"
           /\ printed = "off" /\ slept = "off" /\ jumped = "off"

TagsOff == /\ key2tag = "off" /\ tag2name = "off" /\ tag2format = "off" /\ tag2uid = "off"
           /\ uid2count = "off" /\ tag2total = "off" /\ file2watermark = "off"
           /\ phase = "off" /\ todo = "off" /\ job = "off" /\ file = "off" /\ pmsg = "off"
           /\ mounted = "off" /\ total = "off" /\ requests = "off" /\ faults = "off"
           /\ answers = "off" /\ damaged = "off"

MapOff == /\ disk = "off" /\ missing = "off" /\ named = "off" /\ pc = "off" /\ which = "off"
          /\ line = "off" /\ fd = "off" /\ mapLen = "off" /\ Idx2TagFmt = "off" /\ result = "off"

Init ==
    \/ /\ KlogOff /\ TimeOff /\ TagsOff /\ MapOff
       /\ \/ part = "restart" /\ Restart!Init
          \/ part = "ring" /\ Ring!Init
          \/ part = "boot" /\ Boot!Init
    \/ /\ KernelOff /\ TimeOff /\ TagsOff /\ MapOff
       /\ \/ part = "small" /\ Small!Init
          \/ part = "large" /\ Large!Init
    \/ /\ KernelOff /\ KlogOff /\ TagsOff /\ MapOff
       /\ \/ part = "sleeping" /\ Sleeping!Init
          \/ part = "jumping" /\ Jumping!Init
    \/ /\ KernelOff /\ KlogOff /\ TimeOff /\ MapOff
       /\ \/ part = "tag files" /\ TagFiles!Init
          \/ part = "tag traffic" /\ TagTraffic!Init
    \/ part = "tag map" /\ TagMap!Init /\ KernelOff /\ KlogOff /\ TimeOff /\ TagsOff

Next ==
    \/ /\ \/ part = "restart" /\ Restart!Next
          \/ part = "ring" /\ Ring!Next
          \/ part = "boot" /\ Boot!Next
       /\ UNCHANGED <<part, klogVars, timeVars, tagVars, mapVars>>
    \/ /\ \/ part = "small" /\ Small!Next
          \/ part = "large" /\ Large!Next
       /\ UNCHANGED <<part, kernelVars, timeVars, tagVars, mapVars>>
    \/ /\ \/ part = "sleeping" /\ Sleeping!Next
          \/ part = "jumping" /\ Jumping!Next
       /\ UNCHANGED <<part, kernelVars, klogVars, tagVars, mapVars>>
    \/ /\ \/ part = "tag files" /\ TagFiles!Next
          \/ part = "tag traffic" /\ TagTraffic!Next
       /\ UNCHANGED <<part, kernelVars, klogVars, timeVars, mapVars>>
    \/ /\ part = "tag map" /\ TagMap!Next
       /\ UNCHANGED <<part, kernelVars, klogVars, timeVars, tagVars>>

Spec == Init /\ [][Next]_vars

-----------------------------------------------------------------------------

\* readDmesg() and the listeners log no kernel line twice, also when logd is started
\* again, and log every one but those the kernel overwrote, those that are not loggable,
\* and, because readDmesg() ends at the first of these (main.cpp:145), the lines of the
\* ring between it and the marker of this start.  audit_setup() swallows one denial at
\* most, as long as the audit listener starts.  A denial gets its own metadata once,
\* unless it was read from the ring with some that an earlier logd wrote there: logPrint()
\* may append that of another denial to it (LogAudit.cpp:286).
KernelLinesOnce ==
    /\ part = "restart" => /\ Restart!LoggedOnce /\ Restart!NothingLost
                           /\ Restart!AtMostOneDenialLost /\ Restart!MetadataIsOwn
    /\ part = "ring" => Ring!LoggedOnce /\ Ring!NothingLost /\ Ring!MetadataIsOwn
    /\ part = "boot" => Boot!LoggedOnce /\ Boot!NothingLost /\ Boot!MetadataIsOwn

\* onDataAvailable() loses no character of what it reads, and splits lines that fit
\* into its buffer at their signatures only.
KernelTextIsSplit ==
    /\ part = "small" => Small!NoTextLost /\ Small!SplitAtSignatures
    /\ part = "large" => Large!NoTextLost /\ Large!SplitAtSignatures

\* sniffTime() and the vote of log() stamp kernel lines with real time over a suspend,
\* and take back jumps of quarters of an hour and no others; jumps backwards are excluded,
\* as the difference is unsigned (LogKlog.cpp:751).
KernelTimesAreReal ==
    /\ part = "sleeping" => Sleeping!StampsAreReal
    /\ part = "jumping" => Jumping!JumpsAreTakenBack /\ Jumping!NothingElseIsTakenBack

=============================================================================
