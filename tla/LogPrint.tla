------------------------------ MODULE LogPrint ------------------------------
(***************************************************************************)
(* liblog/logprint.cpp for text messages: the filter rules, the split of a   *)
(* payload into tag and message, and the lines that are printed.  Whether a  *)
(* line passes the filters is a function of its own, which logcat calls in   *)
(* between; here every payload is printed.                                  *)
(*                                                                         *)
(* A payload is its priority and the bytes after it, each one of             *)
(*   "nul", "nl" (newline), "ctl" (another odd character), "a" (any other).  *)
(* A filter rule is [tag, c]: c is the character after the colon, or "".     *)
(***************************************************************************)
EXTENDS Integers, FiniteSetsExt, SequencesExt

CONSTANTS
    Tags,               \* tags in filter rules, "*" and the empty one among them
    RuleChars,          \* characters after the colon
    MaxRules,           \* bound on the rules of a filter string
    Texts,              \* tags and messages of the writer: sequences without "nul"
    Foreign,            \* payloads that did not come from the writer in liblog
    MaxPayload,         \* LOGGER_ENTRY_MAX_PAYLOAD without the priority
    Layouts,            \* [long, printable, prefixLen, suffixLen]
    DefaultBufferSize   \* the buffer of android_log_printLogLine(): 4096, room for a prefix
                        \* and a suffix, each cut at 127

VARIABLES
    filters, global_pri,    \* of AndroidLogFormat_t
    rules,                  \* history: the rules given
    wrote,                  \* history: [tag, msg] of the writer; <<>> for a foreign payload
    bytes,                  \* the payload after its priority, as changed in place
    entry,                  \* [tag, message]: the AndroidLogEntry
    layout,
    pc,                     \* "rules", "read", "format", "lines", "done", "exit"
    size,                   \* of the buffer used
    out,                    \* p - ret
    pm,                     \* characters of the message passed
    lines                   \* the text of the lines printed, without prefix and suffix

vars == <<filters, global_pri, rules, wrote, bytes, entry, layout, pc, size, out, pm, lines>>

formatVars == <<filters, global_pri, rules>>

-----------------------------------------------------------------------------
(***************************************************************************)
(* Filter rules                                                             *)
(***************************************************************************)

UNKNOWN == 0
DEFAULT == 1
VERBOSE == 2
DEBUG == 3
SILENT == 8

Letters == [c \in {"v", "d", "i", "w", "e", "f", "s"} |->
    CASE c = "v" -> VERBOSE [] c = "d" -> DEBUG [] c = "i" -> 4 [] c = "w" -> 5
      [] c = "e" -> 6 [] c = "f" -> 7 [] c = "s" -> SILENT]

Digits == [c \in {"0", "1", "2", "3", "4", "5", "6", "7"} |->
    CASE c = "0" -> 0 [] c = "1" -> 1 [] c = "2" -> 2 [] c = "3" -> 3
      [] c = "4" -> 4 [] c = "5" -> 5 [] c = "6" -> 6 [] c = "7" -> 7]

filterCharToPri(c) ==
    CASE c \in DOMAIN Letters -> Letters[c]
      [] c \in DOMAIN Digits -> Digits[c]
      [] c \in {"8", "9"} -> VERBOSE
      [] c = "*" -> DEFAULT
      [] OTHER -> UNKNOWN

\* The priority of a rule: DEFAULT is what the tag makes of it.
RulePriority(rule) ==
    LET pri == IF rule.c = "" THEN DEFAULT ELSE filterCharToPri(rule.c)
    IN  IF pri # DEFAULT THEN pri ELSE IF rule.tag = "*" THEN DEBUG ELSE VERBOSE

InvalidRule(rule) == rule.tag = "" \/ RulePriority(rule) = UNKNOWN

addFilterRule_Appended(rule) ==
    /\ IF rule.tag = "*"
       THEN global_pri' = RulePriority(rule) /\ UNCHANGED filters
       ELSE /\ filters' = Append(filters, [mTag |-> rule.tag, mPri |-> RulePriority(rule)])
            /\ UNCHANGED global_pri
    /\ rules' = Append(rules, rule)

addFilterRule(rule) ==
    /\ IF rule.tag = "*"
       THEN global_pri' = RulePriority(rule) /\ UNCHANGED filters
       ELSE /\ filters' = <<[mTag |-> rule.tag, mPri |-> RulePriority(rule)]>> \o filters
            /\ UNCHANGED global_pri
    /\ rules' = Append(rules, rule)

filterPriForTag(tag) ==
    LET found == SelectInSeq(filters, LAMBDA f : f.mTag = tag)
    IN  IF found = 0 THEN global_pri
        ELSE IF filters[found].mPri = DEFAULT THEN global_pri
        ELSE filters[found].mPri

shouldPrintLine(tag, pri) == pri >= filterPriForTag(tag)

\* android_log_addFilterString(), one rule of the string at a time; logcat exits when
\* a rule is refused.
AddFilterString(rule) ==
    /\ pc = "rules" /\ Len(rules) < MaxRules
    /\ IF InvalidRule(rule) THEN pc' = "exit" /\ UNCHANGED formatVars
       ELSE addFilterRule(rule) /\ UNCHANGED pc
    /\ UNCHANGED <<wrote, bytes, entry, layout, size, out, pm, lines>>

-----------------------------------------------------------------------------
(***************************************************************************)
(* android_log_processLogBuffer()                                           *)
(***************************************************************************)

\* What the writer sends: "<priority:1><tag:N>\0<message:N>\0", cut at the maximum
TextPayload(tag, msg) ==
    LET all == tag \o <<"nul">> \o msg \o <<"nul">>
    IN  SubSeq(all, 1, Min({Len(all), MaxPayload}))

At(b, kinds) == {i \in DOMAIN b : b[i] \in kinds}

\* In the code's numbering: the priority is msg[0], bytes[i] is msg[i], buf->len is
\* Len(bytes) + 1.  Without a NUL the tag ends at an odd character, if there is one.
TagEnds(b) ==
    IF At(b, {"nul"}) # {} THEN Min(At(b, {"nul"}))
    ELSE IF At(b, {"nl", "ctl"}) # {} THEN Min(At(b, {"nl", "ctl"}))
    ELSE 0

MsgStart(b) == IF TagEnds(b) # 0 THEN TagEnds(b) + 1 ELSE Len(b)

\* The second NUL, or the last byte, which is made one
MsgEnd(b) ==
    LET nuls == At(b, {"nul"})
    IN  IF Cardinality(nuls) > 1 THEN Min(nuls \ {Min(nuls)}) ELSE Len(b)

\* The bytes as processLogBuffer() leaves them
Terminated(b) ==
    [i \in DOMAIN b |-> IF i \in {TagEnds(b), MsgEnd(b)} THEN "nul" ELSE b[i]]

ProcessLogBuffer(b) ==
    /\ pc = "rules"
    /\ IF Len(b) + 1 < 3    \* "entry too small"
       THEN pc' = "done" /\ UNCHANGED <<bytes, entry>>
       ELSE /\ pc' = "format"
            /\ bytes' = Terminated(b)
               \* tagLen, msgStart - 1, counts the NUL; print and logcat stop there
            /\ entry' = [tag |-> SelectSeq(SubSeq(bytes', 1, MsgStart(b) - 1),
                                           LAMBDA c : c # "nul"),
                         message |-> SubSeq(bytes', MsgStart(b), MsgEnd(b) - 1)]
    /\ UNCHANGED <<formatVars, layout, size, out, pm, lines>>

ReadText(tag, msg) ==
    /\ ProcessLogBuffer(TextPayload(tag, msg))
    /\ wrote' = <<tag, msg>>

ReadForeign(b) ==
    /\ ProcessLogBuffer(b)
    /\ UNCHANGED wrote

-----------------------------------------------------------------------------
(***************************************************************************)
(* android_log_formatLogLine()                                              *)
(***************************************************************************)

\* convertPrintable(): a newline becomes \x0A, another odd character \b or the like.
Width(c) == CASE c = "nl" -> 4 [] c = "ctl" -> 2 [] OTHER -> 1

TextWidth(l, text) ==
    IF l.printable THEN MapThenSumSet(LAMBDA i : Width(text[i]), DOMAIN text) ELSE Len(text)

\* "The line-end finding here must match the line-end finding" of PrintLine
numLines(l, text) ==
    IF l.long THEN 1
    ELSE Cardinality(At(text, {"nl"})) + IF text # <<>> /\ Last(text) # "nl" THEN 1 ELSE 0

\* "this is an upper bound": of what a message that is not empty needs
BufferSize(l, text) ==
    numLines(l, text) * (l.prefixLen + l.suffixLen) + 1 + TextWidth(l, text)

FormatLogLine(l) ==
    /\ pc = "format"
    /\ layout' = l
    /\ size' = Max({DefaultBufferSize, BufferSize(l, entry.message)})
    /\ out' = 0 /\ pm' = 0 /\ lines' = <<>>
    /\ pc' = "lines"
    /\ UNCHANGED <<formatVars, wrote, bytes, entry>>

Printed(text) == out + layout.prefixLen + TextWidth(layout, text) + layout.suffixLen

\* FORMAT_LONG wraps the message in a header and a footer.
PrintLong ==
    /\ pc = "lines" /\ layout.long
    /\ lines' = <<entry.message>>
    /\ out' = Printed(entry.message)
    /\ pc' = "done"
    /\ UNCHANGED <<formatVars, wrote, bytes, entry, layout, size, pm>>

\* Where the line that starts after pm ends
LineEnd(text) ==
    LET ends == {i \in At(text, {"nl"}) : i > pm}
    IN  IF ends = {} THEN Len(text) ELSE Min(ends) - 1

PrintLine_NewlineTwice ==
    LET end == LineEnd(entry.message)
        text == SubSeq(entry.message, pm + 1, end)
    IN  /\ pc = "lines" /\ ~layout.long
        /\ lines' = Append(lines, text)
        /\ out' = Printed(text)
        /\ pm' = IF end < Len(entry.message) THEN Min({end + 2, Len(entry.message)}) ELSE end
        /\ pc' = IF pm' < Len(entry.message) THEN "lines" ELSE "done"
        /\ UNCHANGED <<formatVars, wrote, bytes, entry, layout, size>>

\* One turn of the do loop: also an empty message has one line.
PrintLine ==
    LET end == LineEnd(entry.message)
        text == SubSeq(entry.message, pm + 1, end)
    IN  /\ pc = "lines" /\ ~layout.long
        /\ lines' = Append(lines, text)
        /\ out' = Printed(text)
        /\ pm' = IF end < Len(entry.message) THEN end + 1 ELSE end
        /\ pc' = IF pm' < Len(entry.message) THEN "lines" ELSE "done"
        /\ UNCHANGED <<formatVars, wrote, bytes, entry, layout, size>>

-----------------------------------------------------------------------------

Init ==
    /\ filters = <<>> /\ global_pri = VERBOSE /\ rules = <<>>
    /\ wrote = <<>> /\ bytes = <<>> /\ entry = [tag |-> <<>>, message |-> <<>>]
    /\ layout \in Layouts /\ pc = "rules" /\ size = 0 /\ out = 0 /\ pm = 0 /\ lines = <<>>

Next ==
    \/ \E t \in Tags, c \in RuleChars : AddFilterString([tag |-> t, c |-> c])
    \/ \E tag \in Texts, msg \in Texts : ReadText(tag, msg)
    \/ \E b \in Foreign : ReadForeign(b)
    \/ \E l \in Layouts : FormatLogLine(l)
    \/ PrintLong \/ PrintLine

Spec == Init /\ [][Next]_vars

-----------------------------------------------------------------------------

\* The two loops over the message agree: what the second one writes, with its NUL,
\* fits into the buffer the first one asked for.
LinesFitBuffer == pc \in {"lines", "done"} => out < Max({size, 1})

\* Cutting a message into lines at its newlines, the last of which need not end in one
RECURSIVE SplitLines(_)
SplitLines(text) ==
    IF At(text, {"nl"}) = {} THEN IF text = <<>> THEN <<>> ELSE <<text>>
    ELSE LET i == Min(At(text, {"nl"}))
         IN  <<SubSeq(text, 1, i - 1)>> \o SplitLines(SubSeq(text, i + 1, Len(text)))

WholeText(tag, msg) == Len(tag) + Len(msg) + 2 <= MaxPayload

\* A message that was sent whole is shown whole, line by line, under its own tag.
MessageIsShown ==
    pc = "done" /\ wrote # <<>> /\ WholeText(wrote[1], wrote[2]) /\ lines # <<>> =>
        /\ entry.tag = wrote[1]
        /\ \/ layout.long /\ lines = <<wrote[2]>>
           \/ ~layout.long /\ lines = IF wrote[2] = <<>> THEN <<<<>>>>
                                      ELSE SplitLines(wrote[2])

\* "The message may have been truncated": whatever was cut off, tag and message are
\* what was written, at most without the last byte that arrived.
CutMessageIsPrefix ==
    pc \in {"format", "lines", "done"} /\ wrote # <<>> /\ Len(wrote[1]) + 1 < MaxPayload =>
        /\ entry.tag = wrote[1]
        /\ IsPrefix(entry.message, wrote[2])
        /\ Len(entry.message) >= Min({Len(wrote[2]), MaxPayload - Len(wrote[1]) - 2})

\* Tag and message of any payload lie within it, apart from each other, and both end
\* in a NUL within the payload or right behind it, where the reader puts one.
EntryIsWithinPayload ==
    pc = "format" =>
        LET start == Len(entry.tag) + 2
            end == start + Len(entry.message)
        IN  /\ SubSeq(bytes, 1, Len(entry.tag)) = entry.tag
            /\ "nul" \notin ToSet(entry.message)
            /\ entry.message # <<>> =>
                  /\ end <= Len(bytes) /\ bytes[end] = "nul" /\ bytes[start - 1] = "nul"
                  /\ SubSeq(bytes, start, end - 1) = entry.message

\* Logcat's help: "'*' by itself means '*:D' and <tag> by itself means <tag>:V. If no
\* '*' filterspec or -s on command line, all filter defaults to '*:V'", the last
\* filterspec for a tag counting, wherever the '*' stands.
FiltersAsDocumented ==
    (\A i \in DOMAIN rules : rules[i].c \in DOMAIN Letters \cup {""}) =>
    \A tag \in Tags \ {"", "*"} : \A pri \in VERBOSE .. SILENT :
        LET Last_(t) == {i \in DOMAIN rules : rules[i].tag = t}
            Said(t, byItself) ==
                LET c == rules[Max(Last_(t))].c IN IF c = "" THEN byItself ELSE Letters[c]
            least == IF Last_(tag) # {} THEN Said(tag, VERBOSE)
                     ELSE IF Last_("*") # {} THEN Said("*", DEBUG) ELSE VERBOSE
        IN  shouldPrintLine(tag, pri) <=> pri >= least
=============================================================================
