------------------------------ MODULE PruneList ------------------------------
(***************************************************************************)
(* logd/PruneList.{h,cpp}: the rules that say what ChattyLogBuffer prunes    *)
(* first and last.                                                          *)
(*                                                                          *)
(* A filter is a sequence of words.  A word is the record [not, uid, pid,    *)
(* after]: it begins with ~ or !, has a uid or NONE and a pid, NONE or WORST *)
(* ("!"), and then comes "" or some text that does not belong there.         *)
(***************************************************************************)
EXTENDS Integers, Sequences, SequencesExt

ALL == -1                     \* UID_ALL, PID_ALL: no number
WORST == -2                   \* "!" in place of a number
SYSTEM == 1000
Word(not, uid, pid, after) == [not |-> not, uid |-> uid, pid |-> pid, after |-> after]

WorstUid == Word(TRUE, WORST, ALL, "")             \* ~!
WorstPidOfSystem == Word(TRUE, SYSTEM, WORST, "")  \* ~1000/!
InternalDefault == <<WorstUid, WorstPidOfSystem>>

NoRules == [high |-> << >>, low |-> << >>, worst_uid |-> FALSE, worst_pid |-> FALSE, ok |-> TRUE]

\* One word of the filter; after a word that is wrong nothing more is read.
InitWord(list, w) ==
    IF ~list.ok THEN list
    ELSE IF w.not /\ w.uid = WORST
    THEN [list EXCEPT !.worst_uid = TRUE, !.ok = w.after = ""]
    ELSE IF w.not /\ w.uid = SYSTEM /\ w.pid = WORST
    THEN [list EXCEPT !.worst_pid = TRUE, !.ok = w.after = ""]
    ELSE IF (w.uid < 0 /\ w.pid < 0) \/ w.after # "" \/ WORST \in {w.uid, w.pid}
    THEN [list EXCEPT !.ok = FALSE]
    ELSE LET rule == [uid |-> w.uid, pid |-> w.pid]
         IN  IF w.not THEN [list EXCEPT !.high = Append(@, rule)]
             ELSE [list EXCEPT !.low = Append(@, rule)]

\* A filter that is a name: what properties ro and persist say, or nothing
Resolve(filter, ro, persist) ==
    LET named == IF filter # "default" THEN filter ELSE IF persist # "default" THEN persist ELSE ro
    IN  IF named = "default" THEN InternalDefault ELSE IF named = "disable" THEN << >> ELSE named

InitList(words) == FoldLeft(InitWord, NoRules, words)

FormatRule(not, rule) == Word(not, rule.uid, rule.pid, "")
FormatHigh(rule) == FormatRule(TRUE, rule)

Format(list) ==
    (IF list.worst_uid THEN <<WorstUid>> ELSE << >>)
    \o (IF list.worst_pid THEN <<WorstPidOfSystem>> ELSE << >>)
    \o [i \in DOMAIN list.low |-> FormatRule(FALSE, list.low[i])]
    \o [i \in DOMAIN list.high |-> FormatHigh(list.high[i])]

Matches(rule, e) == rule.uid \in {ALL, e.uid} /\ rule.pid \in {ALL, e.pid}
IsHighPriority(list, e) == \E i \in DOMAIN list.high : Matches(list.high[i], e)
IsLowPriority(list, e) == \E i \in DOMAIN list.low : Matches(list.low[i], e)
=============================================================================
