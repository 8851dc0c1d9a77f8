------------------------------ MODULE KlogLines ------------------------------
(***************************************************************************)
(* LogKlog::onDataAvailable() and android::log_strntok_r(): what is read     *)
(* from /proc/kmsg is split into lines, also at a second log signature       *)
(* without a newline, and a line that did not fit into the buffer is kept    *)
(* for the next read.                                                       *)
(*                                                                          *)
(* Text is a sequence of characters: "<" ">" "[" "]" "." " ", "d" a digit,    *)
(* "n" a newline, and "x" any other.  What lies behind the text is a nul.     *)
(***************************************************************************)
EXTENDS Integers, Sequences, SequencesExt, FiniteSets, FiniteSetsExt

CONSTANTS BufferSize,     \* sizeof(buffer) - 1
          Records         \* sequences of records the kernel may hold, each a text that ends with "n"

VARIABLES unread,         \* what the kernel has yet to return: records, the first maybe in part
          buffer, got,    \* the text in the buffer, and how much of it the last read returned
          at,             \* where the next token is searched, 0: nowhere
          maxPrioLen,     \* the static of is_prio(), -1 before its first use
          lines,          \* what log() was called with
          input           \* history: all records
vars == <<unread, buffer, got, at, maxPrioLen, lines, input>>

Init == /\ input \in Records /\ unread = input
        /\ buffer = << >> /\ got = 0 /\ at = 0 /\ maxPrioLen = -1 /\ lines = << >>

At(s, i) == IF i \in DOMAIN s THEN s[i] ELSE "nul"
\* The first position from i on that is none of these characters
Past(s, i, chars) == CHOOSE j \in i .. Len(s) + 1 : At(s, j) \notin chars /\ \A k \in i .. j - 1 : At(s, k) \in chars

\* is_prio() with the '<' at i - 1: the position behind the '>', or 0
IsPrio(s, i, max) ==
    LET end == Past(s, i, {"d"})
    IN  IF At(s, i) = "d" /\ end - i <= max /\ At(s, end) = ">" /\ At(s, end + 1) = "[" THEN end + 1 ELSE 0

\* The static is set by the first call that comes to it, from the length at that time.
MaxPrioLen(s, tok) ==
    LET calls == {i \in tok .. Len(s) : At(s, i) = "<" /\ At(s, i + 1) = "d"}
        len == Len(s) - Min(calls) - 1
    IN  IF maxPrioLen # -1 \/ calls = {} THEN maxPrioLen ELSE IF len < 4 THEN len ELSE 4

\* is_timestamp() with the '[' at i - 1: the position behind the ']', or 0
IsTimestamp(s, i) ==
    LET first == Past(s, i, {" "})
        period == Past(s, first, {"d"})
        end == IF At(s, period) = "." THEN Past(s, period + 1, {"d"}) ELSE 0
    IN  IF At(s, first) = "d" /\ end > 0 /\ At(s, end) = "]" /\ At(s, end + 1) = " " THEN end + 1 ELSE 0

\* The position behind the signature at i, or 0; a time goes with the priority before it.
Signature(s, i, max) ==
    LET prio == IF At(s, i) = "<" THEN IsPrio(s, i + 1, max) ELSE 0
    IN  CASE prio > 0 -> IF IsTimestamp(s, prio + 1) > 0 THEN IsTimestamp(s, prio + 1) ELSE prio
          [] At(s, i) = "[" -> IsTimestamp(s, i + 1)
          [] OTHER -> 0

\* log_strntok_r() from tok: where the token stops, at a newline, before another signature or behind the text
Stop(s, tok, max) ==
    LET stops(j) == At(s, j) \in {"n", "nul"} \/ Signature(s, j, max) > 0
        from == IF Signature(s, tok, max) > 0 THEN Signature(s, tok, max) ELSE tok + 1
    IN  CHOOSE j \in from .. Len(s) + 1 : stops(j) /\ \A k \in from .. j - 1 : ~stops(k)

\* A line at the end of a full buffer may go on.
Kept(s, stop) == stop > Len(s) /\ got > 0 /\ Len(s) = BufferSize

Carried_Short(tok, stop) == SubSeq(buffer, tok, stop - 2)
Carried(tok, stop) == SubSeq(buffer, tok, stop - 1)

\* The inner loop of onDataAvailable(), for the token from tok to stop
Found(tok, stop) ==
    \/ Kept(buffer, stop) /\ at' = 0 /\ buffer' = Carried(tok, stop) /\ UNCHANGED lines
    \/ /\ ~Kept(buffer, stop)
       /\ lines' = Append(lines, SubSeq(buffer, tok, stop - 1))
       /\ at' = IF At(buffer, stop) = "n" THEN stop + 1 ELSE stop
       /\ UNCHANGED buffer
Token ==
    /\ at > 0
    /\ \E tok \in {Past(buffer, at, {"n"})} :
         /\ maxPrioLen' = MaxPrioLen(buffer, tok)
         /\ \/ tok > Len(buffer) /\ at' = 0 /\ buffer' = << >> /\ UNCHANGED lines
            \/ tok <= Len(buffer) /\ \E stop \in {Stop(buffer, tok, maxPrioLen')} : Found(tok, stop)
    /\ UNCHANGED <<unread, got, input>>

\* read() of /proc/kmsg: whole records as they fit, or a part of the first; nothing into a full buffer
Reads == LET room == BufferSize - Len(buffer)
             total(k) == Len(FlattenSeq(SubSeq(unread, 1, k)))
         IN  IF room = 0 THEN {[text |-> << >>, rest |-> unread]}
             ELSE {[text |-> FlattenSeq(SubSeq(unread, 1, k)), rest |-> SubSeq(unread, k + 1, Len(unread))] :
                      k \in {j \in DOMAIN unread : total(j) <= room}}
                  \cup {[text |-> SubSeq(unread[1], 1, room),
                         rest |-> <<SubSeq(unread[1], room + 1, Len(unread[1]))>> \o Tail(unread)] :
                          j \in {i \in {1} \cap DOMAIN unread : total(1) > room}}

\* The outer loop of onDataAvailable()
Read ==
    /\ at = 0 /\ (unread # << >> \/ buffer # << >>)
    /\ \E r \in Reads : unread' = r.rest /\ buffer' = buffer \o r.text /\ got' = Len(r.text)
    /\ at' = 1
    /\ UNCHANGED <<maxPrioLen, lines, input>>

Next == Read \/ Token
Spec == Init /\ [][Next]_vars

-----------------------------------------------------------------------------
(* Whatever is split, kept and read again, no character of the kernel log is *)
(* lost, repeated or moved.                                                  *)
Plain(s) == SelectSeq(s, LAMBDA c : c # "n")
NoTextLost == at = 0 => FlattenSeq(lines) \o buffer \o Plain(FlattenSeq(unread)) = Plain(FlattenSeq(input))

(* The comment's regular expression, as a definition of its own: a signature *)
(* is <d...>[ with one to four digits, or a time in brackets, unless it      *)
(* stands behind a priority.                                                 *)
IsRun(s, i, j) == i <= j /\ \A k \in i .. j : At(s, k) = "d"
Prio(s, i, j) == At(s, i) = "<" /\ At(s, j) = ">" /\ j - i \in 2 .. 5 /\ IsRun(s, i + 1, j - 1) /\ At(s, j + 1) = "["
Time(s, i, j) == /\ At(s, i) = "[" /\ At(s, j) = "]" /\ At(s, j + 1) = " "
                 /\ \E a, p \in i + 1 .. j : /\ \A k \in i + 1 .. a - 1 : At(s, k) = " "
                                             /\ IsRun(s, a, p - 1) /\ At(s, p) = "."
                                             /\ \A k \in p + 1 .. j - 1 : At(s, k) = "d"
Cuts(s) == {i \in 2 .. Len(s) :
               \/ \E j \in i .. Len(s) : Prio(s, i, j)
               \/ /\ \E j \in i .. Len(s) : Time(s, i, j)
                  /\ ~ \E h \in 1 .. i - 2 : Prio(s, h, i - 1)}
Split(record) ==
    LET s == Front(record)
        starts == Cuts(s) \cup {1}
        next(i) == Min({j \in starts : j > i} \cup {Len(s) + 1})
        order == SetToSortSeq(starts, LAMBDA a, b : a < b)
    IN  [k \in DOMAIN order |-> SubSeq(s, order[k], next(order[k]) - 1)]

(* Lines that fit into the buffer with the signature behind them are split   *)
(* where the signatures are, and nowhere else, however the reads fall.       *)
SignatureSize == 10
SplitAtSignatures ==
    (unread = << >> /\ buffer = << >>) =>
        \E all \in {FlattenSeq([i \in DOMAIN input |-> Split(input[i])])} :
            (\A i \in DOMAIN all : Len(all[i]) + SignatureSize <= BufferSize) => lines = all

=============================================================================
