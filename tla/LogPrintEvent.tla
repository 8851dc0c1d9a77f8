--------------------------- MODULE LogPrintEvent ---------------------------
(***************************************************************************)
(* liblog/logprint.cpp: a binary event becomes a line of text.              *)
(* android_log_printBinaryEvent() is recursive over lists; here its frames   *)
(* are the stack, and one step prints one element.  Text is its width.       *)
(*                                                                         *)
(* An event is the sequence of its tokens in the order of its bytes:         *)
(*   number  type "int", "long" or "float", and value, the widths of what    *)
(*           snprintf() makes of it (see Values)                            *)
(*   string  len                                                            *)
(*   list    count                                                          *)
(*   unknown a type byte that is none of these                              *)
(* A format of the tag map is a sequence of                                  *)
(*   [name |-> width of the name, type |-> a type or "any", unit |-> a unit] *)
(***************************************************************************)
EXTENDS Integers, FiniteSetsExt, SequencesExt

CONSTANTS
    Events,         \* events, their lists as long as they say
    Formats,        \* formats; <<>> when the tag has none or it is not asked for
    BufferSizes,    \* messageBufLen: a generated tag, a character and two NULs fit in
    TagWidths       \* the width of a generated "[tag]"; 0 if the map has the tag

VARIABLES
    event,          \* the event in the entry
    given,          \* buf->len without the header: less than its bytes if it was cut
    format,         \* what android_lookupEventFormat_len() returned
    room,           \* messageBufLen - 1 after the tag
    pc,             \* "idle", "element", "painted", "done"
    next,           \* eventData: the next token
    inCount,        \* bytes left
    out,            \* characters from messageBuf to outBuf
    outRemaining,
    fmt,            \* *fmtStr, *fmtLen: the rest of the format
    dressed,        \* fmtStr # NULL
    stack,          \* lists being printed: elements left, format after the list's own
    result,         \* 0, 1 buffer full, -1 failure
    mark,           \* the indicator at the end of the line
    shown           \* history: tokens printed in this paint

vars == <<event, given, format, room, pc, next, inCount, out, outRemaining, fmt, dressed,
          stack, result, mark, shown>>

inputs == <<event, given, format, room>>

-----------------------------------------------------------------------------
(***************************************************************************)
(* Sizes                                                                    *)
(***************************************************************************)

Numbers == {"int", "long", "float"}

\* The packed structs android_event_int_t, _long_t, _float_t, _string_t, _list_t
HeaderSize(type) ==
    CASE type \in {"int", "float", "string"} -> 5
      [] type = "long" -> 9
      [] type = "list" -> 2
      [] type = "unknown" -> 1

TokenBytes(t) == HeaderSize(t.type) + IF t.type = "string" THEN t.len ELSE 0

EventBytes(e) == MapThenSumSet(LAMBDA i : TokenBytes(e[i]), DOMAIN e)

\* What lval == 0 prints as: for a string or a list only a unit is printed.
Zero == [width |-> 0, kilo |-> 0, secs |-> 0, clock |-> <<2>>]

Value(t) == IF t.type \in {"int", "long"} THEN t.value
            ELSE IF t.type = "float" THEN [Zero EXCEPT !.width = t.value.width] ELSE Zero

-----------------------------------------------------------------------------
(***************************************************************************)
(* Writing.  A paint p is [out, room, ok]; ok is FALSE after no_room.       *)
(***************************************************************************)

Paint(o, r) == [out |-> o, room |-> r, ok |-> TRUE]

\* An snprintf() that counts only if the text and its NUL fit
Text(p, width) ==
    IF ~p.ok THEN p
    ELSE IF width < p.room THEN [p EXCEPT !.out = @ + width, !.room = @ - width]
    ELSE [p EXCEPT !.ok = FALSE]

\* if (outBufLen <= 0) goto no_room; *outBuf++ = c;
Character(p) ==
    IF p.ok /\ p.room > 0 THEN [p EXCEPT !.out = @ + 1, !.room = @ - 1]
    ELSE [p EXCEPT !.ok = FALSE]

\* The name of a value and '=': copied while there is room, and one more is needed.
Name(p, width) ==
    IF p.room <= width THEN [out |-> p.out + p.room, room |-> 0, ok |-> FALSE]
    ELSE IF width = 0 THEN p
    ELSE [p EXCEPT !.out = @ + width + 1, !.room = @ - width - 1]

\* Back over a number, to write it in another way
GiveBack(p, width) == [p EXCEPT !.out = @ - width, !.room = @ + width]

\* The unit after a value v of which written characters were printed.  Objects,
\* allocations, ids and unknown units print nothing, which also fits in no room.
Unit(p, unit, v, written) ==
    CASE ~p.ok \/ unit \in {"none", "objects"} -> p
      [] unit = "percent" -> Text(p, 1)
      [] unit = "bytes" -> IF v.kilo = 0 THEN Text(p, 1)
                           ELSE Text(GiveBack(p, written), v.kilo)
         \* The digits move within the number and the one character behind it.
      [] unit = "milliseconds" ->
            IF v.secs = 0 THEN Text(p, 2)
            ELSE LET q == GiveBack(p, written) IN
                 Text([q EXCEPT !.out = @ + v.secs, !.room = @ - v.secs], 1)
      [] unit = "monotonic" -> FoldLeft(Text, GiveBack(p, written), v.clock)

-----------------------------------------------------------------------------
(***************************************************************************)
(* android_log_processBinaryLogBuffer(), up to the first paint              *)
(***************************************************************************)

Init ==
    /\ event = <<>> /\ given = 0 /\ format = <<>> /\ room = 0
    /\ pc = "idle" /\ next = 1 /\ inCount = 0 /\ out = 0 /\ outRemaining = 0
    /\ fmt = <<>> /\ dressed = FALSE /\ stack = <<>> /\ result = 0
    /\ mark = "none" /\ shown = 0

ProcessBinaryLogBuffer(e, n, f, size, tag) ==
    /\ pc = "idle"
    /\ event' = e /\ given' = n /\ format' = f
       \* A generated tag and its NUL are taken from the buffer.
    /\ room' = (IF tag = 0 THEN size ELSE size - (tag + 1)) - 1
    /\ pc' = IF n > 0 \/ f # <<>> THEN "element" ELSE "painted"
    /\ next' = 1 /\ inCount' = n /\ out' = 0 /\ outRemaining' = room'
    /\ fmt' = f /\ dressed' = (f # <<>>) /\ stack' = <<>> /\ result' = 0
    /\ mark' = "none" /\ shown' = 0

-----------------------------------------------------------------------------
(***************************************************************************)
(* android_log_printBinaryEvent()                                           *)
(***************************************************************************)

\* The format's first description is of this type, or names none.
Matches(t) == fmt # <<>> /\ Head(fmt).type \in {"any", t.type}

\* The name is printed before its type is compared, and taken back if it differs.
Described(t) ==
    LET p == Paint(out, outRemaining)
        named == IF fmt = <<>> THEN p ELSE Name(p, Head(fmt).name)
    IN  IF ~named.ok \/ Matches(t) THEN named ELSE p

OwnUnit(t) == IF Matches(t) THEN Head(fmt).unit ELSE "none"

\* After a mismatch len is 0: no later element has a description.
RestOfFormat(t) == IF Matches(t) THEN Tail(fmt) ELSE <<>>

\* The call returns -1 before it stored anything in its caller's variables.
Fail ==
    /\ pc' = "painted" /\ result' = -1
    /\ UNCHANGED <<inputs, next, inCount, out, outRemaining, fmt, dressed, stack, mark, shown>>

\* bail: with a result, which every enclosing call returns at once
Bail(p, res, consumed) ==
    /\ pc' = "painted" /\ result' = res
    /\ out' = p.out /\ outRemaining' = p.room /\ inCount' = inCount - consumed
    /\ UNCHANGED <<inputs, next, fmt, dressed, stack, mark, shown>>

\* An element is printed: the list it is in goes on, with a comma before the next.
ElementDone(p, consumed, tokens, rest, frames) ==
    LET more == frames # <<>> /\ Last(frames).left > 1
        q == IF more THEN Character(p) ELSE p
    IN  IF ~q.ok THEN Bail(q, 1, consumed)
        ELSE /\ out' = q.out /\ outRemaining' = q.room /\ inCount' = inCount - consumed
             /\ next' = next + tokens /\ shown' = shown + tokens /\ fmt' = rest
             /\ stack' = IF frames = <<>> THEN <<>>
                         ELSE [frames EXCEPT ![Len(frames)].left = @ - 1]
             /\ pc' = IF frames = <<>> THEN "painted" ELSE "element"
             /\ UNCHANGED <<inputs, dressed, result, mark>>

AtElement ==
    /\ pc = "element"
    /\ stack # <<>> => Last(stack).left > 0

\* if (eventDataLen < 1) return -1, and no room for the name
NothingToRead ==
    /\ AtElement
    /\ inCount < 1
    /\ Fail

NoRoomForName ==
    /\ AtElement
    /\ inCount >= 1
    /\ ~Described(event[next]).ok
    /\ Bail(Described(event[next]), 1, 0)

Readable(types) ==
    /\ AtElement
    /\ inCount >= 1
    /\ event[next].type \in types
    /\ Described(event[next]).ok

HeaderCut ==
    /\ Readable(Numbers \cup {"string", "list"})
    /\ inCount < HeaderSize(event[next].type)
    /\ Fail

UnknownType ==
    /\ Readable({"unknown"})
    /\ Fail

PrintNumber ==
    LET t == event[next]
        p == Text(Described(t), Value(t).width)
        q == Unit(p, OwnUnit(t), Value(t), Value(t).width)
    IN  /\ Readable(Numbers)
        /\ inCount >= HeaderSize(t.type)
        /\ IF q.ok THEN ElementDone(q, HeaderSize(t.type), 1, RestOfFormat(t), stack)
           ELSE Bail(q, 1, HeaderSize(t.type))

\* A string that is longer than the data is printed as far as it is there, one that
\* is longer than the buffer as far as that goes; both end the line.
PrintString ==
    LET t == event[next]
        strLen == Min({t.len, inCount - 5})
        \* reset the format if no content
        start == IF strLen = 0 THEN Paint(out, outRemaining) ELSE Described(t)
        p == Text(start, strLen)
        copied == IF p.ok THEN p ELSE [p EXCEPT !.out = @ + p.room, !.room = 0]
        q == Unit(p, OwnUnit(t), Zero, 0)
    IN  /\ Readable({"string"})
        /\ inCount >= 5
        /\ CASE inCount - 5 < t.len -> Bail(copied, -1, 5 + strLen)
             [] inCount - 5 >= t.len /\ ~p.ok -> Bail(copied, 1, 5 + strLen)
             [] inCount - 5 >= t.len /\ p.ok /\ ~q.ok -> Bail(q, 1, 5 + strLen)
             [] OTHER -> ElementDone(q, 5 + strLen, 1, RestOfFormat(t), stack)

\* The elements are described by the same format as the list was, the elements
\* behind the list by what follows the list's own description.
OpenList ==
    LET t == event[next]
        p == Character(Described(t))
    IN  /\ Readable({"list"})
        /\ inCount >= 2
        /\ IF ~p.ok THEN Bail(p, 1, 2)
           ELSE /\ out' = p.out /\ outRemaining' = p.room /\ inCount' = inCount - 2
                /\ stack' = Append(stack, [left |-> t.count, unit |-> OwnUnit(t),
                                           rest |-> RestOfFormat(t)])
                /\ next' = next + 1 /\ shown' = shown + 1
                /\ UNCHANGED <<inputs, pc, fmt, dressed, result, mark>>

CloseList ==
    /\ pc = "element"
    /\ stack # <<>> /\ Last(stack).left = 0
    /\ LET p == Unit(Character(Paint(out, outRemaining)), Last(stack).unit, Zero, 0)
       IN  IF p.ok THEN ElementDone(p, 0, 0, Last(stack).rest, Front(stack))
           ELSE Bail(p, 1, 0)

-----------------------------------------------------------------------------
(***************************************************************************)
(* android_log_processBinaryLogBuffer(), after a paint                      *)
(***************************************************************************)

\* "let's repaint the line w/o format dressings": eventData goes back to the start,
\* inCount stays where the first paint left it.
Repaint ==
    /\ pc = "painted"
    /\ result = 1 /\ dressed
    /\ pc' = "element" /\ next' = 1 /\ out' = 0 /\ outRemaining' = room
    /\ fmt' = <<>> /\ dressed' = FALSE /\ stack' = <<>> /\ result' = 0 /\ shown' = 0
    /\ UNCHANGED <<inputs, inCount, mark>>

Finish ==
    /\ pc = "painted"
    /\ ~(result = 1 /\ dressed)
    /\ pc' = "done"
    /\ IF result = 0 THEN UNCHANGED <<out, outRemaining, mark>>
       ELSE /\ mark' = IF result < 0 THEN "!" ELSE "^"
            /\ IF outRemaining = 0
               THEN UNCHANGED <<out, outRemaining>>   \* one back, one on
               ELSE out' = out + 1 /\ outRemaining' = outRemaining - 1
    /\ UNCHANGED <<inputs, next, inCount, fmt, dressed, stack, result, shown>>

Next ==
    \/ \E e \in Events, f \in Formats, size \in BufferSizes, tag \in TagWidths :
           \E n \in 0 .. EventBytes(e) : ProcessBinaryLogBuffer(e, n, f, size, tag)
    \/ NothingToRead \/ NoRoomForName \/ HeaderCut \/ UnknownType
    \/ PrintNumber \/ PrintString \/ OpenList \/ CloseList
    \/ Repaint \/ Finish

Spec == Init /\ [][Next]_vars

-----------------------------------------------------------------------------

\* The line never grows past the buffer, and its length is what the final
\* assert(entry->messageLen == (messageBufLen - 1) - outRemaining) says, through
\* all names, numbers written anew and the indicator at the end.
OutputFits ==
    /\ out \in 0 .. room
    /\ pc # "idle" => outRemaining = room - out

\* A line without an indicator shows every element of the event, none of them cut.
UnmarkedLineIsWhole ==
    pc = "done" /\ mark = "none" /\ given > 0 =>
        shown = Len(event) /\ given = EventBytes(event)

\* The text of the event without a format
BareText(e) ==
    MapThenSumSet(LAMBDA i :
        CASE e[i].type \in Numbers -> e[i].value.width
          [] e[i].type = "string" -> e[i].len
          [] e[i].type = "unknown" -> 0
          [] e[i].type = "list" -> 2 + Max({e[i].count - 1, 0}), DOMAIN e)

\* The indicator for a full buffer means that the event does not fit even
\* without its format.
CutOnlyIfNeeded ==
    pc = "done" /\ mark = "^" => BareText(event) >= room

Repainted == format # <<>> /\ ~dressed

\* The indicator for a failed conversion means that data is missing from the event or is
\* of no known type, or that the line was painted again: the bytes that the first paint
\* had taken are then missing from inCount.
FailsOnlyIfDamaged ==
    pc = "done" /\ mark = "!" =>
        \/ given < EventBytes(event)
        \/ \E i \in DOMAIN event : event[i].type = "unknown"
        \/ Repainted
=============================================================================
