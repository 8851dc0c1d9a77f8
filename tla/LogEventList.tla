----------------------------- MODULE LogEventList -----------------------------
(***************************************************************************)
(* liblog/log_event_list.cpp: binary events are written as nested lists of    *)
(* elements and parsed again.                                                *)
(*                                                                          *)
(* storage maps the offset of an element to [type, n]: n is the length of a   *)
(* string or the count of a list.  What was never written is zero, which is  *)
(* an INT.  A call of a writer is an action; the message is then parsed, up  *)
(* to the element that is complete or UNKNOWN.                               *)
(***************************************************************************)
EXTENDS Integers, Sequences, SequencesExt, FiniteSets

CONSTANTS MAX_EVENT_PAYLOAD, ANDROID_MAX_LIST_NEST_DEPTH,
          CountModulus,       \* element_count is an int8_t: 256
          Lengths,            \* of strings that may be written
          MaxCalls,           \* bound: calls of a writer
          Items, MaxItems     \* what a message from elsewhere may be made of

VARIABLES ctx,                \* the writer
          parser,             \* the parser: the reader's context, done, and what it returned
          made, calls         \* history: what was written; bound
vars == <<ctx, parser, made, calls>>

SizeOf(type) == CASE type \in {"INT", "FLOAT", "STRING"} -> 5 [] type = "LONG" -> 9
                  [] type = "LIST" -> 2 [] OTHER -> 1
Depths == 0 .. ANDROID_MAX_LIST_NEST_DEPTH
Stored(s, pos, type, n) == [o \in DOMAIN s \cup {pos} |-> IF o = pos THEN [type |-> type, n |-> n] ELSE s[o]]
Elem(type, n, complete) == [type |-> type, n |-> n, complete |-> complete]
NoParser == [on |-> FALSE]

\* init_context(), also after android_log_reset(): "Everything is a list"
NewContext == [pos |-> SizeOf("LIST"), count |-> [d \in Depths |-> 0],
               list |-> [d \in Depths |-> IF d = 0 THEN 1 ELSE 0], depth |-> 0, overflow |-> FALSE,
               storage |-> Stored(<< >>, 0, "LIST", 0)]

Init == ctx = NewContext /\ parser = NoParser /\ made = << >> /\ calls = 0

-----------------------------------------------------------------------------
(***************************************************************************)
(* The writer.                                                              *)
(***************************************************************************)
Calling == ~parser.on /\ calls < MaxCalls /\ calls' = calls + 1 /\ UNCHANGED parser

Overflows == ctx' = [ctx EXCEPT !.overflow = TRUE] /\ UNCHANGED made
Fits(needed) == ctx.pos + needed <= MAX_EVENT_PAYLOAD

TooDeep(depth) == depth > ANDROID_MAX_LIST_NEST_DEPTH

ListBegin ==
    /\ Calling
    /\ \/ TooDeep(ctx.depth) /\ Overflows
       \/ ~TooDeep(ctx.depth) /\ ~Fits(SizeOf("LIST")) /\ Overflows
       \/ /\ ~TooDeep(ctx.depth) /\ Fits(SizeOf("LIST"))
          /\ LET in == [ctx EXCEPT !.count[ctx.depth] = @ + 1, !.depth = @ + 1]
             IN  \/ /\ TooDeep(in.depth)
                    /\ ctx' = [in EXCEPT !.overflow = TRUE] /\ UNCHANGED made
                 \/ /\ ~TooDeep(in.depth) /\ ctx.overflow
                    /\ ctx' = in /\ UNCHANGED made
                 \/ /\ ~TooDeep(in.depth) /\ ~ctx.overflow
                    /\ ctx' = [in EXCEPT !.storage = Stored(@, in.pos, "LIST", 0),
                                         !.list[in.depth] = in.pos + 1, !.count[in.depth] = 0,
                                         !.pos = @ + SizeOf("LIST")]
                    /\ made' = Append(made, Elem("LIST", 0, FALSE))

\* An element of n bytes more, of which kept are stored
Written(type, kept, n) ==
    /\ ctx' = [ctx EXCEPT !.count[ctx.depth] = @ + 1, !.storage = Stored(@, ctx.pos, type, kept),
                          !.pos = @ + SizeOf(type) + n]
    /\ made' = Append(made, Elem(type, kept, FALSE))

\* After an overflow nothing is written any more.
Refused == ctx.overflow

\* android_log_write_int32(), _int64() and _float32()
WriteNumber(type) ==
    /\ Calling
    /\ \/ Refused /\ UNCHANGED <<ctx, made>>
       \/ ~Refused /\ ~Fits(SizeOf(type)) /\ Overflows
       \/ ~Refused /\ Fits(SizeOf(type)) /\ Written(type, 0, 0)

\* A string that does not fit is cut off; the position moves by its whole length.
WriteString(len) ==
    LET room == MAX_EVENT_PAYLOAD - ctx.pos - SizeOf("STRING")
    IN
    /\ Calling
    /\ \/ Refused /\ UNCHANGED <<ctx, made>>
       \/ ~Refused /\ len > room /\ room <= 0 /\ Overflows
       \/ ~Refused /\ len > room /\ room > 0 /\ Written("STRING", room, len)
       \/ ~Refused /\ len <= room /\ Written("STRING", len, len)

\* The count goes to where the list began.
Counted_Outer(d) == ctx.count[d - 1]
Counted(d) == ctx.count[d] % CountModulus
ListEnd ==
    /\ Calling
    /\ \/ /\ TooDeep(ctx.depth)
          /\ ctx' = [ctx EXCEPT !.overflow = TRUE, !.depth = @ - 1] /\ UNCHANGED made
       \/ ctx.depth = 0 /\ Overflows
       \/ /\ ctx.depth \in Depths \ {0} /\ ctx.list[ctx.depth] = 0
          /\ ctx' = [ctx EXCEPT !.overflow = TRUE, !.depth = @ - 1] /\ UNCHANGED made
       \/ /\ ctx.depth \in Depths \ {0} /\ ctx.list[ctx.depth] > 0
          /\ ctx' = [ctx EXCEPT !.storage[ctx.list[ctx.depth] - 1].n = Counted(ctx.depth), !.depth = @ - 1]
          /\ made' = Append(made, Elem("LIST_STOP", 0, FALSE))

Reset == Calling /\ ctx' = NewContext /\ made' = << >>

\* android_log_write_list_buffer(), or android_log_write_list(): without the list around one element
Solitary == ctx.count[0] <= 1
Message ==
    LET all == [ctx.storage EXCEPT ![0].n = ctx.count[0] % CountModulus]
        skip == IF Solitary THEN SizeOf("LIST") ELSE 0
    IN  [len |-> ctx.pos - skip, storage |-> [o \in {x - skip : x \in {y \in DOMAIN all : y >= skip}} |-> all[o + skip]]]

\* create_android_log_parser(): a copy of len bytes
NewParser(msg) ==
    LET len == IF msg.len > MAX_EVENT_PAYLOAD THEN MAX_EVENT_PAYLOAD ELSE msg.len
    IN  [on |-> TRUE, pos |-> 0, count |-> [d \in Depths |-> 0], depth |-> 0, stop |-> FALSE, done |-> FALSE,
         len |-> len, storage |-> Restrict(msg.storage, {o \in DOMAIN msg.storage : o < len}), got |-> << >>]

WriteList ==
    /\ ~parser.on /\ ctx.depth = 0
    /\ parser' = NewParser(Message)
    /\ UNCHANGED <<ctx, made, calls>>

-----------------------------------------------------------------------------
(***************************************************************************)
(* android_log_read_next()                                                  *)
(***************************************************************************)
At(x, pos) == IF pos \in DOMAIN x.storage THEN x.storage[pos] ELSE [type |-> "INT", n |-> 0]

Returns(x, elem) ==
    parser' = [x EXCEPT !.got = Append(@, elem), !.done = elem.complete \/ elem.type = "UNKNOWN"]

ReadNothing ==
    /\ parser.depth > ANDROID_MAX_LIST_NEST_DEPTH \/ parser.count[parser.depth] >= MAX_EVENT_PAYLOAD \div 2
    /\ LET stop == parser.stop \/ (parser.depth \in Depths /\ parser.count[parser.depth] = 0)
       IN  Returns(parser, Elem(IF stop THEN "LIST_STOP" ELSE "UNKNOWN", 0, TRUE))

Parsing == /\ parser.depth <= ANDROID_MAX_LIST_NEST_DEPTH
           /\ parser.count[parser.depth] < MAX_EVENT_PAYLOAD \div 2

\* list_stop: the end of the list, and of the one around it if that has no more
Outward(x) == IF x.depth = 0 THEN [x EXCEPT !.stop = FALSE]
              ELSE [x EXCEPT !.depth = @ - 1, !.stop = x.count[x.depth - 1] = 0]
ReadStop ==
    LET x == parser
        superfluous == At(x, x.pos).type = "STOP"
        complete == x.count[0] = 0 /\ (x.depth = 0 \/ (x.depth = 1 /\ x.count[1] = 0))
    IN
    /\ Parsing /\ x.stop
    /\ Returns([Outward(x) EXCEPT !.pos = IF superfluous THEN @ + 1 ELSE @], Elem("LIST_STOP", 0, complete))

\* What follows an INT, LONG, FLOAT or STRING
Taken(x, pos) ==
    [x EXCEPT !.pos = pos, !.stop = @ \/ x.count[x.depth] <= 1,
              !.count[x.depth] = IF @ = 0 THEN 0 ELSE @ - 1]

\* element_count is signed and count[] is not: half of the counts read as numbers beyond any limit
Promised(n) == IF n < CountModulus \div 2 THEN n ELSE MAX_EVENT_PAYLOAD

\* A string that is longer than the message
Cut(x, pos, n) == IF pos + n > x.len THEN x.len - pos ELSE n

ReadElement ==
    LET x == parser
        item == At(x, x.pos)
        behind == x.pos + SizeOf(item.type)
        complete == x.depth = 0 /\ x.count[0] = 0
        unknown(done) == Returns(x, Elem("UNKNOWN", 0, done))
        cut == Cut(x, behind, item.n)
    IN
    /\ Parsing /\ ~x.stop
    /\ \/ x.pos + 1 > x.len /\ unknown(TRUE)
       \/ /\ x.pos + 1 <= x.len /\ behind > x.len
          /\ unknown(item.type \in {"STRING", "LIST"})
       \/ /\ behind <= x.len /\ item.type \in {"INT", "FLOAT", "LONG"}
          /\ Returns(Taken(x, behind), Elem(item.type, 0, complete))
       \/ /\ behind <= x.len /\ item.type = "STRING" /\ cut = 0 /\ item.n > 0 /\ unknown(TRUE)
       \/ /\ behind <= x.len /\ item.type = "STRING" /\ (cut > 0 \/ item.n = 0)
          /\ Returns(Taken(x, behind + cut), Elem("STRING", cut, complete))
       \/ /\ behind <= x.len /\ item.type = "LIST"
          /\ Returns([x EXCEPT !.depth = @ + 1, !.pos = behind, !.stop = item.n = 0,
                               !.count = [d \in Depths |-> IF d = x.depth THEN (IF @[d] = 0 THEN 0 ELSE @[d] - 1)
                                                           ELSE IF d = x.depth + 1 THEN Promised(item.n) ELSE @[d]]],
                     Elem("LIST", 0, x.depth >= ANDROID_MAX_LIST_NEST_DEPTH))
       \/ /\ behind <= x.len /\ item.type = "STOP"
          /\ IF x.depth = 0 THEN Returns([x EXCEPT !.pos = behind], Elem("UNKNOWN", 0, TRUE))
             ELSE Returns([x EXCEPT !.pos = behind, !.depth = @ - 1], Elem("LIST_STOP", 0, FALSE))
       \/ behind <= x.len /\ item.type = "OTHER" /\ unknown(FALSE)

ReadNext == /\ parser.on /\ ~parser.done
            /\ ReadNothing \/ ReadStop \/ ReadElement
            /\ UNCHANGED <<ctx, made, calls>>

Next == \/ ListBegin \/ ListEnd \/ Reset \/ WriteList \/ ReadNext
        \/ \E type \in {"INT", "LONG", "FLOAT"} : WriteNumber(type)
        \/ \E len \in Lengths : WriteString(len)
Spec == Init /\ [][Next]_vars

\* A message from elsewhere: any elements, with any counts, cut off anywhere
Laid(items) == LET size(i) == SizeOf(items[i].type) + (IF items[i].type = "STRING" THEN items[i].n ELSE 0)
                   offset[i \in 1 .. Len(items) + 1] == IF i = 1 THEN 0 ELSE offset[i - 1] + size(i - 1)
               IN  [total |-> offset[Len(items) + 1],
                    storage |-> [o \in {offset[i] : i \in DOMAIN items} |->
                                    items[CHOOSE i \in DOMAIN items : offset[i] = o]]]
ForeignInit ==
    /\ ctx = NewContext /\ made = << >> /\ calls = MaxCalls
    /\ \E items \in UNION {[1 .. n -> Items] : n \in 0 .. MaxItems} :
          \E len \in 0 .. Laid(items).total :
             parser = NewParser([len |-> len, storage |-> Laid(items).storage])
ForeignSpec == ForeignInit /\ [][ReadNext]_vars

-----------------------------------------------------------------------------
(* The nesting depth is an index of count[] and list[] whenever it is used   *)
(* as one, and the position of the parser stays in the message.              *)
ParserIsInBounds ==
    parser.on => /\ parser.depth \in 0 .. ANDROID_MAX_LIST_NEST_DEPTH + 1
                 /\ parser.pos <= parser.len

(* "If the first level braces are missing when specifying multiple elements, *)
(* we will manufacturer a list to embrace it. For a single element, it will  *)
(* remain solitary": the parser returns what was written, lists and their    *)
(* ends included, and says of the last element that it is complete.          *)
Types(s) == [i \in DOMAIN s |-> <<s[i].type, s[i].n>>]
Embraced == IF ctx.count[0] = 1 THEN Types(made) ELSE <<<<"LIST", 0>>>> \o Types(made) \o <<<<"LIST_STOP", 0>>>>
Intact == Types(parser.got) = Embraced /\ Last(parser.got).complete
Whole == parser.on /\ parser.done /\ ~ctx.overflow /\ ctx.count[0] > 0
Open(s, i) == Cardinality({j \in 1 .. i : s[j][1] = "LIST"}) - Cardinality({j \in 1 .. i : s[j][1] = "LIST_STOP"})
RoundTrip == (Whole /\ \A i \in DOMAIN Embraced : Open(Embraced, i) <= ANDROID_MAX_LIST_NEST_DEPTH) => Intact

(* "if there was overflow, then log is truncated": an event in which a call  *)
(* failed is what was written before it, up to some element, with the lists  *)
(* closed where they were closed.                                            *)
Truncated ==
    (parser.on /\ ctx.overflow /\ ctx.count[0] > 1) =>
        \A i \in DOMAIN parser.got :
           parser.got[i].type \notin {"UNKNOWN", "LIST_STOP"} =>
              IsPrefix(SubSeq(Types(parser.got), 1, i), <<<<"LIST", 0>>>> \o Types(made))

(* Whatever a message says of itself, the parser comes to its end: an        *)
(* element takes a byte of the message at least, and the end of a list comes *)
(* once.                                                                     *)
ReadingEnds == parser.on => Len(parser.got) <= 2 * parser.len + 1
=============================================================================
