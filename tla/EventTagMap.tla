----------------------------- MODULE EventTagMap -----------------------------
(***************************************************************************)
(* liblog/event_tag_map.cpp: android_openEventTagMap() reads the tags of the  *)
(* build, file 0, and those logd was given at run time, file 1.              *)
(*                                                                         *)
(* A file is [lines, eol]: eol says whether its last line ends in a newline.  *)
(* A line is [kind |-> "tag", idx, name, fmt], or [kind |-> k] with k one of *)
(*   "blank"   empty or a comment        "junk"   does not start with a digit *)
(*   "bad"     a number without a valid tag, or too large a number            *)
(* Tag2Idx, which no function of the library reads, is left out.             *)
(***************************************************************************)
EXTENDS Integers, SequencesExt

CONSTANT Files          \* what a file may hold

NUM_MAPS == 2

Which == 0 .. NUM_MAPS - 1

VARIABLES
    file,           \* what is on disk: [Which -> Files]
    missing,        \* the files that cannot be opened
    named,          \* fileName was given: file 0 is that one
    pc,             \* "idle", "open", "map", "parse", "fail_close", "done"
    which, line,    \* the loops
    fd,             \* the descriptors that are open
    mapLen,         \* the files that are mapped
    Idx2TagFmt,
    result          \* "none", "map" or "null"

vars == <<file, missing, named, pc, which, line, fd, mapLen, Idx2TagFmt, result>>

disk == <<file, missing, named>>

-----------------------------------------------------------------------------

\* A call, with the files as they are then
OpenEventTagMap(f, m, n) ==
    /\ pc = "idle"
    /\ file' = f /\ missing' = m /\ named' = n
    /\ pc' = "open" /\ which' = 0 /\ line' = 1 /\ fd' = {} /\ mapLen' = {}
    /\ Idx2TagFmt' = <<>> /\ result' = "none"

Return(r) == pc' = "done" /\ result' = r

\* The next file, or the next loop
Advance(to, last) ==
    IF which < last THEN which' = which + 1 /\ UNCHANGED pc
    ELSE which' = 0 /\ pc' = to

\* open() and lseek(): only the first file has to be there.
OpenFile ==
    /\ pc = "open"
    /\ IF which \in missing
       THEN IF which = 0 THEN Return("null") /\ UNCHANGED <<which, fd>>
            ELSE Advance("map", NUM_MAPS - 1) /\ UNCHANGED <<fd, result>>
       ELSE /\ fd' = fd \cup {which}
            /\ Advance("map", IF named THEN 0 ELSE NUM_MAPS - 1)
            /\ UNCHANGED result
    /\ UNCHANGED <<disk, line, mapLen, Idx2TagFmt>>

\* lseek() of the first file fails.
SeekFails ==
    /\ pc = "open" /\ which = 0 /\ 0 \notin missing
    /\ fd' = fd \cup {0} /\ pc' = "fail_close"
    /\ UNCHANGED <<disk, which, line, mapLen, Idx2TagFmt, result>>

\* An empty file cannot be mapped.
Empty(w) == file[w].lines = <<>>

\* mmap(), which may fail, and close()
MapFile ==
    /\ pc = "map"
    /\ \/ which \notin fd /\ Advance("parse", NUM_MAPS - 1) /\ UNCHANGED <<fd, mapLen>>
       \/ /\ which \in fd
          /\ fd' = fd \ {which}
          /\ \/ ~Empty(which) /\ mapLen' = mapLen \cup {which} /\ Advance("parse", NUM_MAPS - 1)
             \/ /\ mapLen' = mapLen
                /\ IF which = 0 THEN pc' = "fail_close" /\ UNCHANGED which
                   ELSE Advance("parse", NUM_MAPS - 1)
    /\ UNCHANGED <<disk, line, Idx2TagFmt, result>>

FailClose ==
    /\ pc = "fail_close"
    /\ fd' = {} /\ mapLen' = {}
    /\ Return("null")
    /\ UNCHANGED <<disk, which, line, Idx2TagFmt>>

-----------------------------------------------------------------------------
(***************************************************************************)
(* parseMapLines()                                                          *)
(***************************************************************************)

NextFile ==
    IF which < NUM_MAPS - 1
    THEN which' = which + 1 /\ line' = 1 /\ UNCHANGED <<pc, result, mapLen>>
    ELSE Return("map") /\ UNCHANGED <<which, line, mapLen>>

\* delete newTagMap
Delete == Return("null") /\ mapLen' = {} /\ UNCHANGED <<which, line>>

\* "insist on EOL at EOF": of the first file; another one is passed over.
NoEol ==
    /\ pc = "parse" /\ line = 1
    /\ which \notin mapLen \/ ~file[which].eol
    /\ IF which = 0 THEN Delete ELSE NextFile
    /\ UNCHANGED <<disk, fd, Idx2TagFmt>>

Duplicate(l) == l.idx \in DOMAIN Idx2TagFmt

emplaceUnique(l) ==
    Idx2TagFmt' = IF Duplicate(l) THEN Idx2TagFmt
                  ELSE [i \in DOMAIN Idx2TagFmt \cup {l.idx} |->
                           IF i = l.idx THEN <<l.name, l.fmt>> ELSE Idx2TagFmt[i]]

\* EMLINK, a duplicate, is an error of the first file only; EINVAL and ERANGE are
\* errors of both.
IsError(l) ==
    \/ l.kind \in {"junk", "bad"}
    \/ l.kind = "tag" /\ Duplicate(l) /\ which = 0

AtLine == pc = "parse" /\ which \in mapLen /\ file[which].eol

ParseLine ==
    /\ AtLine /\ line <= Len(file[which].lines)
    /\ LET l == file[which].lines[line] IN
        /\ IF l.kind = "tag" THEN emplaceUnique(l) ELSE UNCHANGED Idx2TagFmt
        /\ IF IsError(l) THEN Delete
           ELSE line' = line + 1 /\ UNCHANGED <<pc, result, mapLen, which>>
    /\ UNCHANGED <<disk, fd>>

EndOfFile ==
    /\ AtLine /\ line > Len(file[which].lines)
    /\ NextFile
    /\ UNCHANGED <<disk, fd, Idx2TagFmt>>

NoFiles == [w \in Which |-> [lines |-> <<>>, eol |-> TRUE]]

\* android_closeEventTagMap(), and the caller may open the map again.
CloseEventTagMap ==
    /\ pc = "done"
    /\ pc' = "idle" /\ mapLen' = {} /\ result' = "none" /\ Idx2TagFmt' = <<>>
    /\ file' = NoFiles /\ missing' = {} /\ named' = FALSE /\ which' = 0 /\ line' = 1
    /\ UNCHANGED fd

-----------------------------------------------------------------------------

Init ==
    /\ file = NoFiles /\ missing = {} /\ named = FALSE
    /\ pc = "idle" /\ which = 0 /\ line = 1 /\ fd = {} /\ mapLen = {}
    /\ Idx2TagFmt = <<>> /\ result = "none"

Next ==
    \/ \E f \in [Which -> Files], m \in SUBSET Which, n \in BOOLEAN : OpenEventTagMap(f, m, n)
    \/ OpenFile \/ SeekFails \/ MapFile \/ FailClose
    \/ NoEol \/ ParseLine \/ EndOfFile
    \/ CloseEventTagMap

Spec == Init /\ [][Next]_vars

-----------------------------------------------------------------------------

\* Whatever fails, no descriptor and, without a result, no mapping is left behind.
NothingIsLeaked == pc = "done" => fd = {} /\ (result = "null" => mapLen = {})

TagLines(w) == SelectSeq(file[w].lines, LAMBDA l : l.kind = "tag")

Names(w, i) == {l \in ToSet(TagLines(w)) : l.idx = i}

First(w, i) == LET l == TagLines(w)[SelectInSeq(TagLines(w), LAMBDA x : x.idx = i)]
               IN  <<l.name, l.fmt>>

\* The map holds the build's name for each of the build's tags, whatever was
\* registered at run time, and the first name registered for every other tag.
BuildTagsWin ==
    pc = "done" /\ result = "map" =>
        \A i \in DOMAIN Idx2TagFmt \cup {l.idx : l \in ToSet(TagLines(0))} :
            /\ i \in DOMAIN Idx2TagFmt
            /\ Idx2TagFmt[i] = IF Names(0, i) # {} THEN First(0, i) ELSE First(1, i)

\* Tags registered at run time are all there if their file could be read.
DynamicTagsAreKnown ==
    pc = "done" /\ result = "map" /\ 1 \in mapLen /\ file[1].eol =>
        \A l \in ToSet(TagLines(1)) : l.idx \in DOMAIN Idx2TagFmt

Damaged(w) == \E l \in ToSet(file[w].lines) : l.kind \in {"junk", "bad"}

\* If only a damaged line can be at fault in the second file, the map is there
\* however many of its tags are duplicates.
DuplicatesAreHarmless ==
    pc = "done" /\ result = "null" /\ which = 1 => Damaged(1)
=============================================================================
