------------------------------- MODULE PmsgFile -------------------------------
(***************************************************************************)
(* The virtual file system liblog keeps in the persistent ring of          *)
(* /dev/pmsg0: __android_log_pmsg_file_write() (pmsg_writer.cpp) cuts a    *)
(* file into records, and after a reboot __android_log_pmsg_file_read()    *)
(* (pmsg_reader.cpp) puts the files together again and hands them to a     *)
(* callback.  Writers run concurrently, the ring loses its oldest records, *)
(* and the crash may come between any two records.  Which records the ring *)
(* yields is PmsgRead(), whose algorithm is in module PmsgReader.          *)
(***************************************************************************)
EXTENDS Integers, Sequences, FiniteSets, FiniteSetsExt, SequencesExt

CONSTANTS Writers,
          Jobs,         \* files to write: [id, prio, path, buf]; path = <<.., dir, base>>
          Queries,      \* what is read: [mask, prio, prefix], prefix a path
          Number(_),    \* the first number in a name, 0 without one
          Rank(_),      \* strcmp() orders names by rank
          Clean,        \* names that are printable, without spaces and colons
          TagLen,       \* strlen(tag) + 1
          MaxPayload,   \* LOGGER_ENTRY_MAX_PAYLOAD, more than a tag
          MaxSequence,  \* ANDROID_LOG_PMSG_FILE_MAX_SEQUENCE
          RingRecords,  \* records the ring keeps
          MaxJobs       \* bound: files written before the crash

NL == "nl"      \* '\n'
FF == "ff"      \* '\f'

VARIABLES dev,      \* the records in the ring, oldest first (more: not the file's last)
          w,        \* the writers
          started,  \* history: the jobs that were started
          lost,     \* history: whether the ring dropped a record
          files     \* what the callback is given after the reboot

vars == <<dev, w, started, lost, files>>

None == [pc |-> "idle", job |-> CHOOSE j \in Jobs : TRUE, rest |-> <<>>, seq |-> 0, ret |-> 0]

Init == /\ dev = <<>> /\ w = [x \in Writers |-> None]
        /\ started = <<>> /\ lost = FALSE /\ files = <<>>

-----------------------------------------------------------------------------
(* The log ids that are refused. *)
BadLogId(id) == id \in {"kernel", "events", "security"}

(* tag = <basedir>:<basename>, the last two components of the file's name.  *)
Tag(path) == IF Len(path) >= 2 THEN SubSeq(path, Len(path) - 1, Len(path)) ELSE path

packet_len == MaxPayload - 1 - TagLen

(* How much of buf goes into the next record: strnrchr() looks for the last *)
(* newline, never at the first character, and finds the end otherwise.      *)
transfer(buf) ==
    LET newlines == {i \in 2 .. packet_len - 1 : buf[i] = NL}
        n == IF newlines = {} THEN packet_len - 1 ELSE Max(newlines) - 1
    IN  IF Len(buf) <= packet_len THEN Len(buf)
        ELSE IF n < Len(buf) /\ buf[n + 1] = NL THEN n + 1 ELSE n

(* The ring overwrites its oldest records. *)
Overflows == Len(dev) >= RingRecords
Put(r) == Append(IF Overflows THEN Tail(dev) ELSE dev, r)

(* __android_log_pmsg_file_write() begins. *)
Start(x, j) ==
    /\ files = <<>> /\ w[x].pc = "idle" /\ Len(started) < MaxJobs
    /\ ~BadLogId(j.id)
    /\ w' = [w EXCEPT ![x] = [pc |-> "write", job |-> j, rest |-> j.buf, seq |-> 0, ret |-> 0]]
    /\ started' = Append(started, j)
    /\ UNCHANGED <<dev, lost, files>>

Advance_Same(x, n) == [w EXCEPT ![x].rest = SubSeq(@, n + 1, Len(@)), ![x].ret = @ + n]
Advance(x, n) == [w EXCEPT ![x].rest = SubSeq(@, n + 1, Len(@)), ![x].seq = @ + 1,
                           ![x].ret = @ + n]

(* One turn of its loop: PmsgWrite() of one record, numbered in tv_nsec.     *)
WriteRecord(x) ==
    LET j == w[x].job   n == transfer(w[x].rest)
    IN  /\ files = <<>> /\ w[x].pc = "write"
        /\ w[x].rest # <<>> /\ w[x].seq < MaxSequence
        /\ dev' = Put([id |-> j.id, prio |-> j.prio, tag |-> Tag(j.path), seq |-> w[x].seq,
                       data |-> SubSeq(w[x].rest, 1, n), more |-> n < Len(w[x].rest)])
        /\ lost' = (lost \/ Overflows)
        /\ w' = Advance(x, n)
        /\ UNCHANGED <<started, files>>

(* The loop ends, at the end of the file or at the last sequence number.    *)
Finish(x) ==
    /\ files = <<>> /\ w[x].pc = "write"
    /\ w[x].rest = <<>> \/ w[x].seq >= MaxSequence
    /\ w' = [w EXCEPT ![x].pc = "idle"]
    /\ UNCHANGED <<dev, started, lost, files>>

(* Anybody else's record: its time is no sequence number. *)
OtherLog ==
    /\ files = <<>> /\ Len(dev) < RingRecords
    /\ \A i \in 1 .. Len(dev) : dev[i].seq # -1
    /\ dev' = Append(dev, [id |-> "main", prio |-> 4, tag |-> <<"other">>, seq |-> -1,
                           data |-> <<NL>>, more |-> FALSE])
    /\ UNCHANGED <<w, started, lost, files>>

-----------------------------------------------------------------------------
(* The prefix matches by directory, or by directory and file.               *)
Matches(prefix, tag) == LET p == Tag(prefix) IN SubSeq(tag, 1, Len(p)) = p

(* The records __android_log_pmsg_file_read() keeps.                         *)
Wanted(q, r) ==
    /\ r.id \in q.mask /\ ~BadLogId(r.id)
    /\ r.seq \in 0 .. MaxSequence - 1
    /\ Len(r.tag) = 2 /\ \A i \in 1 .. 2 : r.tag[i] \in Clean
    /\ Matches(q.prefix, r.tag)
    /\ r.prio >= q.prio

(* A file is named by tag, log and priority.                                *)
Name(r) == [tag |-> r.tag, id |-> r.id, prio |-> r.prio]

(* The number that is compared is the first one in <dir>:<base>.            *)
nr(name) == IF Number(name.tag[1]) # 0 THEN Number(name.tag[1]) ELSE Number(name.tag[2])
NameRank(name) == <<Rank(name.tag[1]), Rank(name.tag[2])>>
(* compare > 0: reverse numeric, then reverse alphabetical order.           *)
Precedes(a, b) ==
    \/ nr(a) > nr(b)
    \/ /\ nr(a) = nr(b)
       /\ \/ NameRank(a)[1] > NameRank(b)[1]
          \/ NameRank(a)[1] = NameRank(b)[1] /\ NameRank(a)[2] > NameRank(b)[2]

(* list_for_each_reverse: a new name goes behind the last one it does not    *)
(* precede.                                                                 *)
InsertName(names, n) ==
    LET behind == {i \in 1 .. Len(names) : ~Precedes(n, names[i])}
        at == IF behind = {} THEN 0 ELSE Max(behind)
    IN  IF n \in Range(names) THEN names
        ELSE SubSeq(names, 1, at) \o <<n>> \o SubSeq(names, at + 1, Len(names))

(* The fragments of a file: of those with one sequence number the last, in   *)
(* the order of the numbers; where numbers are missing, form feeds.         *)
Fragment(rs, s) ==
    LET same == {i \in 1 .. Len(rs) : rs[i].seq = s}
    IN  IF same = {} THEN <<FF>> ELSE rs[Max(same)].data
Content(rs) == FlattenSeq([s \in 1 .. Max({rs[i].seq : i \in 1 .. Len(rs)}) + 1 |->
                              Fragment(rs, s - 1)])

FilesOf(q) ==
    LET wanted == SelectSeq(dev, LAMBDA r : Wanted(q, r))
        names == FoldLeft(InsertName, <<>>, [i \in 1 .. Len(wanted) |-> Name(wanted[i])])
    IN  [k \in 1 .. Len(names) |->
            [name |-> names[k],
             content |-> Content(SelectSeq(wanted, LAMBDA r : Name(r) = names[k]))]]

(* The reboot, and __android_log_pmsg_file_read() of the next boot.         *)
Read(q) ==
    /\ files = <<>> /\ FilesOf(q) # <<>>
    /\ files' = FilesOf(q)
    /\ UNCHANGED <<dev, w, started, lost>>

Next == \/ \E x \in Writers : (\E j \in Jobs : Start(x, j)) \/ WriteRecord(x) \/ Finish(x)
        \/ OtherLog
        \/ \E q \in Queries : Read(q)

Spec == Init /\ [][Next]_vars

-----------------------------------------------------------------------------
JobName(j) == [tag |-> Tag(j.path), id |-> j.id, prio |-> j.prio]
WriteOf(j) == {x \in Writers : w[x].job = j}

(* What the callback of __android_log_pmsg_file_read() gets for a file that  *)
(* was written once is what __android_log_pmsg_file_write() accepted of it, *)
(* up to the crash, with a form feed for each lost record at its beginning. *)
FilesAreRestored ==
    \A k \in DOMAIN files : \A j \in Range(started) :
        /\ files[k].name = JobName(j)
        /\ Len(SelectSeq(started, LAMBDA i : JobName(i) = JobName(j))) = 1
        => \A x \in WriteOf(j) :
               LET c == files[k].content
                   lead == Max({n \in 0 .. Len(c) : \A i \in 1 .. n : c[i] = FF})
                   kept == SubSeq(c, lead + 1, Len(c))
               IN  /\ kept = SubSeq(j.buf, w[x].ret - Len(kept) + 1, w[x].ret)
                   /\ ~lost => lead = 0 /\ Len(kept) = w[x].ret

(* "scaled to the last newline in the file": a record that is not the last  *)
(* of its file ends a line, unless it holds only part of one.               *)
LinesAreNotSplit ==
    \A i \in DOMAIN dev : LET d == dev[i].data IN
        dev[i].more /\ (\E n \in 2 .. Len(d) : d[n] = NL) => d[Len(d)] = NL

(* "Insert in reverse numeric _then_ alpha sorted order as representative of *)
(* log rotation": of the rotations of one file the older, with the larger   *)
(* number in the name of the file, is presented first.                      *)
OldestRotationFirst ==
    \A i, k \in DOMAIN files :
        /\ files[i].name.tag[1] = files[k].name.tag[1]
        /\ Number(files[i].name.tag[2]) > Number(files[k].name.tag[2])
        => i < k
=============================================================================
