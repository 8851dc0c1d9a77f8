------------------------------ MODULE PmsgReader ------------------------------
(***************************************************************************)
(* PmsgRead() of pmsg_reader.cpp and its caller android_logger_list_read() *)
(* (logger_read.cpp): the records of the last boot are read from a file    *)
(* that begins wherever the ring was overwritten and may end in the middle *)
(* of a record.  The file is a sequence of cells, each a piece of one      *)
(* record; a header is Header cells, of which the first is the magic.      *)
(* One step is one turn of the loop of PmsgRead().                         *)
(***************************************************************************)
EXTENDS Integers, Sequences, FiniteSets, SequencesExt

CONSTANTS Records,      \* [len (payload cells beyond the header), id, sec, pid, fake]
          Header,       \* sizeof(buf): both headers and the priority
          MaxRecords,   \* bound: records in the file
          Requests,     \* the logger_list: [mask, start, pid]
          MaxEntry,     \* LOGGER_ENTRY_MAX_LEN
          HdrSize       \* sizeof(log_msg->entry)

VARIABLES file,     \* the cells: [n (which record), rec, off]
          req,      \* the request
          pos,      \* the file offset
          buf,      \* the cells read ahead, preread_count of them
          out,      \* the records handed to the caller
          status    \* "reading", "EAGAIN", "EIO" or "EINVAL"

vars == <<file, req, pos, buf, out, status>>

(* What pstore shows: the records, without the cells that were overwritten  *)
(* at the front or not written at the end.                                  *)
Cells(n, r) == [i \in 1 .. Header + r.len |-> [n |-> n, rec |-> r, off |-> i]]
FileOf(rs, front, back) ==
    LET all == FlattenSeq([n \in 1 .. Len(rs) |-> Cells(n, rs[n])])
    IN  SubSeq(all, front + 1, Len(all) - back)

Init == /\ \E n \in 0 .. MaxRecords : \E rs \in [1 .. n -> Records] :
               \E front, back \in 0 .. Header : file = FileOf(rs, front, back)
        /\ req \in Requests
        /\ pos = 0 /\ buf = <<>> /\ out = <<>> /\ status = "reading"

-----------------------------------------------------------------------------
(* A cell that looks like LOGGER_MAGIC: the first of a record, or one of the *)
(* payload of a record with an 'l' in it.                                   *)
IsMagic(c) == c.off = 1 \/ (c.rec.fake /\ c.off = Header + 1)

(* The test of the header: a whole one, with lengths and ids in range.      *)
ValidHeader(b) == \A i \in 1 .. Header : b[i].off = i /\ b[i].n = b[1].n

(* memmove() by one until the next magic, or until nothing is left.         *)
Resync(b) ==
    LET next == {i \in 2 .. Len(b) : IsMagic(b[i])}
    IN  IF next = {} THEN <<>>
        ELSE SubSeq(b, CHOOSE i \in next : \A j \in next : i <= j, Len(b))

(* Log id, time and process the caller asked for; zero is any.              *)
Selected(r) == /\ r.id \in req.mask
               /\ req.start = 0 \/ req.start <= r.sec
               /\ req.pid \in {0, r.pid}

(* android_logger_list_read(): the checks of what PmsgRead() returned.      *)
BadLength(ret, len) ==
    LET r == IF ret > MaxEntry THEN MaxEntry ELSE ret
    IN  r < HdrSize \/ HdrSize >= MaxEntry - HdrSize \/ len > r - HdrSize

Left == Len(file) - pos
read(n) == SubSeq(file, pos + 1, pos + n)
Smaller(a, b) == IF a < b THEN a ELSE b

ReadAhead == Smaller(Header - Len(buf), Left)

(* One turn of the loop. *)
PmsgRead ==
    /\ status = "reading"
    /\ LET got == ReadAhead
           b == buf \o read(got)
           p == pos + got
           r == b[1].rec
       IN  IF Len(b) # Header
           THEN /\ status' = IF b = <<>> THEN "EAGAIN" ELSE "EIO"
                /\ buf' = b /\ pos' = p /\ UNCHANGED out
           ELSE IF ~ValidHeader(b)
           THEN buf' = Resync(b) /\ pos' = p /\ UNCHANGED <<out, status>>
           ELSE IF ~Selected(r)     \* lseek() may go past the end
           THEN /\ pos' = Smaller(p + r.len, Len(file))
                /\ buf' = <<>> /\ UNCHANGED <<out, status>>
           ELSE /\ buf' = <<>> /\ pos' = Smaller(p + r.len, Len(file))
                /\ IF Len(file) - p < r.len
                   THEN status' = "EIO" /\ UNCHANGED out
                   ELSE IF BadLength(r.len + 1 + HdrSize, r.len + 1)
                   THEN status' = "EINVAL" /\ UNCHANGED out
                   ELSE out' = Append(out, b[1].n) /\ UNCHANGED status
    /\ UNCHANGED <<file, req>>

Next == PmsgRead
Spec == Init /\ [][Next]_vars

-----------------------------------------------------------------------------
RecordOf(n) == file[CHOOSE i \in 1 .. Len(file) : file[i].n = n].rec
Whole(n) == Cardinality({i \in 1 .. Len(file) : file[i].n = n}) = Header + RecordOf(n).len

(* Whatever is left of an overwritten record at the front, an 'l' in it     *)
(* included, PmsgRead() finds the next header: when the file is read, the   *)
(* caller got every whole record that was asked for, once and in order, and *)
(* nothing else, and none was refused for its length.                       *)
WholeRecordsAreRead ==
    /\ status # "EINVAL"
    /\ status # "reading" =>
           out = SetToSortSeq({n \in {file[i].n : i \in 1 .. Len(file)} :
                                   Whole(n) /\ Selected(RecordOf(n))}, <)
=============================================================================
