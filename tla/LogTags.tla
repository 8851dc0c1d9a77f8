------------------------------- MODULE LogTags -------------------------------
(***************************************************************************)
(* logd/LogTags.{h,cpp}: the database of event tags.  It is read at start    *)
(* from files and from pmsg, extended by the getEventTag command, and kept   *)
(* in files and in pmsg for the next logd and the next boot.                 *)
(*                                                                          *)
(* All that writes runs in one thread (the constructor, then the listener of *)
(* commands); Reference is android::tagToName() in the other threads.  logd  *)
(* may die between any two steps.                                           *)
(*                                                                          *)
(* A line of a file is a record; its length counts as one.  A format of ""   *)
(* is no format, NULL is a request that only reads.                         *)
(***************************************************************************)
EXTENDS Naturals, Sequences, FiniteSets, SequencesExt, TLC

CONSTANTS Names, Formats, Uids, 
          Hash(_, _),       \* the tag that is invented for a name and a format
          SystemTags,       \* lines of /system/etc/event-log-tags
          Debuggable,       \* __android_log_is_debuggable()
          Pmsg,             \* /dev/pmsg0 can be opened
          max_per_uid, rate_to_pmsg,
          MaxRequests, MaxTraffic, MaxFaults   \* bounds

ROOT == 0
NULL == "NULL"
emptyTag == 9999
Files == {"dynamic", "debug"}

VARIABLES key2tag, tag2name, tag2format, tag2uid, uid2count, tag2total, file2watermark,
          phase, todo,      \* what the constructor reads, and the lines still to be read
          job,              \* the WritePersistEventLogTags() under way
          file, pmsg,       \* outside logd: the files and the records in pmsg
          mounted,          \* outside logd: /data is there
          total,            \* LogStatistics::sizesTotal()
          requests, faults,
          answers,          \* history: the tags clients were given
          damaged           \* history: files cut since they were written
db == <<key2tag, tag2name, tag2format, tag2uid, uid2count, tag2total>>
outside == <<mounted, requests, faults, damaged>>
vars == <<db, file2watermark, phase, todo, job, file, pmsg, total, outside, answers>>

Empty == << >>
NoJob == [pc |-> "none"]
Has(f, x) == x \in DOMAIN f
Put(f, x, v) == (x :> v) @@ f
Without(f, x) == [y \in DOMAIN f \ {x} |-> f[y]]
Total(t) == IF Has(tag2total, t) THEN tag2total[t] ELSE 0

NewProcess ==
    /\ key2tag' = Empty /\ tag2name' = Empty /\ tag2format' = Empty /\ tag2uid' = Empty
    /\ uid2count' = Empty /\ tag2total' = Empty /\ file2watermark' = Empty
    /\ phase' = "system" /\ todo' = SystemTags /\ job' = NoJob /\ total' = 0

Init ==
    /\ key2tag = Empty /\ tag2name = Empty /\ tag2format = Empty /\ tag2uid = Empty
    /\ uid2count = Empty /\ tag2total = Empty /\ file2watermark = Empty
    /\ phase = "system" /\ todo = SystemTags /\ job = NoJob /\ total = 0
    /\ file = [f \in Files |-> << >>] /\ pmsg = << >> /\ mounted = FALSE
    /\ requests = 0 /\ faults = 0 /\ answers = {} /\ damaged = {}

-----------------------------------------------------------------------------
(* Lines and records. *)
Comment == [kind |-> "comment"]

\* formatEntry(): only a line with a format has room for the uid
formatEntry(tag, uid, name, format) ==
    [kind |-> "entry", tag |-> tag, uid |-> IF format = "" THEN ROOT ELSE uid,
     name |-> name, format |-> format]

formatOf(tag) == IF Has(tag2format, tag) THEN tag2format[tag] ELSE ""

formatEntry_locked(tag, uid) ==
    LET line(u) == formatEntry(tag, u, tag2name[tag], formatOf(tag))
    IN  IF ~Has(tag2uid, tag) THEN <<line(ROOT)>>
        ELSE IF uid # ROOT THEN <<line(uid)>>
        ELSE SetToSeq({line(u) : u \in tag2uid[tag]})

\* WritePmsgEventLogTags(): the tag is compared with 0 before it is written
RecordedTag(tag) == 0

PmsgRecords(tag, uid) ==
    LET record(u) == [kind |-> "entry", tag |-> RecordedTag(tag), uid |-> u, name |-> tag2name[tag],
                      format |-> formatOf(tag)]
    IN  IF ~Has(tag2uid, tag) THEN <<record(ROOT)>>
        ELSE IF uid # ROOT THEN <<record(uid)>>
        ELSE SetToSeq({record(u) : u \in tag2uid[tag]})

WritePmsgEventLogTags(tag, uid) ==
    pmsg' = IF /\ Pmsg /\ Has(tag2total, tag)
               /\ tag2total[tag] = 0 \/ total - tag2total[tag] >= rate_to_pmsg
            THEN pmsg \o PmsgRecords(tag, uid) ELSE pmsg

-----------------------------------------------------------------------------
(* AddEventLogTags(): a line that was read. *)
Named(tag, name) == Put(tag2name, tag, name)

Key2Tag(tag, name, format) ==
    LET k == Put(key2tag, <<name, format>>, tag)
    IN  IF format # "" /\ ~Has(k, <<name, "">>) THEN Put(k, <<name, "">>, tag) ELSE k

Persist(tag, uid, source, answer) ==
    IF source = "system" THEN NoJob
    ELSE [pc |-> "pmsg", tag |-> tag, uid |-> uid, source |-> source, answer |-> answer]

AddEventLogTags(l, source) ==
    LET known == Has(tag2uid, l.tag)
        newOne == ~Has(tag2name, l.tag)
        uidUpdate == \/ known /\ (l.uid = ROOT \/ l.uid \notin tag2uid[l.tag])
                     \/ ~known /\ newOne /\ l.uid # ROOT
        update == (source # "system" /\ ~Has(tag2total, l.tag)) \/ uidUpdate
    IN  /\ key2tag' = Key2Tag(l.tag, l.name, l.format)
        /\ tag2name' = Named(l.tag, l.name)
        /\ tag2format' = IF l.format # "" THEN Put(tag2format, l.tag, l.format) ELSE tag2format
        /\ tag2uid' = IF ~uidUpdate THEN tag2uid
                      ELSE IF ~known THEN Put(tag2uid, l.tag, {l.uid})
                      ELSE IF l.uid = ROOT THEN Without(tag2uid, l.tag)
                      ELSE Put(tag2uid, l.tag, tag2uid[l.tag] \cup {l.uid})
        /\ tag2total' = IF update /\ Has(tag2total, l.tag) THEN Put(tag2total, l.tag, 0) ELSE tag2total
        /\ job' = IF update THEN Persist(l.tag, l.uid, source, {}) ELSE NoJob
        /\ UNCHANGED uid2count

-----------------------------------------------------------------------------
(* RebuildFileEventLogTags() *)
CanOpen(f) == f = "dynamic" \/ mounted
NeedsRebuild(f) ==
    /\ tag2total # Empty /\ Has(file2watermark, f)
    /\ CanOpen(f) => Len(file[f]) < file2watermark[f]

Rebuilt(f) ==
    <<Comment>> \o FoldLeft(LAMBDA lines, t : lines \o formatEntry_locked(t, ROOT), << >>,
                            SetToSeq(DOMAIN tag2total))

RebuildFile(f) ==
    IF CanOpen(f)
    THEN /\ file' = [file EXCEPT ![f] = Rebuilt(f)]
         /\ file2watermark' = Put(file2watermark, f, Len(Rebuilt(f)))
    ELSE UNCHANGED <<file, file2watermark>>

\* WriteDynamicEventLogTags() and WriteDebugEventLogTags()
Watermark(f, n) == (IF Has(file2watermark, f) THEN file2watermark[f] ELSE 0) + n

AppendToFile(f, tag, uid) ==
    LET lines == formatEntry_locked(tag, uid)
    IN  IF CanOpen(f)
        THEN /\ file' = [file EXCEPT ![f] = @ \o lines]
             /\ file2watermark' = Put(file2watermark, f, Watermark(f, Len(lines)))
        ELSE UNCHANGED <<file, file2watermark>>

-----------------------------------------------------------------------------
(* WritePersistEventLogTags(), in steps. *)
FirstTime == Total(job.tag) = 0

JobPmsg ==
    /\ job.pc = "pmsg"
    /\ WritePmsgEventLogTags(job.tag, job.uid)
    /\ job' = [job EXCEPT !.pc = IF FirstTime THEN "dynamic" ELSE "total"]
    /\ UNCHANGED <<db, file2watermark, phase, todo, file, total, outside, answers>>

\* Whether the debug file gets the tag too
ToDebug(source) == source # "debug" /\ Debuggable

JobDynamic ==
    /\ job.pc = "dynamic"
    /\ IF job.source = "dynamic" /\ NeedsRebuild("dynamic")
       THEN RebuildFile("dynamic")
       ELSE AppendToFile("dynamic", job.tag, job.uid)
    /\ job' = [job EXCEPT !.pc = IF ToDebug(job.source) THEN "debug" ELSE "total"]
    /\ UNCHANGED <<db, phase, todo, pmsg, total, outside, answers>>

JobDebug ==
    /\ job.pc = "debug"
    /\ IF NeedsRebuild("debug") THEN RebuildFile("debug")
       ELSE AppendToFile("debug", job.tag, job.uid)
    /\ job' = [job EXCEPT !.pc = "total", !.answer = {[a EXCEPT !.kept = mounted] : a \in @}]
    /\ UNCHANGED <<db, phase, todo, pmsg, total, outside, answers>>

JobTotal ==
    /\ job.pc = "total"
    /\ tag2total' = Put(tag2total, job.tag, IF total = 0 THEN 1 ELSE total)
    /\ answers' = answers \cup job.answer
    /\ job' = NoJob
    /\ UNCHANGED <<key2tag, tag2name, tag2format, tag2uid, uid2count, file2watermark, phase, todo,
                   file, pmsg, total, outside>>

-----------------------------------------------------------------------------
After(p) == CASE p = "system" -> "dynamic"
              [] p = "dynamic" -> IF Debuggable THEN "debug" ELSE "pmsg"
              [] p = "debug" -> "pmsg"
              [] p \in {"pmsg", "reinit"} -> "run"

Contents(p) == CASE p = "dynamic" -> file["dynamic"]
                 [] p = "debug" -> IF mounted THEN file["debug"] ELSE << >>
                 [] p = "pmsg" -> pmsg
                 [] p = "run" -> << >>

\* ReadFileEventLogTags(): a file that is shorter than it was is rebuilt before it is read.
ReadFile(f) ==
    LET rebuilds == f \in Files /\ NeedsRebuild(f) /\ CanOpen(f)
        contents == IF rebuilds THEN Rebuilt(f) ELSE Contents(f)
    IN  /\ todo' = contents
        /\ file' = IF rebuilds THEN [file EXCEPT ![f] = contents] ELSE file
        /\ file2watermark' = IF f \in Files /\ CanOpen(f) THEN Put(file2watermark, f, Len(contents))
                             ELSE file2watermark

ReadNext ==
    /\ phase # "run" /\ todo = << >> /\ job = NoJob
    /\ phase' = After(phase) /\ ReadFile(After(phase))
    /\ UNCHANGED <<db, job, pmsg, total, outside, answers>>

Reinit ==
    /\ phase = "run" /\ job = NoJob /\ Debuggable /\ requests < MaxRequests
    /\ phase' = "reinit" /\ requests' = requests + 1
    /\ ReadFile("debug")
    /\ UNCHANGED <<db, job, pmsg, total, mounted, faults, damaged, answers>>

Source(p) == CASE p = "reinit" -> "debug" [] p = "pmsg" -> "none" [] OTHER -> p

\* A comment and a line with a bad name or number are passed over, text ends the file.
ReadLine ==
    /\ phase # "run" /\ todo # << >> /\ job = NoJob
    /\ LET l == Head(todo) IN
       \/ /\ l.kind = "entry"
          /\ AddEventLogTags(l, Source(phase)) /\ todo' = Tail(todo)
       \/ /\ l.kind \in {"comment", "invalid"}
          /\ todo' = Tail(todo) /\ UNCHANGED <<db, job>>
       \/ /\ l.kind = "text"
          /\ todo' = << >> /\ UNCHANGED <<db, job>>
    /\ UNCHANGED <<file2watermark, phase, file, pmsg, total, outside, answers>>

-----------------------------------------------------------------------------
(* nameToTag() for the getEventTag command. *)
Found == [tag : Nat, unique : BOOLEAN, crash : BOOLEAN]

\* nameToTag_locked(): of a tag in use its own name is compared with itself, so
\* the first tag is taken whoever has it; a tag without a format is a read of end().
nameToTag_locked(name, format) ==
    LET known == Has(key2tag, <<name, IF format = NULL THEN "" ELSE format>>)
        tag == Hash(name, format)
        of(t, u, c) == [tag |-> t, unique |-> u, crash |-> c]
    IN  IF known THEN of(key2tag[<<name, IF format = NULL THEN "" ELSE format>>], FALSE, FALSE)
        ELSE IF format = NULL THEN of(emptyTag, FALSE, FALSE)
        ELSE IF ~Has(tag2name, tag) THEN of(tag, TRUE, FALSE)
        ELSE of(tag, FALSE, ~Has(tag2format, tag))

Count(uid) == IF Has(uid2count, uid) THEN uid2count[uid] ELSE 0
AtLimit(uid) == uid # ROOT /\ Count(uid) >= max_per_uid

\* The update of the tables: a new tag, or one more uid for a tag
UpdateTables(tag, uid, name, format, newUid) ==
    LET full == AtLimit(uid)
        newTag == ~newUid
    IN  /\ tag2total' = IF newUid \/ ~Has(tag2total, tag) THEN Put(tag2total, tag, 0) ELSE tag2total
        /\ key2tag' = IF newTag THEN Key2Tag(tag, name, format) ELSE key2tag
        /\ tag2name' = IF newTag THEN Named(tag, name) ELSE tag2name
        /\ tag2format' = IF format # "" /\ ~full THEN Put(tag2format, tag, format) ELSE tag2format
        /\ tag2uid' = IF uid = ROOT THEN tag2uid
                      ELSE Put(tag2uid, tag, (IF Has(tag2uid, tag) THEN tag2uid[tag] ELSE {}) \cup {uid})
        /\ uid2count' = IF uid = ROOT \/ full THEN uid2count ELSE Put(uid2count, uid, Count(uid) + 1)

GetEventTag(uid, name, format) ==
    LET n == nameToTag_locked(name, format)
        write == format # NULL
        foreign == /\ uid # ROOT /\ n.tag # emptyTag /\ ~n.unique
                   /\ Has(tag2uid, n.tag) /\ uid \notin tag2uid[n.tag]
        refused == n.tag = emptyTag \/ (foreign /\ ~write)
        answer == {[tag |-> n.tag, uid |-> uid, name |-> name, format |-> format,
                    kept |-> FALSE]}
    IN
    /\ phase = "run" /\ job = NoJob /\ requests < MaxRequests /\ ~n.crash
    /\ requests' = requests + 1
    /\ \/ /\ refused
          /\ UNCHANGED <<db, job, pmsg, answers>>
       \/ /\ ~refused /\ ~n.unique /\ ~foreign
          /\ WritePmsgEventLogTags(n.tag, uid)
          /\ answers' = answers \cup (IF write THEN answer ELSE {})
          /\ UNCHANGED <<db, job>>
       \/ /\ ~refused /\ n.unique /\ AtLimit(uid)
          /\ UNCHANGED <<db, job, pmsg, answers>>
       \/ /\ ~refused /\ (foreign \/ (n.unique /\ ~AtLimit(uid)))
          /\ IF n.unique THEN UNCHANGED pmsg ELSE WritePmsgEventLogTags(n.tag, uid)
          /\ UpdateTables(n.tag, uid, name, format, foreign)
          /\ job' = Persist(n.tag, uid, "none", answer)
          /\ UNCHANGED answers
    /\ UNCHANGED <<file2watermark, phase, todo, file, total, mounted, faults, damaged>>

\* android::tagToName(), in any thread
Reference(tag) ==
    /\ phase = "run" /\ WritePmsgEventLogTags(tag, ROOT) /\ pmsg' # pmsg
    /\ tag2total[tag] = 0 \/ total - tag2total[tag] >= rate_to_pmsg
    /\ Len(pmsg) < MaxRequests
    /\ UNCHANGED <<db, file2watermark, phase, todo, job, file, total, outside, answers>>

Traffic ==
    /\ total < MaxTraffic /\ total' = total + 1
    /\ UNCHANGED <<db, file2watermark, phase, todo, job, file, pmsg, outside, answers>>

-----------------------------------------------------------------------------
(* What happens to logd and to its files. *)
Restart ==
    /\ faults < MaxFaults /\ faults' = faults + 1
    /\ NewProcess
    /\ UNCHANGED <<file, pmsg, mounted, requests, answers, damaged>>

\* A request that makes logd die, which is started again
CrashingRequest(uid, name, format) ==
    /\ phase = "run" /\ job = NoJob /\ requests < MaxRequests
    /\ nameToTag_locked(name, format).crash
    /\ requests' = requests + 1 /\ NewProcess
    /\ UNCHANGED <<file, pmsg, mounted, faults, answers, damaged>>

Reboot ==
    /\ faults < MaxFaults /\ faults' = faults + 1
    /\ NewProcess
    /\ file' = [file EXCEPT !["dynamic"] = << >>] /\ mounted' = FALSE
    /\ damaged' = damaged \cup {"dynamic"}
    /\ UNCHANGED <<pmsg, requests, answers>>

Mount ==
    /\ Debuggable /\ ~mounted /\ mounted' = TRUE
    /\ UNCHANGED <<db, file2watermark, phase, todo, job, file, pmsg, total, requests, faults, answers, damaged>>

Damage(f) ==
    /\ faults < MaxFaults /\ faults' = faults + 1
    /\ file[f] # << >> /\ CanOpen(f)
    /\ \E n \in 0 .. Len(file[f]) - 1 : file' = [file EXCEPT ![f] = SubSeq(@, 1, n)]
    /\ damaged' = damaged \cup {f}
    /\ UNCHANGED <<db, file2watermark, phase, todo, job, pmsg, total, mounted, requests, answers>>

Next ==
    \/ ReadNext \/ ReadLine \/ Reinit \/ JobPmsg \/ JobDynamic \/ JobDebug \/ JobTotal
    \/ \E uid \in Uids, name \in Names, format \in Formats \cup {NULL} :
          GetEventTag(uid, name, format) \/ CrashingRequest(uid, name, format)
    \/ \E tag \in DOMAIN tag2total : Reference(tag)
    \/ Traffic \/ Restart \/ Reboot \/ Mount
    \/ \E f \in Files : Damage(f)

Spec == Init /\ [][Next]_vars

-----------------------------------------------------------------------------
(* Every key leads to a tag with a name; formats, uids and totals belong to  *)
(* such tags.                                                                *)
TablesAgree ==
    /\ {key2tag[k] : k \in DOMAIN key2tag} \subseteq DOMAIN tag2name
    /\ DOMAIN tag2format \cup DOMAIN tag2uid \subseteq DOMAIN tag2name
    /\ \A k \in DOMAIN key2tag : tag2name[key2tag[k]] = k[1]

(* "How we maintain some runtime or reboot stickiness": the tag that a client *)
(* was given for a name and a format is the tag they have whenever they are  *)
(* known, after restarts and reboots too, unless one of the two numbers is    *)
(* that of a record in pmsg, which is not the tag's (of a name without a      *)
(* format, "we find first entry recorded").                                  *)
StableNumbers ==
    \A a \in answers :
        LET tag == key2tag[<<a.name, a.format>>]
        IN  (a.format # "" /\ Has(key2tag, <<a.name, a.format>>) /\ tag # a.tag) =>
                \E l \in ToSet(pmsg) : <<l.name, l.format>> = <<a.name, a.format>> /\ l.tag \in {tag, a.tag}

(* A tag that a client was given is known, and open to that client, to every *)
(* later logd of the same boot that has read its files, unless somebody cut  *)
(* the file of dynamic tags.                                                 *)
AnswersSurviveRestart ==
    (phase = "run" /\ "dynamic" \notin damaged) =>
        \A a \in answers : /\ Has(key2tag, <<a.name, a.format>>)
                           /\ Has(tag2uid, a.tag) => a.uid \in tag2uid[a.tag] \cup {ROOT}

(* "Record expected file watermarks to detect corruption": a file that nobody *)
(* else touched is not shorter than logd expects, or it would be rebuilt for *)
(* nothing.                                                                  *)
NeverRebuiltForNothing ==
    \A f \in Files : (Has(file2watermark, f) /\ f \notin damaged /\ CanOpen(f)) =>
        file2watermark[f] <= Len(file[f])

(* The same over a reboot of a debuggable build: a tag that went to the file *)
(* on /data is known to every logd that has read that file.                  *)
AnswersSurviveReboot ==
    (/\ phase = "run" /\ mounted /\ "debug" \notin damaged
     /\ Has(file2watermark, "debug") /\ file2watermark["debug"] = Len(file["debug"])) =>
        \A a \in answers : a.kept => Has(key2tag, <<a.name, a.format>>)

(* "Put a cap on the tags per uid": during one life of logd.                 *)
CapPerUid == \A u \in DOMAIN uid2count : uid2count[u] <= max_per_uid

=============================================================================
