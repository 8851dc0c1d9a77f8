------------------------------ MODULE KernelLog ------------------------------
(***************************************************************************)
(* How kernel messages and SELinux denials reach logd: main()'s start of      *)
(* LogAudit and LogKlog, readDmesg(), the two listeners and libaudit's        *)
(* handshake, over an external kernel: its ring of messages, the position up *)
(* to which /proc/kmsg was read, and the netlink socket of the audit daemon. *)
(* logd may crash at any step; the ring and the position survive it, the log *)
(* buffer does not.                                                         *)
(*                                                                          *)
(* A message is a record [kind, id, tag, meta]: a line of text, a denial      *)
(* (whose tag is the denial's contexts and class, and whose meta is the      *)
(* metadata already at its end) or the marker of one start of logd (id).     *)
(***************************************************************************)
EXTENDS Integers, Sequences, SequencesExt, FiniteSets

CONSTANTS Tags, Suppressed,      \* tags of kernel lines; those that are not loggable
          Denials, Apps,         \* denials (contexts and class); those of an app
          BugMap,                \* the bug_map files: sequences of lines, which are sequences of fields
          Configs,               \* the ro.logd properties: [auditd, klogd, dmesg, main, events]
          RingSize, SetupFailures,
          MaxMessages, MaxStarts \* bounds

VARIABLES config,
          kernel,   \* ring (all that was ever printed), gone, kmsg, auditd (registered), netlink, acks owed
          logd,
          logged,   \* what Log() took since this logd started: [id, by, tag, meta]
          count     \* messages so far: the id of the next one
vars == <<config, kernel, logd, logged, count>>

Off == [pc |-> "off", al |-> "none", socket |-> FALSE, kl |-> "none", auditd |-> FALSE, start |-> 0,
        enableLogging |-> TRUE, klogInitialized |-> FALSE, auditInitialized |-> FALSE, metadata |-> << >>,
        tokens |-> << >>, from |-> 0, sent |-> {}]

Init == /\ config \in Configs
        /\ kernel = [ring |-> << >>, gone |-> 0, kmsg |-> 1, auditd |-> FALSE, netlink |-> << >>, ack |-> FALSE]
        /\ logd = Off /\ logged = << >> /\ count = 0

-----------------------------------------------------------------------------
(***************************************************************************)
(* The kernel.                                                              *)
(***************************************************************************)
Msg(kind, id, tag, meta) == [kind |-> kind, id |-> id, tag |-> tag, meta |-> meta]
Printed(k, msg) == LET n == Len(k.ring) + 1
                   IN  [k EXCEPT !.ring = Append(@, msg), !.gone = IF n > RingSize THEN n - RingSize ELSE 0]

KernelText == /\ count < MaxMessages /\ count' = count + 1
              /\ \E tag \in Tags : kernel' = Printed(kernel, Msg("text", count, tag, << >>))
              /\ UNCHANGED <<config, logd, logged>>

\* To the audit daemon if there is one, and to the ring otherwise
KernelDenial ==
    /\ count < MaxMessages /\ count' = count + 1
    /\ \E d \in Denials :
          LET msg == Msg("audit", count, d, << >>)
          IN  \/ /\ kernel.auditd
                 /\ kernel' = [kernel EXCEPT !.netlink = Append(@, msg)]
                 /\ logd' = [logd EXCEPT !.sent = @ \cup {count}]
              \/ ~kernel.auditd /\ kernel' = Printed(kernel, msg) /\ UNCHANGED logd
    /\ UNCHANGED <<config, logged>>

\* The acknowledgement of a request, which denials may overtake
KernelAck == /\ kernel.ack
             /\ kernel' = [kernel EXCEPT !.ack = FALSE, !.netlink = Append(@, Msg("ack", -1, "ack", << >>))]
             /\ UNCHANGED <<config, logd, logged, count>>

-----------------------------------------------------------------------------
(***************************************************************************)
(* LogAudit::LogAudit() and libaudit.                                        *)
(***************************************************************************)
Start == /\ logd.pc = "off" /\ logd.start < MaxStarts
         /\ logd' = [logd EXCEPT !.start = @ + 1, !.pc = IF config.auditd THEN "audit_send" ELSE "klog"]
         /\ UNCHANGED <<config, kernel, logged, count>>

SetupFailed == logd' = [logd EXCEPT !.pc = "audit_made", !.socket = FALSE]

\* audit_send(): register, and ask for an acknowledgement
AuditSend ==
    /\ logd.pc = "audit_send"
    /\ \/ /\ kernel' = [kernel EXCEPT !.auditd = TRUE, !.ack = TRUE]
          /\ logd' = [logd EXCEPT !.pc = "get_ack"]
       \/ SetupFailures /\ SetupFailed /\ UNCHANGED kernel
    /\ UNCHANGED <<config, logged, count>>

\* get_ack(): look at the first message, and take it if it is the acknowledgement
TakesAck(msg) == msg.kind = "ack"
GetAck ==
    /\ logd.pc = "get_ack" /\ kernel.netlink # << >>
    /\ kernel' = [kernel EXCEPT !.netlink = IF TakesAck(Head(@)) THEN Tail(@) ELSE @]
    /\ logd' = [logd EXCEPT !.pc = "get_reply", !.socket = TRUE]
    /\ UNCHANGED <<config, logged, count>>

\* audit_setup(): take a message, if there is one, and forget it
GetReply ==
    /\ logd.pc = "get_reply"
    /\ kernel' = [kernel EXCEPT !.netlink = IF @ = << >> THEN @ ELSE Tail(@)]
    /\ logd' = [logd EXCEPT !.pc = "audit_made"]
    /\ UNCHANGED <<config, logged, count>>

\* The rest of the constructor: "logd.auditd: start"
AuditMade ==
    /\ logd.pc = "audit_made"
    /\ kernel' = IF config.dmesg THEN Printed(kernel, Msg("text", -1, "auditd", << >>)) ELSE kernel
    /\ logd' = [logd EXCEPT !.al = "made", !.pc = "klog"]
    /\ UNCHANGED <<config, logged, count>>

-----------------------------------------------------------------------------
(***************************************************************************)
(* LogAudit::logPrint()                                                      *)
(***************************************************************************)
Refused(tag) == tag \in Suppressed

\* populateDenialMap(): "Only the first occurrence of a combination is recorded"
Definitions(d) == SelectSeq(FlattenSeq(BugMap), LAMBDA line : Len(line) = 2 /\ line[1] = d)

\* auditParse(): " bug=..." of the bug map, and " app=..." for the uid of an app
AuditParse(msg) == (IF Definitions(msg.tag) # << >> THEN << <<"bug", msg.tag, Definitions(msg.tag)[1][2]>> >>
                    ELSE << >>)
                   \o (IF msg.tag \in Apps THEN << <<"app", msg.tag>> >> ELSE << >>)

HasMetadata(msg) == msg.meta # << >> /\ Last(msg.meta)[1] = "bug"

ToDmesg(l) == config.dmesg /\ l.auditInitialized
AuditLogs == {log \in {"events", "main"} : config[log]}

\* The metadata that is logged with msg; it is a static of logPrint()
Metadata(l, msg) == IF ToDmesg(l) \/ (AuditLogs # {} /\ ~HasMetadata(msg)) THEN AuditParse(msg) ELSE l.metadata

\* [logd, kernel, logged, rc]
LogPrint(l, k, lg, msg) ==
    LET meta == Metadata(l, msg)
        entries == SetToSeq({[id |-> msg.id, by |-> log, tag |-> msg.tag, meta |-> msg.meta \o meta] : log \in AuditLogs})
    IN  [logd |-> [l EXCEPT !.metadata = meta],
         kernel |-> IF ToDmesg(l) THEN Printed(k, [msg EXCEPT !.meta = @ \o meta]) ELSE k,
         logged |-> IF Refused("auditd") THEN lg ELSE lg \o entries,
         rc |-> IF AuditLogs # {} /\ Refused("auditd") THEN -1 ELSE 0]

\* LogAudit::log(): only lines with " audit("
AuditLog(x, msg) == IF msg.kind = "audit" THEN LogPrint(x.logd, x.kernel, x.logged, msg) ELSE [x EXCEPT !.rc = 0]

-----------------------------------------------------------------------------
(***************************************************************************)
(* LogKlog                                                                  *)
(***************************************************************************)
\* The constructor: the marker of this start
KlogMade ==
    /\ logd.pc = "klog"
    /\ \/ ~config.klogd /\ logd' = [logd EXCEPT !.pc = "read"] /\ UNCHANGED kernel
       \/ /\ config.klogd
          /\ kernel' = Printed(kernel, Msg("marker", logd.start, "klogd", << >>))
          /\ logd' = [logd EXCEPT !.kl = "made", !.auditd = logd.al # "none", !.pc = "read"]
    /\ UNCHANGED <<config, logged, count>>

Dropped(l, msg) == l.auditd /\ msg.kind = "audit"

\* What the marker of this start does: stop before the listener starts, and log from then on
Enables(l) == l.klogInitialized

OwnMarker_Any(l, msg) == TRUE
OwnMarker(l, msg) == msg.id = l.start

KlogLog(x, msg) ==
    CASE Dropped(x.logd, msg) -> [x EXCEPT !.rc = 0]
      [] ~Dropped(x.logd, msg) /\ msg.kind = "marker" ->
            IF OwnMarker(x.logd, msg) THEN [x EXCEPT !.logd.enableLogging = Enables(x.logd), !.rc = -1]
            ELSE [x EXCEPT !.rc = 0]
      [] ~Dropped(x.logd, msg) /\ msg.kind # "marker" ->
            IF ~x.logd.enableLogging THEN [x EXCEPT !.rc = 0]
            ELSE IF Refused(msg.tag) THEN [x EXCEPT !.rc = -1]
            ELSE [x EXCEPT !.logged = Append(@, [id |-> msg.id, by |-> "kernel", tag |-> msg.tag, meta |-> msg.meta]), !.rc = 0]

\* readDmesg(): take all of the ring
ReadDmesg ==
    /\ logd.pc = "read"
    /\ LET there == SubSeq(kernel.ring, kernel.gone + 1, Len(kernel.ring))
           none == (logd.al = "none" /\ logd.kl = "none") \/ there = << >>
       IN  logd' = [logd EXCEPT !.pc = IF none THEN "listen" ELSE "dmesg", !.from = kernel.gone + 1,
                                !.tokens = IF none THEN << >> ELSE there]
    /\ UNCHANGED <<config, kernel, logged, count>>

\* ... and give each line to both, until one of them returns an error
Dmesg ==
    /\ logd.pc = "dmesg"
    /\ \/ logd.tokens = << >> /\ logd' = [logd EXCEPT !.pc = "listen"] /\ UNCHANGED <<kernel, logged>>
       \/ /\ logd.tokens # << >>
          /\ LET x0 == [logd |-> [logd EXCEPT !.tokens = Tail(@)], kernel |-> kernel, logged |-> logged, rc |-> 0]
                 x1 == IF logd.al = "made" THEN AuditLog(x0, Head(logd.tokens)) ELSE x0
                 x2 == IF logd.kl = "made" THEN KlogLog(x1, Head(logd.tokens)) ELSE x1
             IN  /\ logd' = [x2.logd EXCEPT !.pc = IF x2.rc < 0 THEN "listen" ELSE @]
                 /\ kernel' = x2.kernel /\ logged' = x2.logged
    /\ UNCHANGED <<config, count>>

\* startListener() of both; that of an audit daemon without a socket fails
Listen ==
    /\ logd.pc = "listen"
    /\ logd' = [logd EXCEPT !.pc = "run", !.tokens = << >>, !.kl = IF @ = "made" THEN "on" ELSE @,
                            !.al = IF @ = "none" \/ ~logd.socket THEN "none" ELSE "on"]
    /\ UNCHANGED <<config, kernel, logged, count>>

\* LogKlog::onDataAvailable(), of a line: the first call of all turns logging off
KlogInitialized(l) == [l EXCEPT !.klogInitialized = TRUE,
                                !.enableLogging = IF l.klogInitialized THEN @ ELSE FALSE]
KlogData ==
    /\ logd.pc = "run" /\ logd.kl = "on"
    /\ LET at == IF kernel.kmsg <= kernel.gone THEN kernel.gone + 1 ELSE kernel.kmsg
           x == KlogLog([logd |-> KlogInitialized(logd), kernel |-> [kernel EXCEPT !.kmsg = at + 1],
                         logged |-> logged, rc |-> 0], kernel.ring[at])
       IN  /\ at <= Len(kernel.ring)
           /\ logd' = x.logd /\ kernel' = x.kernel /\ logged' = x.logged
    /\ UNCHANGED <<config, count>>

\* LogAudit::onDataAvailable()
AuditData ==
    /\ logd.pc = "run" /\ logd.al = "on" /\ kernel.netlink # << >>
    /\ LET x == LogPrint([logd EXCEPT !.auditInitialized = TRUE], [kernel EXCEPT !.netlink = Tail(@)], logged,
                         Head(kernel.netlink))
       IN  logd' = x.logd /\ kernel' = x.kernel /\ logged' = x.logged
    /\ UNCHANGED <<config, count>>

\* The process dies: the socket is closed, which the kernel notices.
Crash ==
    /\ logd.pc # "off" /\ logd.start < MaxStarts
    /\ logd' = [Off EXCEPT !.start = logd.start] /\ logged' = << >>
    /\ kernel' = [kernel EXCEPT !.auditd = FALSE, !.netlink = << >>, !.ack = FALSE]
    /\ UNCHANGED <<config, count>>

Next == \/ KernelText \/ KernelDenial \/ KernelAck \/ Crash
        \/ Start \/ AuditSend \/ GetAck \/ GetReply \/ AuditMade \/ KlogMade
        \/ ReadDmesg \/ Dmesg \/ Listen \/ KlogData \/ AuditData
Spec == Init /\ [][Next]_vars

-----------------------------------------------------------------------------
(* readDmesg() and the two listeners share what the kernel has to say: no     *)
(* line and no denial is logged twice in one log, also after a restart, when *)
(* the ring holds what the last logd read and what it wrote there.           *)
LoggedOnce ==
    \A i, j \in DOMAIN logged :
       (i < j /\ logged[i].id = logged[j].id /\ logged[i].id >= 0) =>
           {logged[i].by, logged[j].by} = {"events", "main"}

Marker == {i \in DOMAIN kernel.ring : kernel.ring[i].kind = "marker" /\ kernel.ring[i].id = logd.start}
LoggedIds == {logged[i].id : i \in DOMAIN logged}

(* readDmesg() ends at the first line that is not loggable: what the ring     *)
(* held between that line and the marker of this start is lost.              *)
CutOff(i) ==
    /\ \E m \in Marker : i < m
    /\ \E j \in logd.from .. i - 1 :
          /\ kernel.ring[j].kind # "marker" /\ Refused(kernel.ring[j].tag)
          /\ ~Dropped(logd, kernel.ring[j])

(* The marker: what was in the ring when logd started, up to where           *)
(* readDmesg() ended, and what the listener has read since the marker, is     *)
(* logged, with no gap between the two, as long as the kernel overwrote       *)
(* nothing of it.                                                            *)
NothingLost ==
    (logd.pc = "run" /\ logd.kl = "on" /\ kernel.gone < logd.from) =>
        \A i \in logd.from .. Len(kernel.ring) :
           /\ i < kernel.kmsg \/ \E m \in Marker : i < m
           /\ kernel.ring[i].kind = "text" /\ ~Refused(kernel.ring[i].tag) /\ ~CutOff(i)
           => kernel.ring[i].id \in LoggedIds

(* What the kernel sent to this audit daemon and the daemon has read is      *)
(* logged: all of it, or all but the message that audit_setup() takes for    *)
(* the kernel's answer.                                                      *)
Unlogged == IF logd.pc = "run" /\ logd.al = "on" /\ AuditLogs # {} /\ ~Refused("auditd")
            THEN logd.sent \ (LoggedIds \cup {kernel.netlink[i].id : i \in DOMAIN kernel.netlink})
            ELSE {}
AtMostOneDenialLost == Cardinality(Unlogged) <= 1

(* A denial that came from the kernel, and not from the ring with what an      *)
(* earlier logd had written behind it.                                       *)
CameBare(id) ==
    id \in logd.sent \/ \A i \in DOMAIN kernel.ring : kernel.ring[i].id = id => kernel.ring[i].meta = << >>

(* A denial that came without metadata is logged with that of its own         *)
(* contexts and class, once.                                                 *)
MetadataIsOwn ==
    \A i \in DOMAIN logged : logged[i].by # "kernel" /\ CameBare(logged[i].id) =>
        \A j, k \in DOMAIN logged[i].meta :
           /\ logged[i].meta[j][2] = logged[i].tag
           /\ j # k => logged[i].meta[j] # logged[i].meta[k]

=============================================================================
