------------------------------ MODULE LogBuffer ------------------------------
(***************************************************************************)
(* What logd promises of a LogBuffer (logd/LogBuffer.h), without chunks,    *)
(* compression, positions or threads: every log is a queue of entries, new  *)
(* ones come in at the end, only the oldest are pruned, clearing a uid      *)
(* removes exactly that uid's entries, and a reader is sent entries of the  *)
(* logs one at a time, never going back.                                    *)
(***************************************************************************)
EXTENDS Naturals, Sequences

CONSTANTS LogIds, Readers, Entries

VARIABLES
    log,       \* the entries of every log, oldest first
    clearing,  \* the <<log id, uid>> being cleared, if any
    taken,     \* the sequence number of the entry a reader is being sent, or 0
    sent       \* the sequence numbers every reader was sent

logVars == <<log, clearing, taken, sent>>

DropOldest(entries, n) == SubSeq(entries, n + 1, Len(entries))

Without(entries, k) == SubSeq(entries, 1, k - 1) \o SubSeq(entries, k + 1, Len(entries))

LogInit ==
    /\ log = [i \in LogIds |-> << >>]
    /\ clearing = {}
    /\ taken = [r \in Readers |-> 0]
    /\ sent = [r \in Readers |-> << >>]

\* A new entry comes in; older ones may have to go for it, but it stays.
Append_(i) ==
    /\ clearing = {}
    /\ \E entry \in Entries, n \in 0 .. Len(log[i]) :
          log' = [log EXCEPT ![i] = Append(DropOldest(@, n), entry)]
    /\ UNCHANGED <<clearing, taken, sent>>

Prune(i) ==
    /\ clearing = {}
    /\ \E n \in 1 .. Len(log[i]) : log' = [log EXCEPT ![i] = DropOldest(@, n)]
    /\ UNCHANGED <<clearing, taken, sent>>

BeginClear(i) ==
    /\ clearing = {}
    /\ \E uid \in {entry.uid : entry \in Entries} \ {0} : clearing' = {<<i, uid>>}
    /\ UNCHANGED <<log, taken, sent>>

ClearEntryOf(i, uid) ==
    /\ \E k \in 1 .. Len(log[i]) : /\ log[i][k].uid = uid
                                   /\ log' = [log EXCEPT ![i] = Without(@, k)]
    /\ UNCHANGED <<clearing, taken, sent>>

EndClear(i, uid) ==
    /\ \A k \in 1 .. Len(log[i]) : log[i][k].uid # uid
    /\ clearing' = {}
    /\ UNCHANGED <<log, taken, sent>>

\* A reader copies an entry that is in a log, not older than what it was sent.
Take(r) ==
    /\ clearing = {}
    /\ taken[r] = 0
    /\ \E i \in LogIds : \E k \in 1 .. Len(log[i]) :
          /\ \A m \in 1 .. Len(sent[r]) : sent[r][m] <= log[i][k].sequence
          /\ taken' = [taken EXCEPT ![r] = log[i][k].sequence]
    /\ UNCHANGED <<log, clearing, sent>>

Send(r) ==
    /\ taken[r] # 0
    /\ sent' = [sent EXCEPT ![r] = Append(@, taken[r])]
    /\ taken' = [taken EXCEPT ![r] = 0]
    /\ UNCHANGED <<log, clearing>>

GiveUp(r) ==
    /\ taken[r] # 0
    /\ taken' = [taken EXCEPT ![r] = 0]
    /\ UNCHANGED <<log, clearing, sent>>

LogNext ==
    \/ \E i \in LogIds : Append_(i) \/ Prune(i) \/ BeginClear(i)
    \/ \E cl \in clearing : ClearEntryOf(cl[1], cl[2]) \/ EndClear(cl[1], cl[2])
    \/ \E r \in Readers : Take(r) \/ Send(r) \/ GiveUp(r)

LogSpec == LogInit /\ [][LogNext]_logVars
=============================================================================
