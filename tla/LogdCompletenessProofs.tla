------------------------ MODULE LogdCompletenessProofs ------------------------
(***************************************************************************)
(* What a client receives is complete. As long as the entries of one log   *)
(* are logged in the order of their sequence numbers, no wakeup is lost,   *)
(* and a thread that waits has sent all that its client asked for, but     *)
(* for what was logged below its start; nor has what it sends a gap but    *)
(* for that. With one writer, and nothing but new entries to wake the      *)
(* threads, there is none at all. This holds of any number of clients and  *)
(* logs, through pruning, clearing, resizing and released readers.         *)
(***************************************************************************)
EXTENDS LogdOrderProofs

-----------------------------------------------------------------------------
(***************************************************************************)
(* What writers and commands leave of the positions                         *)
(***************************************************************************)

\* A position of s is kept, or taken away by NotifyReadersOfPrune().
KeepsPositions(s) ==
    /\ state'[s].start = state[s].start /\ state'[s].log_mask = state[s].log_mask
    /\ state[s].logs_needed \subseteq state'[s].logs_needed
    /\ \A i \in DOMAIN state'[s].log_positions :
          /\ i \in DOMAIN state[s].log_positions
          /\ state'[s].log_positions[i] = state[s].log_positions[i]
    /\ \A i \in DOMAIN state[s].log_positions :
          i \in DOMAIN state'[s].log_positions \/ i \in state'[s].logs_needed

LEMMA NotifiedKeepPositions ==
    ASSUME Parts, NEW i \in LogIds, NEW heap, NEW ids, state' = NotifyReadersOfPrune(i, heap, ids)
    PROVE  DOMAIN state' = DOMAIN state /\ \A s \in DOMAIN state : KeepsPositions(s)
  <1>1. DOMAIN state' = DOMAIN state
    BY DEF NotifyReadersOfPrune
  <1>2. ASSUME NEW s \in DOMAIN state PROVE KeepsPositions(s)
    <2>1. IsState(state[s])
      BY DEF Parts, StatesOK
    <2>2. state'[s] = state[s] \/ state'[s] = PruneState(state[s], i)
      BY DEF NotifyReadersOfPrune
    <2>3. /\ PruneState(state[s], i).start = state[s].start
          /\ PruneState(state[s], i).log_mask = state[s].log_mask
      BY <2>1 DEF PruneState, ResetPosition, IsState, FlushToState
    <2>4. CASE state'[s] = state[s]
      BY <2>4 DEF KeepsPositions
    <2>5. CASE state'[s] = PruneState(state[s], i)
      BY <2>1, <2>3, <2>5, PruneStateType DEF KeepsPositions
    <2> QED BY <2>2, <2>4, <2>5
  <1> QED BY <1>1, <1>2

LEMMA BufferNextPositions ==
    ASSUME Parts, BufferNext
    PROVE  DOMAIN state' = DOMAIN state /\ \A s \in DOMAIN state : KeepsPositions(s)
  <1>1. ASSUME NEW w, TakeSequence(w) PROVE state' = state
    BY <1>1 DEF TakeSequence
  <1>2. ASSUME NEW w, Log(w)
        PROVE  \E i \in LogIds : \E heap, ids : state' = NotifyReadersOfPrune(i, heap, ids)
    <2>1. PICK i, entry, zsize, logged, n : LogsEntry(w, i, entry, zsize, logged, n)
      BY <1>2, LogCases
    <2>2. i \in LogIds
      BY <2>1 DEF LogsEntry, Parts, WritersOK
    <2> QED BY <2>1, <2>2, Zenon DEF LogsEntry
  <1>3. ASSUME NEW i \in LogIds, ClearAll(i)
        PROVE  \E j \in LogIds : \E heap, ids : state' = NotifyReadersOfPrune(j, heap, ids)
    BY <1>3, Zenon DEF ClearAll
  <1>4. ASSUME NEW i \in LogIds, NEW size, SetSize(i, size)
        PROVE  \E j \in LogIds : \E heap, ids : state' = NotifyReadersOfPrune(j, heap, ids)
    BY <1>4, Zenon DEF SetSize
  <1>5. ASSUME NEW i, NEW uid, UidClear(i, uid) PROVE state' = state
    BY <1>5 DEF UidClear
  <1>6. ASSUME ReinitTrigger PROVE state' = state
    BY <1>6 DEF ReinitTrigger
  <1>7. ASSUME ClearStep
        PROVE  \/ state' = state
               \/ \E j \in LogIds : \E heap, ids : state' = NotifyReadersOfPrune(j, heap, ids)
    <2>1. CASE ClearSpliceChunk
      <3>1. clear.log_id \in LogIds
        BY <2>1 DEF ClearSpliceChunk, Clearing, Parts, ClearIsConsistent
      <3> QED BY <2>1, <3>1, Zenon DEF ClearSpliceChunk
    <2>2. CASE ClearOpenChunk
      <3>1. clear.log_id \in LogIds
        BY <2>2, Zenon DEF ClearOpenChunk, Clearing, Parts, ClearIsConsistent
      <3> QED BY <2>2, <3>1, Zenon DEF ClearOpenChunk
    <2>3. CASE ClearEntry \/ ClearEraseChunk \/ ClearSwap
      BY <2>3, Zenon DEF ClearEntry, ClearEraseChunk, ClearSwap
    <2> QED BY <1>7, <2>1, <2>2, <2>3 DEF ClearStep
  <1>8. \/ state' = state
        \/ \E i \in LogIds : \E heap, ids : state' = NotifyReadersOfPrune(i, heap, ids)
    BY <1>1, <1>2, <1>3, <1>4, <1>5, <1>6, <1>7 DEF BufferNext
  <1>9. CASE state' = state
    BY <1>9 DEF KeepsPositions
  <1> QED BY <1>8, <1>9, NotifiedKeepPositions

\* What a state has read after it, it had read before.
LEMMA ReadStill ==
    ASSUME Parts, NEW s \in DOMAIN state, KeepsPositions(s), NEW i, i \in LogIds => NothingBehind(i),
           NEW e, HasRead(s, i, e)'
    PROVE  HasRead(s, i, e)
  <1>1. PICK pos : pos = state[s].log_positions[i]
    OBVIOUS
  <1>2. /\ i \in DOMAIN state[s].log_positions /\ state'[s].log_positions[i] = pos /\ i \in LogIds
    BY <1>1 DEF HasRead, KeepsPositions, Parts, StatesOK, IsState
  <1>3. /\ pos.buffer_it \in Elements(logs[i]) /\ pos.buffer_it \in DOMAIN chunk
        /\ pos.read_offset <= Len(chunk[pos.buffer_it].entries)
    BY <1>1, <1>2 DEF Parts, PositionsAreValid
  <1>4. pos \in Position
    BY <1>1, <1>2 DEF Parts, StatesOK, IsState, FlushToState
  <1>5. PICK c \in Elements(logs'[i]) : \E k \in 1 .. Len(chunk'[c].entries) :
             e = chunk'[c].entries[k] /\ HasPassed(pos, logs'[i], c, k)
    BY <1>2 DEF HasRead, HasPassed, Precedes
  <1>6. PICK k \in 1 .. Len(chunk'[c].entries) :
             e = chunk'[c].entries[k] /\ HasPassed(pos, logs'[i], c, k)
    BY <1>5
  <1>7. CASE /\ c \in Elements(logs[i]) /\ k \in 1 .. Len(chunk[c].entries)
             /\ chunk'[c].entries[k] = chunk[c].entries[k]
             /\ Precedes(logs'[i], c, pos.buffer_it) => Precedes(logs[i], c, pos.buffer_it)
    <2>1. HasPassed(pos, logs[i], c, k)
      BY <1>6, <1>7 DEF HasPassed
    <2> QED BY <1>1, <1>2, <1>6, <1>7, <2>1 DEF HasRead
  <1>8. CASE /\ ~Precedes(logs'[i], c, pos.buffer_it)
             /\ c \in Elements(logs[i]) => k > Len(chunk[c].entries)
    <2>1. c = pos.buffer_it /\ k <= pos.read_offset
      BY <1>6, <1>8 DEF HasPassed
    <2>2. Len(chunk[c].entries) \in Nat /\ pos.read_offset \in Nat
      BY <1>3, <1>4, <2>1, LenProperties DEF Parts, IsHeap, Chunk, Position
    <2>3. k > Len(chunk[c].entries) /\ pos.read_offset <= Len(chunk[c].entries)
      BY <1>3, <1>8, <2>1
    <2>4. k \in Nat
      BY <1>6
    <2> QED BY <2>1, <2>2, <2>3, <2>4
  <1> QED BY <1>2, <1>3, <1>6, <1>7, <1>8 DEF NothingBehind

\* While the logs rest, a state whose positions stay has read what it had.
LEMMA ReadTheSame ==
    ASSUME Parts, LogsRest, NEW s,
           state'[s].log_positions = state[s].log_positions, NEW i \in LogIds
    PROVE  \A e : HasRead(s, i, e)' <=> HasRead(s, i, e)
  <1>1. \A c \in Elements(logs[i]) : chunk'[c].entries = chunk[c].entries
    BY DEF LogsRest, AreAlike, IsAlike, HoldsTheSame, Parts, ListsAreDisjoint
  <1>2. logs' = logs
    BY DEF LogsRest
  <1> QED BY <1>1, <1>2 DEF HasRead, HasPassed, Precedes

-----------------------------------------------------------------------------
(***************************************************************************)
(* What CheckForNewLogs() passes over                                       *)
(***************************************************************************)

\* Between a chunk and the next there is none.
LEMMA PrecedesNone ==
    ASSUME NEW S, NEW list \in Seq(S), Distinct(list), NEW k \in 1 .. Len(list) - 1,
           NEW c, Precedes(list, c, list[k + 1])
    PROVE  c = list[k] \/ Precedes(list, c, list[k])
  <1>1. Len(list) \in Nat
    BY LenProperties
  <1>2. PICK a, b \in 1 .. Len(list) : a < b /\ list[a] = c /\ list[b] = list[k + 1]
    BY DEF Precedes
  <1>3. k \in 1 .. Len(list) /\ k + 1 \in 1 .. Len(list)
    BY <1>1
  <1>4. b = k + 1
    BY <1>2, <1>3 DEF Distinct
  <1>5. a = k \/ a < k
    BY <1>1, <1>2, <1>4
  <1> QED BY <1>2, <1>3, <1>5 DEF Precedes

\* What is known of a chunk in a log, and of its entries
LEMMA ChunkInLog ==
    ASSUME Parts, NEW i \in LogIds, NEW c \in Elements(logs[i])
    PROVE  /\ c \in DOMAIN chunk /\ chunk[c] \in Chunk
           /\ chunk[c].entries \in Seq(Entry) /\ Len(chunk[c].entries) \in Nat
           /\ chunk[c].highest_sequence_number \in Nat
           /\ \A k \in 1 .. Len(chunk[c].entries) : chunk[c].entries[k].sequence \in Nat
  <1>1. c \in DOMAIN chunk /\ chunk[c] \in Chunk
    BY DEF Parts, ListsAreDisjoint, IsHeap
  <1>2. chunk[c].entries \in Seq(Entry) /\ chunk[c].highest_sequence_number \in Nat
    BY <1>1 DEF Chunk
  <1>3. \A k \in 1 .. Len(chunk[c].entries) : chunk[c].entries[k] \in Entry
    BY <1>2, ElementOfSeq
  <1>4. \A k \in 1 .. Len(chunk[c].entries) : chunk[c].entries[k].sequence \in Nat
    BY <1>3 DEF Entry
  <1> QED BY <1>1, <1>2, <1>4, LenProperties

\* The position that CreateLogPosition() finds is behind no entry that is not below start.
LEMMA FoundBelowStart ==
    ASSUME Parts, SortedInv, NEW i \in LogIds, NEW start \in Nat, NEW pos \in Position,
           NEW k \in 1 .. Len(logs[i]), pos.buffer_it = logs[i][k],
           IsStartChunk(k, start, logs[i], chunk),
           IsStartOffset(pos.read_offset, start, chunk[logs[i][k]].entries),
           NEW c \in Elements(logs[i]), NEW m \in 1 .. Len(chunk[c].entries),
           HasPassed(pos, logs[i], c, m)
    PROVE  chunk[c].entries[m].sequence < start
  <1>1. CASE c = pos.buffer_it /\ m <= pos.read_offset
    <2>1. m \in 1 .. pos.read_offset
      BY <1>1 DEF Position
    <2> QED BY <1>1, <2>1 DEF IsStartOffset
  <1>2. CASE Precedes(logs[i], c, logs[i][k])
    <2>1. logs[i] \in Seq(ChunkIds) /\ Len(logs[i]) \in Nat /\ Distinct(logs[i])
      BY LenProperties DEF Parts, LogsOK, ListsAreDisjoint
    <2>2. PICK a, b \in 1 .. Len(logs[i]) : a < b /\ logs[i][a] = c /\ logs[i][b] = logs[i][k]
      BY <1>2 DEF Precedes
    <2>3. a \in 1 .. k - 1
      BY <2>1, <2>2 DEF Distinct
    <2>4. start > chunk[c].highest_sequence_number
      BY <2>2, <2>3 DEF IsStartChunk
    <2>5. chunk[c].entries[m].sequence <= chunk[c].highest_sequence_number
      BY DEF SortedInv, Sorted, IsAscending
    <2>6. chunk[c].entries[m].sequence \in Nat /\ chunk[c].highest_sequence_number \in Nat
      BY ChunkInLog
    <2>7. \A x, y, z \in Nat : x <= y /\ z > y => x < z
      OBVIOUS
    <2> QED BY <2>4, <2>5, <2>6, <2>7, Zenon
  <1> QED BY <1>1, <1>2 DEF HasPassed

\* UpdateLogsNeeded() passes over nothing, and needs a new position only at the very end.
LEMMA ReachesReads ==
    ASSUME Parts, SortedInv, LogsRest, ~Clearing, NEW s \in DOMAIN state, NEW i \in LogIds,
           NEW pos, NEW new, IsFrom(s, i, pos), Reaches(s, i, pos, new)
    PROVE  /\ \A j \in LogIds : j # i => \A e : HasRead(s, j, e)' <=> HasRead(s, j, e)
           /\ \A e : HasRead(s, i, e)' => HasRead(s, i, e) \/ e.sequence < state[s].start
           /\ i \in new.logs_needed => HasReadAll(s, i)'
  <1> DEFINE list == logs[i]
  <1>1. /\ list \in Seq(ChunkIds) /\ Len(list) \in Nat /\ Distinct(list)
        /\ Sorted(list, chunk)
    BY LenProperties DEF Parts, LogsOK, ListsAreDisjoint, SortedInv
  <1>2. \A j \in LogIds : \A c \in Elements(logs[j]) : chunk'[c].entries = chunk[c].entries
    BY DEF LogsRest, AreAlike, IsAlike, HoldsTheSame, Parts, ListsAreDisjoint
  <1>3. logs' = logs /\ state'[s] = new /\ ~Clearing'
    BY DEF LogsRest, Reaches
  <1>4. /\ pos \in Position /\ pos.buffer_it \in Elements(list)
        /\ pos.read_offset \in Nat
    BY DEF IsFrom, Position
  <1>5. PICK np : np = new.log_positions[i]
    OBVIOUS
  <1>6. /\ DOMAIN new.log_positions = (DOMAIN state[s].log_positions) \cup {i}
        /\ \A j \in (DOMAIN state[s].log_positions) \ {i} :
              new.log_positions[j] = state[s].log_positions[j]
    BY DEF Reaches
  <1>7. \/ /\ np = pos
           /\ i \in new.logs_needed => /\ ~MoreInChunk(pos, chunk)
                                       /\ pos.buffer_it = list[Len(list)]
        \/ \E k \in 1 .. Len(list) - 1 :
             /\ ~MoreInChunk(pos, chunk)
             /\ pos.buffer_it = list[k]
             /\ np.buffer_it = list[k + 1] /\ np.read_offset = 0
             /\ i \in new.logs_needed => Len(chunk[list[k + 1]].entries) <= 0
    BY <1>5 DEF Reaches
  <1> HIDE DEF list
  <1>8. ASSUME NEW c \in Elements(list), NEW m \in 1 .. Len(chunk[c].entries),
               HasPassed(np, list, c, m)
        PROVE  HasPassed(pos, list, c, m)
    <2>1. CASE np = pos
      BY <1>8, <2>1
    <2>2. ASSUME NEW k \in 1 .. Len(list) - 1, ~MoreInChunk(pos, chunk), pos.buffer_it = list[k],
                 np.buffer_it = list[k + 1], np.read_offset = 0
          PROVE  HasPassed(pos, list, c, m)
      <3>1. Precedes(list, c, list[k + 1])
        BY <1>8, <2>2 DEF HasPassed
      <3>2. c = list[k] \/ Precedes(list, c, list[k])
        BY <1>1, <3>1, PrecedesNone
      <3>3. Len(chunk[c].entries) \in Nat
        BY ChunkInLog DEF list
      <3>4. c = list[k] => m <= pos.read_offset
        BY <1>4, <2>2, <3>3 DEF MoreInChunk
      <3> QED BY <2>2, <3>2, <3>4 DEF HasPassed
    <2> QED BY <1>7, <2>1, <2>2
  <1>9. ASSUME NEW j \in LogIds, j # i, NEW e
        PROVE  HasRead(s, j, e)' <=> HasRead(s, j, e)
    <2>1. j \in DOMAIN state'[s].log_positions <=> j \in DOMAIN state[s].log_positions
      BY <1>3, <1>6, <1>9
    <2>2. CASE j \notin DOMAIN state[s].log_positions
      BY <2>1, <2>2 DEF HasRead
    <2>3. CASE j \in DOMAIN state[s].log_positions
      <3>1. PICK p, of : p = state[s].log_positions[j] /\ of = logs[j]
        OBVIOUS
      <3>2. state'[s].log_positions[j] = p /\ logs'[j] = of
        BY <1>3, <1>6, <1>9, <2>3, <3>1
      <3>3. \A c \in Elements(of) : chunk'[c].entries = chunk[c].entries
        BY <1>2, <3>1
      <3>4. HasRead(s, j, e) <=> \E c \in Elements(of) : \E k \in 1 .. Len(chunk[c].entries) :
               e = chunk[c].entries[k] /\ HasPassed(p, of, c, k)
        BY <2>3, <3>1 DEF HasRead
      <3>5. HasRead(s, j, e)' <=> \E c \in Elements(of) : \E k \in 1 .. Len(chunk'[c].entries) :
               e = chunk'[c].entries[k] /\ HasPassed(p, of, c, k)
        BY <2>1, <2>3, <3>2 DEF HasRead, HasPassed, Precedes
      <3> QED BY <3>3, <3>4, <3>5
    <2> QED BY <2>2, <2>3
  <1>10. ASSUME NEW e, HasRead(s, i, e)'
         PROVE  HasRead(s, i, e) \/ e.sequence < state[s].start
    <2>1. PICK c \in Elements(list) : \E m \in 1 .. Len(chunk[c].entries) :
             e = chunk[c].entries[m] /\ HasPassed(np, list, c, m)
      BY <1>2, <1>3, <1>5, <1>10 DEF HasRead, HasPassed, Precedes, list
    <2>2. PICK m \in 1 .. Len(chunk[c].entries) : e = chunk[c].entries[m] /\ HasPassed(np, list, c, m)
      BY <2>1
    <2>3. HasPassed(pos, list, c, m)
      BY <1>8, <2>2
    <2>4. CASE i \in DOMAIN state[s].log_positions /\ pos = state[s].log_positions[i]
      BY <2>2, <2>3, <2>4 DEF HasRead, list
    <2>5. ASSUME NEW k \in 1 .. Len(list), pos.buffer_it = list[k],
                 IsStartChunk(k, state[s].start, list, chunk),
                 IsStartOffset(pos.read_offset, state[s].start, chunk[list[k]].entries)
          PROVE  e.sequence < state[s].start
      <3>1. state[s].start \in Nat
        BY DEF Parts, StatesOK, IsState, FlushToState
      <3> QED BY <1>4, <2>2, <2>3, <2>5, <3>1, FoundBelowStart DEF list
    <2> QED BY <2>4, <2>5 DEF IsFrom, list
  <1>11. ASSUME i \in new.logs_needed
         PROVE  HasReadAll(s, i)'
    <2>1. PICK last : last = list[Len(list)]
      OBVIOUS
    <2>2. /\ \A c \in Elements(list) : c = last \/ Precedes(list, c, last)
          /\ \A c : ~Precedes(list, last, c)
      BY <1>1, <2>1, PrecedesIsOrder
    <2>3. /\ np.buffer_it = last
          /\ \A m \in 1 .. Len(chunk[last].entries) : m <= np.read_offset
      <3>1. CASE np = pos /\ ~MoreInChunk(pos, chunk) /\ pos.buffer_it = list[Len(list)]
        <4>1. Len(chunk[last].entries) \in Nat
          BY <1>4, <2>1, <3>1, ChunkInLog DEF list
        <4> QED BY <1>4, <2>1, <3>1, <4>1 DEF MoreInChunk
      <3>2. ASSUME NEW k \in 1 .. Len(list) - 1, np.buffer_it = list[k + 1],
                   Len(chunk[list[k + 1]].entries) <= 0
            PROVE  /\ np.buffer_it = last
                   /\ \A m \in 1 .. Len(chunk[last].entries) : m <= np.read_offset
        <4>1. PICK c : c = list[k + 1]
          OBVIOUS
        <4>2. c \in Elements(list)
          BY <1>1, <4>1 DEF Elements
        <4>3. Len(chunk[c].entries) = 0 /\ chunk[c].entries \in Seq(Entry)
          BY <3>2, <4>1, <4>2, ChunkInLog DEF list
        <4>4. chunk[c].entries = << >>
          BY <4>3, EmptySeq
        <4>5. ~Precedes(list, c, last)
          BY <1>1, <4>4 DEF Sorted
        <4>6. c = last
          BY <2>2, <4>2, <4>5
        <4> QED BY <3>2, <4>1, <4>3, <4>6
      <3> QED BY <1>7, <1>11, <3>1, <3>2
    <2>4. ASSUME NEW e, IsHeld(i, e)'
          PROVE  HasRead(s, i, e)'
      <3>1. PICK c \in Elements(list) : \E m \in 1 .. Len(chunk[c].entries) : e = chunk[c].entries[m]
        BY <1>2, <1>3, <2>4 DEF IsHeld, ChunksOf, list
      <3>2. PICK m \in 1 .. Len(chunk[c].entries) : e = chunk[c].entries[m]
        BY <3>1
      <3>3. HasPassed(np, list, c, m)
        BY <2>2, <2>3 DEF HasPassed
      <3>4. i \in DOMAIN state'[s].log_positions /\ state'[s].log_positions[i] = np
        BY <1>3, <1>5, <1>6
      <3>5. c \in Elements(logs'[i]) /\ m \in 1 .. Len(chunk'[c].entries) /\ e = chunk'[c].entries[m]
            /\ HasPassed(np, logs'[i], c, m)
        BY <1>2, <1>3, <3>2, <3>3 DEF list
      <3> QED BY <3>4, <3>5 DEF HasRead, HasPassed, Precedes
    <2> QED BY <2>4 DEF HasReadAll
  <1> QED BY <1>9, <1>10, <1>11

-----------------------------------------------------------------------------
(***************************************************************************)
(* What PopNextUnreadLog() comes to                                         *)
(***************************************************************************)

\* One entry of s is read: the next of log i, the lowest of those that come next.
Pops(s, i, entry) ==
    /\ i \in UnreadLogs(state[s])
    /\ entry = EntryAt(state[s].log_positions[i], chunk) /\ entry \in Entry
    /\ IsNextUnreadLog(state[s], i, chunk)
    /\ state' = [state EXCEPT ![s] = SetStart(PopNextUnreadLog(@, i), entry)]

\* Everything lower in the logs that have a next entry was read before.
LEMMA LowerIsRead ==
    ASSUME Parts, SortedInv, ~Clearing, NEW s \in DOMAIN state, NEW i, NEW entry, Pops(s, i, entry),
           NEW j \in UnreadLogs(state[s]), NEW e, IsHeld(j, e), e.sequence < entry.sequence
    PROVE  HasRead(s, j, e)
  <1>1. PICK pos : pos = state[s].log_positions[j]
    OBVIOUS
  <1>2. j \in DOMAIN state[s].log_positions /\ j \notin state[s].logs_needed /\ j \in LogIds
    BY DEF UnreadLogs, Parts, StatesOK, IsState
  <1>3. /\ pos.buffer_it \in Elements(logs[j])
        /\ pos.read_offset < Len(chunk[pos.buffer_it].entries)
    BY <1>1, <1>2 DEF Parts, PositionsAreValid
  <1>4. pos.read_offset \in Nat
    BY <1>1, <1>2 DEF Parts, StatesOK, IsState, FlushToState, Position
  <1>5. PICK d, n : d = pos.buffer_it /\ n = pos.read_offset + 1
    OBVIOUS
  <1>6. n \in 1 .. Len(chunk[d].entries) /\ d \in Elements(logs[j])
    <2>1. Len(chunk[d].entries) \in Nat
      BY <1>2, <1>3, <1>5, ChunkInLog
    <2> QED BY <1>3, <1>4, <1>5, <2>1
  <1>7. entry.sequence <= chunk[d].entries[n].sequence
    <2>1. entry.sequence <= EntryAt(state[s].log_positions[j], chunk).sequence
      BY Zenon DEF Pops, IsNextUnreadLog
    <2>2. EntryAt(pos, chunk) = chunk[d].entries[n]
      BY <1>5 DEF EntryAt
    <2> QED BY <1>1, <2>1, <2>2
  <1>8. PICK c \in Elements(logs[j]) : \E k \in 1 .. Len(chunk[c].entries) : e = chunk[c].entries[k]
    BY DEF IsHeld, ChunksOf
  <1>9. PICK k \in 1 .. Len(chunk[c].entries) : e = chunk[c].entries[k]
    BY <1>8
  <1>10. logs[j] \in Seq(ChunkIds) /\ Distinct(logs[j]) /\ Sorted(logs[j], chunk)
    BY <1>2 DEF Parts, LogsOK, ListsAreDisjoint, SortedInv
  <1>11. /\ e.sequence \in Nat /\ entry.sequence \in Nat
         /\ chunk[d].entries[n].sequence \in Nat /\ Len(chunk[c].entries) \in Nat
    BY <1>2, <1>6, <1>9, ChunkInLog DEF Pops, Entry
  <1>12. \A x, y, z \in Nat : x < y /\ y <= z => ~(z <= x)
    OBVIOUS
  <1>13. ~(chunk[d].entries[n].sequence <= chunk[c].entries[k].sequence)
    BY <1>7, <1>9, <1>11, <1>12, Zenon
  <1>14. ~Precedes(logs[j], d, c)
    <2> SUFFICES ASSUME Precedes(logs[j], d, c) PROVE FALSE
      OBVIOUS
    <2>1. chunk[d].entries[n].sequence < chunk[c].entries[k].sequence
      BY <1>6, <1>9, <1>10 DEF Sorted, IsBelow
    <2> QED BY <1>9, <1>11, <1>13, <2>1
  <1>15. CASE c = d
    <2>1. ~(n < k)
      <3> SUFFICES ASSUME n < k PROVE FALSE
        OBVIOUS
      <3>1. IsAscending(chunk[d])
        BY <1>6, <1>10 DEF Sorted
      <3>2. chunk[d].entries[n].sequence < chunk[c].entries[k].sequence
        BY <1>6, <1>9, <1>15, <3>1 DEF IsAscending
      <3> QED BY <1>9, <1>11, <1>13, <3>2
    <2>2. n # k
      BY <1>9, <1>11, <1>13, <1>15
    <2>3. k \in Nat
      BY <1>9
    <2>4. k <= pos.read_offset
      BY <1>4, <1>5, <2>1, <2>2, <2>3
    <2> QED BY <1>1, <1>2, <1>5, <1>9, <1>15, <2>4 DEF HasRead, HasPassed
  <1>16. CASE Precedes(logs[j], c, d)
    BY <1>1, <1>2, <1>5, <1>9, <1>16 DEF HasRead, HasPassed
  <1> QED BY <1>6, <1>10, <1>14, <1>15, <1>16, PrecedesIsOrder

LEMMA PopReads ==
    ASSUME Parts, ~Clearing, LogsRest, NEW s \in DOMAIN state, NEW i, NEW entry, Pops(s, i, entry)
    PROVE  /\ i \in LogIds /\ IsHeld(i, entry)
           /\ DOMAIN state' = DOMAIN state
           /\ \A p \in DOMAIN state : p # s => state'[p] = state[p]
           /\ entry.sequence \in Nat /\ state[s].start \in Nat
           /\ state'[s].start = IF entry.sequence < state[s].start THEN state[s].start
                                                                  ELSE entry.sequence
           /\ state'[s].log_mask = state[s].log_mask
           /\ state'[s].logs_needed = state[s].logs_needed \cup {i}
           /\ DOMAIN state'[s].log_positions = DOMAIN state[s].log_positions
           /\ \A j \in LogIds : \A e : HasRead(s, j, e)' => HasRead(s, j, e) \/ (j = i /\ e = entry)
  <1> DEFINE st == state[s]
             new == SetStart(PopNextUnreadLog(st, i), entry)
  <1>1. IsState(st)
    BY DEF Parts, StatesOK
  <1>2. i \in DOMAIN st.log_positions /\ i \in LogIds /\ i \notin st.logs_needed /\ entry \in Entry
    BY <1>1 DEF Pops, UnreadLogs, IsState
  <1>3. /\ DOMAIN new.log_positions = DOMAIN st.log_positions
        /\ new.logs_needed = st.logs_needed \cup {i}
        /\ new.log_positions[i].buffer_it = st.log_positions[i].buffer_it
        /\ new.log_positions[i].read_offset = st.log_positions[i].read_offset + 1
        /\ \A j \in (DOMAIN st.log_positions) \ {i} : new.log_positions[j] = st.log_positions[j]
    BY <1>1, <1>2, PopNextUnreadLogType
  <1>4. /\ new.start = IF entry.sequence < st.start THEN st.start ELSE entry.sequence
        /\ new.log_mask = st.log_mask
    BY <1>1 DEF SetStart, PopNextUnreadLog, IsState, FlushToState
  <1>5. /\ state'[s] = new /\ DOMAIN state' = DOMAIN state
        /\ \A p \in DOMAIN state : p # s => state'[p] = state[p]
    BY DEF Pops
  <1>6. entry.sequence \in Nat /\ st.start \in Nat
    BY <1>1, <1>2 DEF Entry, IsState, FlushToState
  <1> HIDE DEF new
  <1>15. PICK pos : pos = st.log_positions[i]
    OBVIOUS
  <1>16. PICK d, n : d = pos.buffer_it /\ n = pos.read_offset + 1
    OBVIOUS
  <1>7. pos = st.log_positions[i] /\ d = pos.buffer_it /\ n = pos.read_offset + 1
    BY <1>15, <1>16
  <1>8. /\ d \in Elements(logs[i]) /\ n \in 1 .. Len(chunk[d].entries)
        /\ pos.read_offset \in Nat
    <2>1. pos.buffer_it \in Elements(logs[i]) /\ pos.read_offset < Len(chunk[pos.buffer_it].entries)
      BY <1>2, <1>7 DEF Parts, PositionsAreValid
    <2>2. pos.read_offset \in Nat
      BY <1>1, <1>2, <1>7 DEF IsState, FlushToState, Position
    <2>3. Len(chunk[d].entries) \in Nat
      BY <1>2, <1>7, <2>1, ChunkInLog
    <2> QED BY <1>16, <2>1, <2>2, <2>3
  <1>9. entry = chunk[d].entries[n]
    <2>1. entry = EntryAt(pos, chunk)
      BY <1>15 DEF Pops
    <2> QED BY <1>16, <2>1 DEF EntryAt
  <1>10. IsHeld(i, entry)
    BY <1>8, <1>9 DEF IsHeld, ChunksOf
  <1>11. \A j \in LogIds : \A c \in Elements(logs[j]) : chunk'[c].entries = chunk[c].entries
    BY DEF LogsRest, AreAlike, IsAlike, HoldsTheSame, Parts, ListsAreDisjoint
  <1>12. logs' = logs
    BY DEF LogsRest
  <1>13. ASSUME NEW j \in LogIds, NEW e, HasRead(s, j, e)'
         PROVE  HasRead(s, j, e) \/ (j = i /\ e = entry)
    <2>1. CASE j # i
      BY <1>3, <1>5, <1>11, <1>12, <1>13, <2>1 DEF HasRead, HasPassed, Precedes
    <2>2. CASE j = i
      <3>1. PICK np : np = new.log_positions[i]
        OBVIOUS
      <3>2. PICK c \in Elements(logs[i]) : \E k \in 1 .. Len(chunk[c].entries) :
               e = chunk[c].entries[k] /\ HasPassed(np, logs[i], c, k)
        BY <1>5, <1>11, <1>12, <1>13, <2>2, <3>1 DEF HasRead, HasPassed, Precedes
      <3>3. PICK k \in 1 .. Len(chunk[c].entries) :
               e = chunk[c].entries[k] /\ HasPassed(np, logs[i], c, k)
        BY <3>2
      <3>4. np.buffer_it = d /\ np.read_offset = n
        BY <1>3, <1>7, <3>1
      <3>5. HasPassed(pos, logs[i], c, k) \/ (c = d /\ k = n)
        <4>1. k \in Nat /\ n \in Nat
          BY <1>8
        <4> QED BY <1>7, <1>8, <3>3, <3>4, <4>1 DEF HasPassed
      <3>6. CASE c = d /\ k = n
        BY <1>9, <2>2, <3>3, <3>6
      <3>7. CASE HasPassed(pos, logs[i], c, k)
        BY <1>2, <1>15, <2>2, <3>3, <3>7 DEF HasRead
      <3> QED BY <3>5, <3>6, <3>7
    <2> QED BY <2>1, <2>2
  <1> QED BY <1>2, <1>3, <1>4, <1>5, <1>6, <1>10, <1>13

\* One round of CheckForNewLogs() for s, at log i
ChecksLog(s, i) ==
    /\ s \in DOMAIN state /\ i \in LogIds /\ DOMAIN state' = DOMAIN state
    /\ \A p \in DOMAIN state : p # s => state'[p] = state[p]
    /\ state'[s].start = state[s].start /\ state'[s].log_mask = state[s].log_mask
    /\ DOMAIN state[s].log_positions \subseteq DOMAIN state'[s].log_positions
    /\ i \in DOMAIN state'[s].log_positions \/ state'[s] = state[s]
    /\ \A j : j # i => (j \in state'[s].logs_needed <=> j \in state[s].logs_needed)
    /\ \A j \in LogIds : \A e :
          HasRead(s, j, e)' => HasRead(s, j, e) \/ e.sequence < state[s].start
    /\ \A j \in LogIds : j # i /\ HasReadAll(s, j) => HasReadAll(s, j)'
    /\ i \in state'[s].logs_needed => HasReadAll(s, i)'

LEMMA CheckForNewLogsReads ==
    ASSUME Parts, SortedInv, NEW r \in Readers, CheckForNewLogs(r), LogsRest,
           NEW s, NEW i, s = Current(r), i = thread[r].log_id
    PROVE  ChecksLog(s, i)
  <1>2. /\ i \in LogIds /\ s \in DOMAIN state
        /\ \/ /\ state' = state
              /\ \/ i \notin state[s].logs_needed
                 \/ i \notin DOMAIN state[s].log_positions /\ logs[i] = << >>
           \/ \E pos, new : IsFrom(s, i, pos) /\ Reaches(s, i, pos, new)
    BY CheckForNewLogsReaches
  <1>3. ~Clearing /\ ~Clearing' /\ logs' = logs
    <2>1. logd_lock = {r}
      BY DEF CheckForNewLogs, Flushing
    <2> QED BY <2>1, NotClearing DEF LogsRest
  <1>4. \A j \in LogIds : \A e : IsHeld(j, e)' <=> IsHeld(j, e)
    BY RestsSorted
  <1>5. CASE /\ state' = state
             /\ \/ i \notin state[s].logs_needed
                \/ i \notin DOMAIN state[s].log_positions /\ logs[i] = << >>
    <2>1. \A j \in LogIds : \A e : HasRead(s, j, e)' <=> HasRead(s, j, e)
      BY <1>5, ReadTheSame
    <2>2. \A j \in LogIds : HasReadAll(s, j) => HasReadAll(s, j)'
      BY <1>4, <2>1 DEF HasReadAll
    <2>3. logs[i] = << >> => HasReadAll(s, i)'
      BY <1>3 DEF HasReadAll, IsHeld, ChunksOf, Elements
    <2>4. i \in state'[s].logs_needed => HasReadAll(s, i)'
      BY <1>5, <2>3
    <2>5. /\ \A j \in LogIds : \A e :
                HasRead(s, j, e)' => HasRead(s, j, e) \/ e.sequence < state[s].start
          /\ \A j \in LogIds : j # i /\ HasReadAll(s, j) => HasReadAll(s, j)'
      BY <2>1, <2>2
    <2> QED BY <1>2, <1>5, <2>4, <2>5 DEF ChecksLog
  <1>6. ASSUME NEW pos, NEW new, IsFrom(s, i, pos), Reaches(s, i, pos, new)
        PROVE  ChecksLog(s, i)
    <2>1. /\ \A j \in LogIds : j # i => \A e : HasRead(s, j, e)' <=> HasRead(s, j, e)
          /\ \A e : HasRead(s, i, e)' => HasRead(s, i, e) \/ e.sequence < state[s].start
          /\ i \in new.logs_needed => HasReadAll(s, i)'
      BY <1>2, <1>3, <1>6, ReachesReads
    <2>2. \A j \in LogIds : j # i /\ HasReadAll(s, j) => HasReadAll(s, j)'
      BY <1>4, <2>1 DEF HasReadAll
    <2>3. /\ state'[s] = new /\ DOMAIN state' = DOMAIN state
          /\ \A p \in DOMAIN state : p # s => state'[p] = state[p]
          /\ new.start = state[s].start /\ new.log_mask = state[s].log_mask
          /\ DOMAIN new.log_positions = (DOMAIN state[s].log_positions) \cup {i}
          /\ \A j : j # i => (j \in new.logs_needed <=> j \in state[s].logs_needed)
      <3>1. /\ state' = [state EXCEPT ![s] = new]
            /\ new.start = state[s].start /\ new.log_mask = state[s].log_mask
            /\ DOMAIN new.log_positions = (DOMAIN state[s].log_positions) \cup {i}
            /\ \A j : j # i => (j \in new.logs_needed <=> j \in state[s].logs_needed)
        BY <1>6, Zenon DEF Reaches
      <3> QED BY <1>2, <3>1
    <2>4. \A j \in LogIds : \A e : HasRead(s, j, e)' => HasRead(s, j, e) \/ e.sequence < state[s].start
      BY <2>1
    <2> QED BY <1>2, <2>1, <2>2, <2>3, <2>4 DEF ChecksLog
  <1> QED BY <1>2, <1>5, <1>6

-----------------------------------------------------------------------------
(***************************************************************************)
(* A state has read nothing above its start                                 *)
(***************************************************************************)

\* A watched log in which s has no position is needed, and nothing above start was read.
IsBehind(s) ==
    /\ \A i \in state[s].log_mask :
          i \in DOMAIN state[s].log_positions \/ i \in state[s].logs_needed
    /\ \A i \in LogIds : \A e : HasRead(s, i, e) => e.sequence <= state[s].start

BehindInv == \A s \in DOMAIN state : IsBehind(s)

LEMMA BufferNextBehind ==
    ASSUME Parts, BehindInv, BufferNext, \A i \in LogIds : NothingBehind(i)
    PROVE  BehindInv'
  <1> SUFFICES ASSUME NEW s \in DOMAIN state' PROVE IsBehind(s)'
    BY DEF BehindInv
  <1>1. s \in DOMAIN state /\ KeepsPositions(s) /\ IsBehind(s)
    BY BufferNextPositions DEF BehindInv
  <1>2. \A i \in LogIds : \A e : HasRead(s, i, e)' => HasRead(s, i, e)
    BY <1>1, ReadStill
  <1> QED BY <1>1, <1>2 DEF IsBehind, KeepsPositions

\* How the states can change in the step of a thread
LEMMA StepStates ==
    ASSUME Parts, NEW r \in Readers, StepOf(r)
    PROVE  \/ state' = state
           \/ \E s \in {Main(r), Temp(r)} : \E n, mask :
                 state' = WithState(s, NewFlushToState(n, mask))
           \/ \E s \in {Main(r), Temp(r)} : state' = WithoutState(s)
           \/ CheckForNewLogs(r) \/ FlushToEntry(r) \/ SecondPassReturns(r)
  <1>1. CASE OnDataAvailable(r) \/ CreateThread(r)
    BY <1>1, Zenon DEF OnDataAvailable, CreateThread
  <1>2. CASE FindReturns(r) \/ FirstPassReturns(r) \/ ThreadExits(r)
    BY <1>2, Zenon DEF FindReturns, FirstPassReturns, ThreadExits
  <1>3. CASE \/ DoSocketDelete(r) \/ DeadlinePasses(r) \/ FlushToNoMore(r) \/ WriteSucceeds(r)
             \/ WriteFails(r)
    BY <1>3, Zenon DEF DoSocketDelete, DeadlinePasses, FlushToNoMore, WriteSucceeds, WriteFails
  <1>4. CASE LoopTop(r) \/ AfterWaitUntil(r)
    BY <1>4, Zenon DEF LoopTop, AfterWaitUntil, EnterFlushTo, LeaveLoop
  <1> QED BY <1>1, <1>2, <1>3, <1>4 DEF StepOf, ReaderStep

\* FlushToEntry() pops an entry of the state it works on.
LEMMA FlushesPops ==
    ASSUME Parts, NEW r \in Readers, NEW i, NEW entry, NEW result, NEW u,
           FlushesEntry(r, i, entry, result, u), NEW s, s = Current(r)
    PROVE  Pops(s, i, entry)
  BY Zenon DEF FlushesEntry, Pops

LEMMA StepBehind ==
    ASSUME Parts, SortedInv, BehindInv, NEW r \in Readers, StepOf(r)
    PROVE  BehindInv'
  <1>1. LogsRest
    BY StepRests DEF BufferRests
  <1>2. ASSUME NEW s \in DOMAIN state, s \in DOMAIN state', state'[s] = state[s]
        PROVE  IsBehind(s)'
    <2>1. \A i \in LogIds : \A e : HasRead(s, i, e)' <=> HasRead(s, i, e)
      BY <1>1, <1>2, ReadTheSame
    <2> QED BY <1>2, <2>1 DEF BehindInv, IsBehind
  <1>3. CASE state' = state
    BY <1>2, <1>3 DEF BehindInv
  <1>4. ASSUME NEW s, NEW n, NEW mask, state' = WithState(s, NewFlushToState(n, mask))
        PROVE  BehindInv'
    <2>1. /\ state'[s] = NewFlushToState(n, mask)
          /\ \A p \in DOMAIN state' : p # s => p \in DOMAIN state /\ state'[p] = state[p]
      BY <1>4 DEF WithState
    <2>2. IsBehind(s)'
      BY <2>1 DEF IsBehind, HasRead, NewFlushToState
    <2> QED BY <1>2, <2>1, <2>2 DEF BehindInv
  <1>5. ASSUME NEW s, state' = WithoutState(s)
        PROVE  BehindInv'
    <2>1. \A p \in DOMAIN state' : p \in DOMAIN state /\ state'[p] = state[p]
      BY <1>5 DEF WithoutState
    <2> QED BY <1>2, <2>1 DEF BehindInv
  <1>6. CASE CheckForNewLogs(r)
    <2>1. PICK s, i : s = Current(r) /\ i = thread[r].log_id
      OBVIOUS
    <2>2. ChecksLog(s, i)
      BY <1>1, <1>6, <2>1, CheckForNewLogsReads
    <2>3. IsBehind(s)'
      <3>1. IsBehind(s) /\ IsState(state[s])
        BY <2>2 DEF ChecksLog, BehindInv, Parts, StatesOK
      <3>2. ASSUME NEW j \in LogIds, NEW e, HasRead(s, j, e)'
            PROVE  e.sequence <= state[s].start
        <4>1. CASE HasRead(s, j, e)
          BY <3>1, <4>1 DEF IsBehind
        <4>2. CASE e.sequence < state[s].start
          <5>1. IsHeld(j, e)
            <6>1. IsHeld(j, e)'
              BY <3>2 DEF HasRead, IsHeld, ChunksOf
            <6> QED BY <1>1, <6>1, RestsSorted
          <5>2. e.sequence \in Nat /\ state[s].start \in Nat
            BY <3>1, <5>1, HeldAreEntries DEF IsState, FlushToState
          <5> QED BY <4>2, <5>2
        <4> QED BY <2>2, <3>2, <4>1, <4>2 DEF ChecksLog
      <3>3. \A j \in state'[s].log_mask :
               j \in DOMAIN state'[s].log_positions \/ j \in state'[s].logs_needed
        BY <2>2, <3>1 DEF ChecksLog, IsBehind
      <3>4. state'[s].start = state[s].start
        BY <2>2 DEF ChecksLog
      <3> QED BY <3>2, <3>3, <3>4 DEF IsBehind
    <2> QED BY <1>2, <2>2, <2>3 DEF BehindInv, ChecksLog
  <1>7. CASE FlushToEntry(r)
    <2>1. PICK i, entry, result, u : FlushesEntry(r, i, entry, result, u)
      BY <1>7, FlushToEntryCases
    <2>2. PICK s : s = Current(r)
      OBVIOUS
    <2>3. s \in DOMAIN state /\ ~Clearing /\ Pops(s, i, entry)
      BY <1>7, <2>1, <2>2, CurrentIsLive, FlushesPops, NotClearing DEF FlushToEntry, Flushing
    <2>4. /\ DOMAIN state' = DOMAIN state
          /\ \A p \in DOMAIN state : p # s => state'[p] = state[p]
          /\ entry.sequence \in Nat /\ state[s].start \in Nat
          /\ state'[s].start = IF entry.sequence < state[s].start THEN state[s].start
                                                                 ELSE entry.sequence
          /\ state'[s].log_mask = state[s].log_mask
          /\ state'[s].logs_needed = state[s].logs_needed \cup {i}
          /\ DOMAIN state'[s].log_positions = DOMAIN state[s].log_positions
          /\ \A j \in LogIds : \A e : HasRead(s, j, e)' => HasRead(s, j, e) \/ (j = i /\ e = entry)
      BY <1>1, <2>3, PopReads
    <2>5. IsBehind(s)'
      <3>1. IsBehind(s)
        BY <2>3 DEF BehindInv
      <3>2. ASSUME NEW j \in LogIds, NEW e, HasRead(s, j, e)'
            PROVE  e.sequence <= state'[s].start
        <4>1. CASE HasRead(s, j, e)
          <5>1. e.sequence <= state[s].start
            BY <3>1, <4>1 DEF IsBehind
          <5>2. e.sequence \in Nat
            BY <2>3, <4>1, ReadAreHeld, HeldAreEntries
          <5> QED BY <2>4, <5>1, <5>2
        <4>2. CASE e = entry
          BY <2>4, <4>2
        <4> QED BY <2>4, <3>2, <4>1, <4>2
      <3>3. \A j \in state'[s].log_mask :
               j \in DOMAIN state'[s].log_positions \/ j \in state'[s].logs_needed
        BY <2>4, <3>1 DEF IsBehind
      <3> QED BY <3>2, <3>3 DEF IsBehind
    <2> QED BY <1>2, <2>3, <2>4, <2>5 DEF BehindInv
  <1>8. CASE SecondPassReturns(r)
    <2>1. PICK s : s = Main(r)
      OBVIOUS
    <2>2. /\ s \in DOMAIN state /\ IsState(state[s])
      BY <1>8, <2>1, ThreadHas DEF SecondPassReturns, NeedsMain, Parts, StatesOK
    <2>3. PICK st : st = state[s]
      OBVIOUS
    <2>4. state' = [state EXCEPT ![s] = [st EXCEPT !.start = st.start + 1]]
      BY <1>8, <2>1, <2>3 DEF SecondPassReturns
    <2>5. /\ DOMAIN state' = DOMAIN state
          /\ \A p \in DOMAIN state : p # s => state'[p] = state[p]
          /\ state'[s] = [st EXCEPT !.start = st.start + 1]
      BY <2>2, <2>4
    <2>6. /\ state'[s].start = st.start + 1 /\ st.start \in Nat
          /\ state'[s].log_mask = st.log_mask /\ state'[s].logs_needed = st.logs_needed
          /\ state'[s].log_positions = st.log_positions
      BY <2>2, <2>3, <2>5 DEF IsState, FlushToState
    <2>7. \A j \in LogIds : \A e : HasRead(s, j, e)' <=> HasRead(s, j, e)
      BY <1>1, <2>3, <2>6, ReadTheSame
    <2>8. IsBehind(s)'
      <3>1. IsBehind(s)
        BY <2>2 DEF BehindInv
      <3>2. ASSUME NEW j \in LogIds, NEW e, HasRead(s, j, e)'
            PROVE  e.sequence <= state'[s].start
        <4>1. HasRead(s, j, e) /\ e.sequence <= st.start
          BY <2>3, <2>7, <3>1, <3>2 DEF IsBehind
        <4>2. e.sequence \in Nat
          BY <2>2, <4>1, ReadAreHeld, HeldAreEntries
        <4> QED BY <2>6, <4>1, <4>2
      <3> QED BY <2>3, <2>6, <3>1, <3>2 DEF IsBehind
    <2> QED BY <1>2, <2>5, <2>8 DEF BehindInv
  <1> QED BY <1>3, <1>4, <1>5, <1>6, <1>7, <1>8, StepStates

-----------------------------------------------------------------------------
(***************************************************************************)
(* What a client is owed                                                    *)
(***************************************************************************)

\* The thread serves the request it was made for.
IsFaithful(t) ==
    /\ t.pid = t.request.pid /\ t.uid = t.request.uid /\ t.privileged = t.request.privileged
    /\ t.request.tail = 0 => t.tail = 0
    /\ t.start_time \in {t.request.start, EPOCH}
    /\ IsUncreated(t) => t.start_time = t.request.start
    /\ t.pc \in {"flush", "stop"} /\ t.pass = "find" => t.request.start # EPOCH
    /\ t.pc = "wait" => ~t.deadline

\* It holds the lock where it must, and its states watch the logs it watches.
IsPlaced(r, t) ==
    /\ t.pc \in {"flush", "stop", "exit"} => logd_lock = {r}
    /\ \A s \in {Main(r), Temp(r)} : s \in DOMAIN state => state[s].log_mask = t.log_mask

\* Wants(), of a request
IsWanted(q, e) ==
    /\ q.tail = 0
    /\ q.privileged \/ q.uid = e.uid
    /\ q.pid = 0 \/ q.pid = e.pid
    /\ q.start = EPOCH \/ e.realtime > q.start

\* Of what the request q wants of the logs, G has all numbers below n.
IsComplete(q, mask, n, G) ==
    \A i \in mask : \A e : IsHeld(i, e) /\ IsWanted(q, e) /\ e.sequence < n => e.sequence \in G

\* G has all that the state s has read of it.
HasAllRead(s, q, mask, G) ==
    \A i \in mask : \A e : HasRead(s, i, e) /\ IsWanted(q, e) => e.sequence \in G

CurrentOf(r, t) == IF t.pass = "second" THEN Main(r) ELSE Temp(r)

\* What the client of a thread t was sent, is being sent, or came too late for it
Got(t, d, l) ==
    {d[k] : k \in 1 .. Len(d)} \cup l \cup (IF t.pc = "write" THEN {t.out} ELSE {})

\* The thread has not been told to end in the middle of what it has to send.
IsServing(t) == t.pc # "exit" /\ ~(t.pc = "stop" /\ t.pass = "second" /\ t.release)

\* CheckForNewLogs() leaves a log behind only with a next entry, or read to its end;
\* FlushTo() returns from the second pass and from the search when everything is read.
IsChecked(r, t) ==
    LET s == CurrentOf(r, t)
    IN  /\ t.pc = "flush" => \A i \in t.log_mask :
              i < t.log_id /\ i \in state[s].logs_needed => HasReadAll(s, i)
        /\ /\ t.pc = "stop"
           /\ \/ t.pass = "second" /\ ~t.non_block /\ ~t.release
              \/ t.pass = "find" /\ ~t.start_time_set
           => \A i \in t.log_mask : HasReadAll(s, i)

\* The thread waits only above all that is logged.
IsAbove(r, t) ==
    t.pc = "wait" => \A i \in t.log_mask : \A e : IsHeld(i, e) => e.sequence < state[Main(r)].start

\* The search for the start passes over nothing the client wants.
IsSearched(r, t, l) ==
    /\ t.pc = "found" => IsComplete(t.request, t.log_mask, t.sequence, l)
    /\ t.pc \in {"flush", "stop"} /\ t.pass = "find" =>
          /\ IsComplete(t.request, t.log_mask, state[Temp(r)].start, {})
          /\ t.last <= state[Temp(r)].start
          /\ t.start_time_set => t.pc = "stop" /\ t.sequence <= state[Temp(r)].start
          /\ ~t.start_time_set => HasAllRead(Temp(r), t.request, t.log_mask, {})

\* Nor does the thread, below its start or behind its positions.
IsSent(r, t, d, l) ==
    Main(r) \in DOMAIN state /\ IsServing(t) =>
        /\ IsComplete(t.request, t.log_mask, state[Main(r)].start, Got(t, d, l))
        /\ HasAllRead(Main(r), t.request, t.log_mask, Got(t, d, l))

IsServed(r, t, d, l) ==
    /\ IsFaithful(t) /\ IsPlaced(r, t)
    /\ IsChecked(r, t) /\ IsAbove(r, t) /\ IsSearched(r, t, l) /\ IsSent(r, t, d, l)

ServedInv == \A r \in Readers : IsServed(r, thread[r], delivered[r], late[r])

\* A thread that begins a flush has checked nothing yet.
LEMMA BeginsFlush ==
    ASSUME NEW r, NEW u, u.pc = "flush", u.log_id = 0, u.log_mask \subseteq LogIds, NEW l
    PROVE  /\ IsChecked(r, u)' /\ IsAbove(r, u)'
           /\ u.pass # "find" => IsSearched(r, u, l)'
  <1>1. \A i \in u.log_mask : ~(i < u.log_id)
    BY LogIdAssumption DEF LogIds
  <1> QED BY <1>1 DEF IsChecked, IsAbove, IsSearched

\* A thread that is in none of these places owes nothing but what IsSent says.
LEMMA OwesNothingElse ==
    ASSUME NEW r, NEW u, u.pc \notin {"flush", "stop", "wait", "found"}, NEW l
    PROVE  IsChecked(r, u)' /\ IsAbove(r, u)' /\ IsSearched(r, u, l)'
  BY DEF IsChecked, IsAbove, IsSearched

\* What was complete is complete while nothing is logged.
LEMMA CompleteStill ==
    ASSUME Parts, SortedInv, LogsRest, NEW q, NEW mask \in SUBSET LogIds, NEW n, NEW m \in Nat, n = m,
           NEW G, NEW H, G \subseteq H, IsComplete(q, mask, n, G)
    PROVE  IsComplete(q, mask, m, H)'
  <1>1. \A i \in LogIds : \A e : IsHeld(i, e)' => IsHeld(i, e)
    BY RestsSorted
  <1> QED BY <1>1 DEF IsComplete

LEMMA AllReadStill ==
    ASSUME Parts, LogsRest, NEW s, state'[s].log_positions = state[s].log_positions,
           NEW q, NEW mask \in SUBSET LogIds, NEW G, NEW H, G \subseteq H, HasAllRead(s, q, mask, G)
    PROVE  HasAllRead(s, q, mask, H)'
  <1>1. \A i \in LogIds : \A e : HasRead(s, i, e)' => HasRead(s, i, e)
    BY ReadTheSame
  <1> QED BY <1>1 DEF HasAllRead

\* A step that leaves the thread's state alone, and what it sent.
LEMMA SentStill ==
    ASSUME Parts, SortedInv, LogsRest, NEW r, NEW t, NEW u, NEW d, NEW c, NEW l,
           u.request = t.request, u.log_mask = t.log_mask, t.log_mask \in SUBSET LogIds,
           IsSent(r, t, d, l),
           Main(r) \in DOMAIN state' /\ IsServing(u) =>
              /\ Main(r) \in DOMAIN state /\ IsServing(t)
              /\ state'[Main(r)] = state[Main(r)]
              /\ Got(t, d, l) \subseteq Got(u, c, l)
    PROVE  IsSent(r, u, c, l)'
  <1> SUFFICES ASSUME Main(r) \in DOMAIN state', IsServing(u)
               PROVE  /\ IsComplete(u.request, u.log_mask, state[Main(r)].start, Got(u, c, l))'
                      /\ HasAllRead(Main(r), u.request, u.log_mask, Got(u, c, l))'
    BY DEF IsSent, IsServing
  <1>1. PICK s, q, mask, G, H : /\ s = Main(r) /\ q = t.request /\ mask = t.log_mask
                                /\ G = Got(t, d, l) /\ H = Got(u, c, l)
    OBVIOUS
  <1>2. PICK n : n = state[s].start
    OBVIOUS
  <1>3. /\ s \in DOMAIN state /\ state'[s] = state[s] /\ G \subseteq H
        /\ IsComplete(q, mask, n, G) /\ HasAllRead(s, q, mask, G)
        /\ n \in Nat
    BY <1>1, <1>2 DEF IsSent, Parts, StatesOK, IsState, FlushToState
  <1>4. IsComplete(q, mask, n, H)' /\ HasAllRead(s, q, mask, H)'
    BY <1>1, <1>3, CompleteStill, AllReadStill
  <1>5. state'[s].start = n /\ Got(u, c, l)' = H
    BY <1>1, <1>2, <1>3 DEF Got
  <1> QED BY <1>1, <1>4, <1>5

-----------------------------------------------------------------------------
(***************************************************************************)
(* What the filters do                                                      *)
(***************************************************************************)

\* The thread u looks for what the thread t looks for.
AsksTheSame(u, t) ==
    /\ u.request = t.request /\ u.log_mask = t.log_mask
    /\ u.pid = t.pid /\ u.uid = t.uid /\ u.privileged = t.privileged
    /\ t.tail = 0 => u.tail = 0

\* A filter changes nothing of that, nor anything else that what is owed depends on.
FiltersOnly(u, t) ==
    /\ AsksTheSame(u, t) /\ u.start_time = t.start_time
    /\ u.release = t.release /\ u.deadline = t.deadline /\ u.non_block = t.non_block
    /\ t.pass # "find" =>
          u.last = t.last /\ u.sequence = t.sequence /\ u.start_time_set = t.start_time_set

LEMMA FaithfulStill ==
    ASSUME NEW t, NEW u, IsFaithful(t), AsksTheSame(u, t), u.start_time \in {t.start_time, EPOCH},
           IsUncreated(u) => IsUncreated(t) /\ u.start_time = t.start_time,
           u.pc \in {"flush", "stop"} /\ u.pass = "find" =>
              t.pc \in {"flush", "stop"} /\ t.pass = "find",
           u.pc = "wait" => ~u.deadline
    PROVE  IsFaithful(u)
  BY Zenon DEF IsFaithful, AsksTheSame

LEMMA FirstPassOnly ==
    ASSUME NEW t \in Thread, NEW entry \in Entry
    PROVE  FiltersOnly(FilterFirstPass(t, entry).thread, t)
  <1> DEFINE u == [t EXCEPT !.count = t.count + 1]
  <1>1. FiltersOnly(u, t)
    BY DEF FiltersOnly, AsksTheSame, Thread
  <1>2. FiltersOnly(t, t)
    BY DEF FiltersOnly, AsksTheSame
  <1> HIDE DEF u
  <1> QED BY <1>1, <1>2 DEF FilterFirstPass, Filtered, u

LEMMA SecondPassOnly ==
    ASSUME NEW t \in Thread, NEW entry \in Entry
    PROVE  FiltersOnly(FilterSecondPass(t, entry).thread, t)
  <1> DEFINE u == [t EXCEPT !.index = t.index + 1]
             w == [t EXCEPT !.index = t.index + 1, !.tail = IF t.non_block THEN t.tail ELSE 0]
  <1>1. FiltersOnly(u, t)
    BY DEF FiltersOnly, AsksTheSame, Thread
  <1>2. FiltersOnly(t, t)
    BY DEF FiltersOnly, AsksTheSame
  <1>3. FiltersOnly(w, t)
    BY DEF FiltersOnly, AsksTheSame, Thread
  <1>4. FilterSecondPass(t, entry).thread \in {t, u, w}
    BY DEF FilterSecondPass, Filtered
  <1> HIDE DEF u, w
  <1> QED BY <1>1, <1>2, <1>3, <1>4

\* What the request wants is written, unless the thread is told to end; and only a
\* thread that is told to end, or to dump and close, stops at an entry.
LEMMA SecondPassWrites ==
    ASSUME NEW t \in Thread, NEW entry \in Entry, IsFaithful(t)
    PROVE  LET o == FilterSecondPass(t, entry)
           IN  /\ IsWanted(t.request, entry) => o.result = "kWrite" \/ (o.result = "kStop" /\ t.release)
               /\ o.result = "kStop" => t.non_block \/ t.release
  <1> DEFINE o == FilterSecondPass(t, entry)
  <1>1. o.result = "kStop" => t.non_block \/ t.release
    BY DEF FilterSecondPass, Filtered
  <1>2. ASSUME IsWanted(t.request, entry)
        PROVE  o.result = "kWrite" \/ (o.result = "kStop" /\ t.release)
    <2>1. t.tail = 0 /\ (t.pid = 0 \/ t.pid = entry.pid)
      BY <1>2 DEF IsFaithful, IsWanted
    <2>2. t.start_time = EPOCH \/ ~(entry.realtime <= t.start_time)
      <3>1. entry.realtime \in Nat /\ t.start_time \in Nat
        BY DEF Entry, Thread
      <3> QED BY <1>2, <3>1 DEF IsFaithful, IsWanted
    <2> QED BY <2>1, <2>2 DEF FilterSecondPass, Filtered
  <1> QED BY <1>1, <1>2

\* The search: how the thread t becomes u at an entry, with its result.
Searches(t, entry, u, result) ==
    /\ FiltersOnly(u, t)
    /\ \/ /\ result = "kSkip" /\ ~IsWanted(t.request, entry)
          /\ u.start_time_set = t.start_time_set /\ u.sequence = t.sequence
          /\ u.last \in {t.last, entry.sequence}
       \/ /\ result = "kStop" /\ u.start_time_set = TRUE
          /\ u.last = t.last /\ u.sequence \in {t.last, entry.sequence}

LEMMA FindStartSearches ==
    ASSUME NEW t \in Thread, NEW entry \in Entry, IsFaithful(t), t.pass = "find", t.pc = "flush"
    PROVE  LET o == LogFindStart(t, entry) IN Searches(t, entry, o.thread, o.result)
  <1>1. /\ entry.realtime \in Nat /\ t.start_time \in Nat /\ entry.sequence \in Nat
        /\ t.start_time = t.request.start /\ t.start_time # EPOCH
        /\ t.pid = t.request.pid
    BY DEF Entry, Thread, IsFaithful, IsUncreated
  <1>2. FiltersOnly(t, t)
    BY DEF FiltersOnly, AsksTheSame
  <1>3. CASE t.pid # 0 /\ t.pid # entry.pid
    <2>1. ~IsWanted(t.request, entry)
      BY <1>1, <1>3 DEF IsWanted
    <2>2. LogFindStart(t, entry) = Filtered(t, "kSkip")
      BY <1>3 DEF LogFindStart
    <2> QED BY <1>2, <2>1, <2>2, FilteredType DEF Searches
  <1>4. CASE ~(t.pid # 0 /\ t.pid # entry.pid) /\ t.start_time = entry.realtime
    <2> DEFINE u == [t EXCEPT !.sequence = entry.sequence, !.start_time_set = TRUE]
    <2>1. LogFindStart(t, entry) = Filtered(u, "kStop")
      BY <1>4 DEF LogFindStart
    <2>2. /\ FiltersOnly(u, t) /\ u.start_time_set = TRUE /\ u.last = t.last
          /\ u.sequence = entry.sequence
      BY DEF FiltersOnly, AsksTheSame, Thread
    <2> HIDE DEF u
    <2> QED BY <2>1, <2>2, FilteredType DEF Searches
  <1>5. CASE ~(t.pid # 0 /\ t.pid # entry.pid) /\ t.start_time < entry.realtime
    <2> DEFINE u == [t EXCEPT !.sequence = t.last, !.start_time_set = TRUE]
    <2>1. LogFindStart(t, entry) = Filtered(u, "kStop")
      BY <1>1, <1>5 DEF LogFindStart
    <2>2. /\ FiltersOnly(u, t) /\ u.start_time_set = TRUE /\ u.last = t.last
          /\ u.sequence = t.last
      BY DEF FiltersOnly, AsksTheSame, Thread
    <2> HIDE DEF u
    <2> QED BY <2>1, <2>2, FilteredType DEF Searches
  <1>6. CASE /\ ~(t.pid # 0 /\ t.pid # entry.pid)
             /\ t.start_time # entry.realtime /\ ~(t.start_time < entry.realtime)
    <2> DEFINE u == [t EXCEPT !.last = entry.sequence]
    <2>1. LogFindStart(t, entry) = Filtered(u, "kSkip")
      BY <1>6 DEF LogFindStart
    <2>2. /\ FiltersOnly(u, t) /\ u.start_time_set = t.start_time_set /\ u.last = entry.sequence
          /\ u.sequence = t.sequence
      BY DEF FiltersOnly, AsksTheSame, Thread
    <2>3. ~IsWanted(t.request, entry)
      BY <1>1, <1>6 DEF IsWanted
    <2> HIDE DEF u
    <2> QED BY <2>1, <2>2, <2>3, FilteredType DEF Searches
  <1> QED BY <1>3, <1>4, <1>5, <1>6

\* FlushTo() at an entry that is not below the start
LEMMA OutcomeFilters ==
    ASSUME NEW t \in Thread, NEW entry \in Entry, NEW start \in Nat, IsFaithful(t), t.pc = "flush",
           NEW o, o = Outcome(t, start, entry)
    PROVE  /\ o.thread \in Thread /\ o.thread.pc = "flush" /\ o.thread.pass = t.pass
           /\ FiltersOnly(o.thread, t)
           /\ entry.sequence < start => o.thread = t /\ o.result = "kSkip"
           /\ t.pass = "first" => o.result = "kSkip"
           /\ t.pass = "second" => o.result \in {"kSkip", "kStop", "kWrite"}
           /\ t.pass = "second" /\ o.result = "kStop" => t.non_block \/ t.release
           /\ t.pass = "second" /\ ~(entry.sequence < start) /\ IsWanted(t.request, entry) =>
                 o.result = "kWrite" \/ (o.result = "kStop" /\ t.release)
           /\ t.pass = "find" /\ ~(entry.sequence < start) =>
                 Searches(t, entry, o.thread, o.result)
           /\ t.pass = "find" => o.result # "kWrite"
  <1>1. o.thread \in Thread /\ o.thread.pc = "flush" /\ o.thread.pass = t.pass
        /\ (o.result = "kWrite" => t.pass = "second")
    BY OutcomeType DEF FilterOK
  <1>2. FiltersOnly(t, t) /\ t.pass \in {"find", "first", "second"}
    BY DEF FiltersOnly, AsksTheSame, Thread
  <1>3. CASE entry.sequence < start
    <2>1. o.thread = t /\ o.result = "kSkip"
      BY <1>3, FilteredType DEF Outcome
    <2> QED BY <1>1, <1>2, <1>3, <2>1
  <1>4. CASE ~(entry.sequence < start) /\ ~t.privileged /\ t.uid # entry.uid
    <2>1. o.thread = t /\ o.result = "kSkip"
      BY <1>4, FilteredType DEF Outcome
    <2>2. ~IsWanted(t.request, entry)
      BY <1>4 DEF IsFaithful, IsWanted
    <2>3. Searches(t, entry, t, "kSkip")
      BY <1>2, <2>2 DEF Searches
    <2> QED BY <1>1, <1>2, <1>4, <2>1, <2>2, <2>3
  <1>5. CASE ~(entry.sequence < start) /\ ~(~t.privileged /\ t.uid # entry.uid)
    <2>1. o = Filter(t, entry)
      BY <1>5 DEF Outcome
    <2>2. CASE t.pass = "find"
      <3>1. o = LogFindStart(t, entry)
        BY <2>1, <2>2 DEF Filter
      <3>2. Searches(t, entry, o.thread, o.result)
        BY <2>2, <3>1, FindStartSearches
      <3> QED BY <1>1, <1>5, <2>2, <3>2 DEF Searches
    <2>3. CASE t.pass = "first"
      <3>1. o = FilterFirstPass(t, entry)
        BY <2>1, <2>3 DEF Filter
      <3>2. FiltersOnly(o.thread, t) /\ o.result = "kSkip"
        BY <3>1, FirstPassOnly DEF FilterFirstPass, Filtered
      <3> QED BY <1>1, <1>5, <2>3, <3>2
    <2>4. CASE t.pass = "second"
      <3>1. o = FilterSecondPass(t, entry)
        BY <2>1, <2>4 DEF Filter
      <3>2. FiltersOnly(o.thread, t)
        BY <3>1, SecondPassOnly
      <3>4. o.result \in {"kSkip", "kStop", "kWrite"}
        BY <3>1 DEF FilterSecondPass, Filtered
      <3>3. /\ IsWanted(t.request, entry) => o.result = "kWrite" \/ (o.result = "kStop" /\ t.release)
            /\ o.result = "kStop" => t.non_block \/ t.release
        BY <3>1, SecondPassWrites
      <3> QED BY <1>1, <1>5, <2>4, <3>2, <3>3, <3>4
    <2> QED BY <1>2, <2>2, <2>3, <2>4
  <1> QED BY <1>3, <1>4, <1>5

-----------------------------------------------------------------------------
(***************************************************************************)
(* What others do to a thread                                               *)
(***************************************************************************)

\* The states of the thread of r are left alone.
KeepsStates(r) ==
    \A s \in {Main(r), Temp(r)} :
        /\ s \in DOMAIN state' <=> s \in DOMAIN state
        /\ s \in DOMAIN state => state'[s] = state[s]

LEMMA OthersKeepOurs ==
    ASSUME Parts, NEW r \in Readers, NEW q \in Readers, q # r, StepOf(q)
    PROVE  /\ KeepsStates(r)
           /\ logd_lock = {r} => logd_lock' = {r}
           /\ thread'[r] = thread[r] /\ delivered'[r] = delivered[r] /\ late'[r] = late[r]
  <1>1. \A s \in {Main(r), Temp(r)} : s \notin {Main(q), Temp(q)}
    BY StatesDiffer
  <1>2. ASSUME NEW p \in {Main(q), Temp(q)}, NEW st,
               \/ state' = WithState(p, st)
               \/ state' = WithoutState(p)
               \/ state' = [state EXCEPT ![p] = st]
        PROVE  KeepsStates(r)
    <2>1. \A s \in {Main(r), Temp(r)} : s # p
      BY <1>1
    <2> QED BY <1>2, <2>1 DEF KeepsStates, WithState, WithoutState
  <1>3. KeepsStates(r)
    <2>1. CASE state' = state
      BY <2>1 DEF KeepsStates
    <2>2. CASE \/ \E s \in {Main(q), Temp(q)} : \E n, mask :
                     state' = WithState(s, NewFlushToState(n, mask))
               \/ \E s \in {Main(q), Temp(q)} : state' = WithoutState(s)
      BY <1>2, <2>2
    <2>3. CASE CheckForNewLogs(q)
      <3>1. PICK s, i : s = Current(q) /\ i = thread[q].log_id
        OBVIOUS
      <3>2. s \in {Main(q), Temp(q)}
        BY <3>1 DEF Current
      <3>3. state' = state \/ \E pos, new : Reaches(s, i, pos, new)
        BY <2>3, <3>1, CheckForNewLogsReaches
      <3>4. state' = state \/ \E new : state' = [state EXCEPT ![s] = new]
        BY <3>3, Zenon DEF Reaches
      <3> QED BY <1>2, <2>1, <3>2, <3>4
    <2>4. CASE FlushToEntry(q)
      <3>1. PICK s : s = Current(q)
        OBVIOUS
      <3>2. s \in {Main(q), Temp(q)}
        BY <3>1 DEF Current
      <3>3. PICK i, entry, result, u : FlushesEntry(q, i, entry, result, u)
        BY <2>4, FlushToEntryCases
      <3>4. state' = [state EXCEPT ![s] = SetStart(PopNextUnreadLog(@, i), entry)]
        BY <3>1, <3>3, FlushesPops, Zenon DEF Pops
      <3> QED BY <1>2, <3>2, <3>4
    <2>5. CASE SecondPassReturns(q)
      <3>1. state' = [state EXCEPT ![Main(q)] = [state[Main(q)] EXCEPT !.start = @ + 1]]
        BY <2>5 DEF SecondPassReturns
      <3> QED BY <1>2, <3>1
    <2> QED BY <2>1, <2>2, <2>3, <2>4, <2>5, StepStates
  <1>4. logd_lock = {r} => logd_lock' = {r}
    <2> SUFFICES ASSUME logd_lock = {r} PROVE logd_lock' = {r}
      OBVIOUS
    <2>1. ~LockFree /\ logd_lock # {q}
      BY DEF LockFree
    <2>2. CASE OnDataAvailable(q) \/ FindReturns(q) \/ CreateThread(q) \/ DoSocketDelete(q)
      BY <2>1, <2>2, Zenon DEF OnDataAvailable, FindReturns, CreateThread, DoSocketDelete
    <2>3. CASE LoopTop(q) \/ AfterWaitUntil(q) \/ DeadlinePasses(q)
      BY <2>1, <2>3, Zenon DEF LoopTop, AfterWaitUntil, DeadlinePasses
    <2>4. CASE CheckForNewLogs(q) \/ FlushToEntry(q) \/ FlushToNoMore(q)
      BY <2>1, <2>4, Zenon DEF CheckForNewLogs, FlushToEntry, FlushToNoMore, Flushing
    <2>5. CASE WriteSucceeds(q) \/ WriteFails(q)
      BY <2>1, <2>5, Zenon DEF WriteSucceeds, WriteFails
    <2>6. CASE FirstPassReturns(q) \/ SecondPassReturns(q) \/ ThreadExits(q)
      BY <2>1, <2>6, Zenon DEF FirstPassReturns, SecondPassReturns, ThreadExits
    <2> QED BY <2>2, <2>3, <2>4, <2>5, <2>6 DEF StepOf, ReaderStep
  <1>5. late' = late
    BY StepRests DEF BufferRests
  <1>6. PICK t, d : Becomes(q, t, d)
    BY StepEffect DEF Frame
  <1>7. thread'[r] = thread[r] /\ delivered'[r] = delivered[r]
    BY <1>6, BecomesOnly
  <1> QED BY <1>3, <1>4, <1>5, <1>7

\* Where nothing is logged and its states are left alone, a thread is owed nothing new.
LEMMA ServedStill ==
    ASSUME Parts, SortedInv, LogsRest, NEW r \in Readers, NEW t, t = thread[r], NEW d, NEW l,
           IsServed(r, t, d, l), KeepsStates(r), logd_lock = {r} => logd_lock' = {r}
    PROVE  IsServed(r, t, d, l)'
  <1>1. /\ t \in Thread /\ t.log_mask \in SUBSET LogIds
        /\ NeedsMain(t) => Main(r) \in DOMAIN state
        /\ NeedsTemp(t) => Temp(r) \in DOMAIN state
    BY ThreadHas DEF Thread
  <1>2. PICK m, p : m = Main(r) /\ p = Temp(r)
    OBVIOUS
  <1>3. /\ m \in DOMAIN state' <=> m \in DOMAIN state
        /\ p \in DOMAIN state' <=> p \in DOMAIN state
        /\ m \in DOMAIN state => state'[m] = state[m]
        /\ p \in DOMAIN state => state'[p] = state[p]
    BY <1>2 DEF KeepsStates
  <1>4. IsFaithful(t)' /\ IsPlaced(r, t)'
    BY <1>2, <1>3 DEF IsServed, IsFaithful, IsPlaced, IsUncreated
  <1>5. \A i \in LogIds : \A e : IsHeld(i, e)' <=> IsHeld(i, e)
    BY RestsSorted
  <1>6. IsChecked(r, t)'
    <2>1. PICK s : s = CurrentOf(r, t)
      OBVIOUS
    <2>2. CASE t.pc \notin {"flush", "stop"}
      BY <2>2 DEF IsChecked
    <2>3. CASE t.pc \in {"flush", "stop"}
      <3>1. s \in DOMAIN state /\ state'[s] = state[s]
        BY <1>1, <1>2, <1>3, <2>1, <2>3 DEF CurrentOf, NeedsMain, NeedsTemp, Thread
      <3>2. \A i \in LogIds : HasReadAll(s, i) => HasReadAll(s, i)'
        <4>1. \A i \in LogIds : \A e : HasRead(s, i, e)' <=> HasRead(s, i, e)
          BY <3>1, ReadTheSame
        <4> QED BY <1>5, <4>1 DEF HasReadAll
      <3>3. CurrentOf(r, t)' = s
        BY <2>1 DEF CurrentOf, Main, Temp
      <3> QED BY <1>1, <2>1, <3>1, <3>2, <3>3 DEF IsServed, IsChecked
    <2> QED BY <2>2, <2>3
  <1>7. IsAbove(r, t)'
    <2>1. t.pc = "wait" => state'[m] = state[m]
      BY <1>1, <1>2, <1>3 DEF NeedsMain
    <2> QED BY <1>1, <1>2, <1>5, <2>1 DEF IsServed, IsAbove
  <1>8. IsSearched(r, t, l)'
    <2>1. CASE t.pc = "found"
      <3>1. IsComplete(t.request, t.log_mask, t.sequence, l)'
        BY <1>1, <1>5, <2>1 DEF IsServed, IsSearched, IsComplete
      <3> QED BY <2>1, <3>1 DEF IsSearched
    <2>2. CASE t.pc \in {"flush", "stop"} /\ t.pass = "find"
      <3>1. p \in DOMAIN state /\ state'[p] = state[p]
        BY <1>1, <1>2, <1>3, <2>2 DEF NeedsTemp
      <3>2. PICK n : n = state[p].start
        OBVIOUS
      <3>3. IsComplete(t.request, t.log_mask, n, {})'
        BY <1>1, <1>2, <1>5, <2>2, <3>2 DEF IsServed, IsSearched, IsComplete
      <3>4. ~t.start_time_set => HasAllRead(p, t.request, t.log_mask, {})'
        <4>1. \A i \in LogIds : \A e : HasRead(p, i, e)' <=> HasRead(p, i, e)
          BY <3>1, ReadTheSame
        <4> QED BY <1>1, <1>2, <2>2, <4>1 DEF IsServed, IsSearched, HasAllRead
      <3>5. state'[p].start = n
        BY <3>1, <3>2
      <3>6. /\ t.last <= n
            /\ t.start_time_set => t.pc = "stop" /\ t.sequence <= n
        BY <1>2, <2>2, <3>2 DEF IsServed, IsSearched
      <3> QED BY <1>2, <2>2, <3>3, <3>4, <3>5, <3>6 DEF IsSearched
    <2>3. CASE t.pc # "found" /\ ~(t.pc \in {"flush", "stop"} /\ t.pass = "find")
      BY <2>3 DEF IsSearched
    <2> QED BY <2>1, <2>2, <2>3
  <1>9. IsSent(r, t, d, l)'
    BY <1>1, <1>2, <1>3, SentStill DEF IsServed
  <1> QED BY <1>4, <1>6, <1>7, <1>8, <1>9 DEF IsServed

\* What the buffer does takes the lock, but for the number a writer fetches.
LEMMA BufferNextLocks ==
    ASSUME Parts, BufferNext, NEW r \in Readers
    PROVE  \/ logd_lock # {r}
           \/ /\ UNCHANGED <<chunk, logs, clear, late, state, thread, logd_lock>>
  <1> SUFFICES ASSUME logd_lock = {r}
               PROVE  UNCHANGED <<chunk, logs, clear, late, state, thread, logd_lock>>
    OBVIOUS
  <1>1. ~LockFree /\ logd_lock # {"command"}
    BY ReaderAssumption DEF LockFree
  <1>2. CASE \E w \in Writers : TakeSequence(w) \/ Log(w)
    BY <1>1, <1>2, Zenon DEF TakeSequence, Log
  <1>3. CASE \/ \E i \in LogIds :
                   \/ ClearAll(i)
                   \/ \E size \in Sizes : SetSize(i, size)
                   \/ \E m \in Messages : UidClear(i, m.uid)
             \/ ReinitTrigger
    BY <1>1, <1>3, Zenon DEF ClearAll, SetSize, UidClear, ReinitTrigger
  <1>4. CASE ClearStep
    BY <1>1, <1>4, Zenon DEF ClearStep, ClearSpliceChunk, ClearOpenChunk, ClearEntry,
                            ClearEraseChunk, ClearSwap
  <1> QED BY <1>2, <1>3, <1>4, Zenon DEF BufferNext

\* An entry that is logged is late for a thread, or wakes it if it waits.
LEMMA LoggedReaches ==
    ASSUME Parts, BufferNext, NEW i, NEW e, Logs(i, e), NEW r \in Readers
    PROVE  /\ ComesLate(r, e) => e.sequence \in late'[r]
           /\ r \in NotifiedOfNewLog(i) => thread'[r] = TriggerReader(thread[r])
  <1>1. PICK w \in DOMAIN pending :
           w \notin DOMAIN pending' /\ i = pending[w].log_id /\ e = pending[w].entry
    BY DEF Logs
  <1>2. Log(w)
    BY <1>1, BufferNextNumbers
  <1>3. /\ late' = [q \in Readers |->
              IF ComesLate(q, e) THEN late[q] \cup {e.sequence} ELSE late[q]]
        /\ \E n : thread' = TriggerReaders(thread,
                     NotifiedOfNewLog(i) \cup (IF n > 0 THEN NotifiedOfPrune(i) ELSE {}))
    BY <1>1, <1>2, Zenon DEF Log
  <1>4. ComesLate(r, e) => e.sequence \in late'[r]
    BY <1>3
  <1>5. r \in NotifiedOfNewLog(i) => thread'[r] = TriggerReader(thread[r])
    BY <1>3 DEF TriggerReaders
  <1> QED BY <1>4, <1>5

\* A thread is woken, or it is not.
LEMMA WokenFields ==
    ASSUME NEW t \in Thread, NEW u, u = t \/ u = TriggerReader(t)
    PROVE  /\ u.request = t.request /\ u.log_mask = t.log_mask /\ u.pid = t.pid /\ u.uid = t.uid
           /\ u.privileged = t.privileged /\ u.tail = t.tail /\ u.start_time = t.start_time
           /\ u.deadline = t.deadline /\ u.pass = t.pass /\ u.out = t.out
           /\ u.sequence = t.sequence /\ u.release = t.release
           /\ \/ u.pc = t.pc
              \/ t.pc = "wait" /\ u.pc = "woken"
              \/ t.pc = "wait_until" /\ u.pc = "notified"
           /\ u = TriggerReader(t) => u.pc # "wait"
  <1>1. CASE u = t /\ u # TriggerReader(t)
    BY <1>1
  <1>2. CASE u = TriggerReader(t)
    <2>1. PICK pc : /\ u = [t EXCEPT !.pc = pc]
                    /\ \/ pc = t.pc
                       \/ t.pc = "wait" /\ pc = "woken"
                       \/ t.pc = "wait_until" /\ pc = "notified"
      BY <1>2, TriggerReaderFields
    <2>2. u.pc # "wait"
      BY <1>2 DEF TriggerReader, Thread
    <2> QED BY <2>1, <2>2 DEF Thread
  <1> QED BY <1>1, <1>2

LEMMA BufferNextServes ==
    ASSUME Parts, SortedInv, BufferNext, BufferEffect, NEW r \in Readers, NEW t, t = thread[r],
           NEW d, NEW l, l = late[r], IsServed(r, t, d, l),
           NEW u, u = thread'[r], NEW m, m = late'[r]
    PROVE  IsServed(r, u, d, m)'
  <1>1. t \in Thread /\ t.log_mask \in SUBSET LogIds
    BY ThreadHas DEF Thread
  <1>2. CASE logd_lock = {r}
    <2>1. UNCHANGED <<chunk, logs, clear, late, state, thread, logd_lock>>
      BY <1>2, BufferNextLocks
    <2>2. LogsRest
      BY <2>1 DEF LogsRest, AreAlike, IsAlike, HoldsTheSame, Clearing
    <2>3. u = t /\ m = l
      BY <2>1
    <2>4. IsServed(r, t, d, l)'
      BY <2>1, <2>2, ServedStill DEF KeepsStates
    <2> QED BY <2>3, <2>4
  <1>3. CASE logd_lock # {r}
    <2>1. u = t \/ u = TriggerReader(t)
      BY BufferNextThreads
    <2>2. /\ u.request = t.request /\ u.log_mask = t.log_mask /\ u.pid = t.pid /\ u.uid = t.uid
          /\ u.privileged = t.privileged /\ u.tail = t.tail /\ u.start_time = t.start_time
          /\ u.deadline = t.deadline /\ u.pass = t.pass /\ u.out = t.out
          /\ u.sequence = t.sequence /\ u.release = t.release
          /\ \/ u.pc = t.pc
             \/ t.pc = "wait" /\ u.pc = "woken"
             \/ t.pc = "wait_until" /\ u.pc = "notified"
          /\ u = TriggerReader(t) => u.pc # "wait"
      BY <1>1, <2>1, WokenFields
    <2>3. t.pc \notin {"flush", "stop", "exit"} /\ u.pc \notin {"flush", "stop", "exit"}
      BY <1>3, <2>2 DEF IsServed, IsPlaced
    <2>4. IsFaithful(u)'
      <3>1. IsFaithful(u)
        BY <2>2, FaithfulStill DEF IsServed, AsksTheSame, IsUncreated, IsFaithful
      <3> QED BY <3>1 DEF IsFaithful, IsUncreated
    <2>5. /\ DOMAIN state' = DOMAIN state /\ \A s \in DOMAIN state : KeepsPositions(s)
          /\ l \subseteq m
      BY BufferNextPositions, BufferNextNumbers
    <2>6. IsPlaced(r, u)'
      BY <2>2, <2>3, <2>5 DEF IsServed, IsPlaced, KeepsPositions
    <2>7. IsChecked(r, u)'
      BY <2>3 DEF IsChecked
    <2>8. PICK s : s = Main(r)
      OBVIOUS
    <2>9. \A i \in LogIds : \A e : IsHeld(i, e)' => IsHeld(i, e) \/ Logs(i, e)
      BY DEF BufferEffect, HoldsNoOther
    <2>10. IsAbove(r, u)'
      <3> SUFFICES ASSUME u.pc = "wait", NEW i \in u.log_mask, NEW e, IsHeld(i, e)'
                   PROVE  e.sequence < state'[s].start
        BY <2>8 DEF IsAbove
      <3>1. t.pc = "wait" /\ i \in t.log_mask /\ i \in LogIds
        BY <1>1, <2>2
      <3>2. s \in DOMAIN state /\ state'[s].start = state[s].start
        BY <2>5, <2>8, <3>1, ThreadHas DEF NeedsMain, KeepsPositions
      <3>3. ~Logs(i, e)
        <4> SUFFICES ASSUME Logs(i, e) PROVE FALSE
          OBVIOUS
        <4>1. state[s].log_mask = t.log_mask /\ ~t.deadline
          BY <2>8, <3>1, <3>2 DEF IsServed, IsPlaced, IsFaithful
        <4>2. r \in NotifiedOfNewLog(i)
          BY <2>8, <3>1, <3>2, <4>1 DEF NotifiedOfNewLog, reader_threads, IsWatching
        <4>3. u = TriggerReader(t)
          BY <3>1, <4>2, LoggedReaches
        <4> QED BY <2>2, <4>3
      <3>4. e.sequence < state[s].start
        BY <2>8, <2>9, <3>1, <3>3 DEF IsServed, IsAbove
      <3> QED BY <3>2, <3>4
    <2>11. IsSearched(r, u, m)'
      <3>1. u.pc = "found" => IsComplete(u.request, u.log_mask, u.sequence, m)'
        <4> SUFFICES ASSUME u.pc = "found", NEW i \in u.log_mask, NEW e, IsHeld(i, e)',
                            IsWanted(u.request, e), e.sequence < u.sequence
                     PROVE  e.sequence \in m
          BY DEF IsComplete, IsWanted
        <4>1. t.pc = "found" /\ i \in t.log_mask /\ i \in LogIds
          BY <1>1, <2>2
        <4>2. CASE IsHeld(i, e)
          <5>1. e.sequence \in l
            BY <2>2, <4>1, <4>2 DEF IsServed, IsSearched, IsComplete
          <5> QED BY <2>5, <5>1
        <4>3. CASE Logs(i, e)
          <5>1. ComesLate(r, e)
            BY <2>2, <4>1 DEF ComesLate
          <5> QED BY <4>1, <4>3, <5>1, LoggedReaches
        <4> QED BY <2>9, <4>1, <4>2, <4>3
      <3> QED BY <2>3, <3>1 DEF IsSearched
    <2>12. IsSent(r, u, d, m)'
      <3> SUFFICES ASSUME s \in DOMAIN state', IsServing(u)
                   PROVE  /\ IsComplete(u.request, u.log_mask, state[s].start, Got(u, d, m))'
                          /\ HasAllRead(s, u.request, u.log_mask, Got(u, d, m))'
        BY <2>8 DEF IsSent, IsServing
      <3>1. PICK q, mask, n, G, H : /\ q = t.request /\ mask = t.log_mask /\ n = state[s].start
                                    /\ G = Got(t, d, l) /\ H = Got(u, d, m)
        OBVIOUS
      <3>2. G \subseteq H /\ m \subseteq H
        BY <2>2, <2>5, <3>1 DEF Got
      <3>3. s \in DOMAIN state /\ state'[s].start = n /\ mask \in SUBSET LogIds /\ Got(u, d, m)' = H
            /\ q = u.request /\ mask = u.log_mask
        BY <1>1, <2>2, <2>5, <3>1 DEF KeepsPositions, Got
      <3>4. IsComplete(q, mask, n, G) /\ HasAllRead(s, q, mask, G)
        BY <2>3, <2>8, <3>1, <3>3 DEF IsServed, IsSent, IsServing
      <3>5. IsComplete(q, mask, n, H)'
        <4> SUFFICES ASSUME NEW i \in mask, NEW e, IsHeld(i, e)', IsWanted(q, e), e.sequence < n
                     PROVE  e.sequence \in H
          BY DEF IsComplete, IsWanted
        <4>1. i \in LogIds
          BY <3>3
        <4>2. CASE IsHeld(i, e)
          BY <3>2, <3>4, <4>2 DEF IsComplete
        <4>3. CASE Logs(i, e)
          <5>1. ComesLate(r, e)
            BY <2>8, <3>1, <3>3 DEF ComesLate, reader_threads
          <5> QED BY <3>2, <4>1, <4>3, <5>1, LoggedReaches
        <4> QED BY <2>9, <4>1, <4>2, <4>3
      <3>6. HasAllRead(s, q, mask, H)'
        <4>1. \A i \in LogIds : \A e : HasRead(s, i, e)' => HasRead(s, i, e)
          BY <2>5, <3>3, ReadStill DEF BufferEffect
        <4> QED BY <3>2, <3>3, <3>4, <4>1 DEF HasAllRead
      <3> QED BY <3>3, <3>5, <3>6
    <2> QED BY <2>4, <2>6, <2>7, <2>10, <2>11, <2>12 DEF IsServed
  <1> QED BY <1>2, <1>3

-----------------------------------------------------------------------------
(***************************************************************************)
(* The steps of the thread itself                                           *)
(***************************************************************************)

\* The steps that begin or end something, and leave the state the thread sends from alone
LEMMA RestServes ==
    ASSUME Parts, SortedInv, LogsRest, NEW r \in Readers, NEW t, t = thread[r], NEW d, NEW l,
           IsServed(r, t, d, l), NEW u, NEW c,
           AsksTheSame(u, t), u.start_time \in {t.start_time, EPOCH}, ~IsUncreated(u),
           u.pc \notin {"wait", "stop", "found"},
           u.pc = "flush" => u.log_id = 0 /\ u.pass # "find",
           u.pc \in {"flush", "exit"} => logd_lock' = {r},
           \A s \in {Main(r), Temp(r)} : s \in DOMAIN state' => state'[s].log_mask = t.log_mask,
           Main(r) \in DOMAIN state' /\ IsServing(u) =>
              /\ Main(r) \in DOMAIN state /\ IsServing(t)
              /\ state'[Main(r)] = state[Main(r)]
              /\ Got(t, d, l) \subseteq Got(u, c, l)
    PROVE  IsServed(r, u, c, l)'
  <1>1. t.log_mask \in SUBSET LogIds /\ u.log_mask = t.log_mask /\ u.request = t.request
    BY ThreadHas DEF Thread, AsksTheSame
  <1>2. IsFaithful(u)
    BY FaithfulStill DEF IsServed
  <1>3. IsFaithful(u)'
    BY <1>2 DEF IsFaithful, IsUncreated
  <1>4. IsPlaced(r, u)'
    BY <1>1 DEF IsPlaced
  <1>5. IsChecked(r, u)' /\ IsAbove(r, u)' /\ IsSearched(r, u, l)'
    <2>1. CASE u.pc = "flush"
      BY <1>1, <2>1, BeginsFlush
    <2>2. CASE u.pc # "flush"
      BY <2>2, OwesNothingElse
    <2> QED BY <2>1, <2>2
  <1>6. IsSent(r, u, c, l)'
    BY <1>1, SentStill DEF IsServed
  <1> QED BY <1>3, <1>4, <1>5, <1>6 DEF IsServed

\* The thread is woken, told to end, or its deadline passes.
LEMMA SignalsServe ==
    ASSUME Parts, StatesHaveThreads, SortedInv, LogsRest, NEW r \in Readers, NEW t, t = thread[r],
           NEW d, d = delivered[r], NEW l, IsServed(r, t, d, l),
           DoSocketDelete(r) \/ DeadlinePasses(r),
           NEW u, u = thread'[r], NEW c, c = delivered'[r]
    PROVE  IsServed(r, u, c, l)'
  <1>1. t \in Thread /\ DOMAIN thread = Readers
    BY DEF Parts, ThreadsOK
  <1>2. \A s \in {Main(r), Temp(r)} : s \in DOMAIN state => state[s].log_mask = t.log_mask
    BY DEF IsServed, IsPlaced
  <1>3. CASE DoSocketDelete(r)
    <2>1. PICK v : v = [t EXCEPT !.release = TRUE]
      OBVIOUS
    <2>2. /\ LockFree /\ Main(r) \in DOMAIN state /\ u = TriggerReader(v) /\ c = d
          /\ state' = state
      BY <1>1, <1>3, <2>1 DEF DoSocketDelete, Release, reader_threads
    <2>3. t.pc \notin {"flush", "stop", "exit", "found"} /\ ~IsUncreated(t)
      <3>1. logd_lock # {r}
        BY <2>2 DEF LockFree
      <3> QED BY <2>2, <3>1 DEF IsServed, IsPlaced, StatesHaveThreads, NeedsMain, IsUncreated
    <2>4. /\ v \in Thread /\ v.pc = t.pc /\ v.pass = t.pass /\ v.out = t.out
          /\ v.start_time = t.start_time
          /\ AsksTheSame(v, t)
      BY <1>1, <2>1 DEF Thread, AsksTheSame
    <2>5. /\ u.request = v.request /\ u.log_mask = v.log_mask /\ u.pid = v.pid /\ u.uid = v.uid
          /\ u.privileged = v.privileged /\ u.tail = v.tail /\ u.start_time = v.start_time
          /\ u.out = v.out
          /\ \/ u.pc = v.pc
             \/ v.pc = "wait" /\ u.pc = "woken"
             \/ v.pc = "wait_until" /\ u.pc = "notified"
          /\ u.pc # "wait"
      BY <2>2, <2>4, WokenFields
    <2>6. AsksTheSame(u, t)
      BY <2>4, <2>5 DEF AsksTheSame
    <2>7. u.pc \notin {"wait", "stop", "found", "flush", "exit"} /\ ~IsUncreated(u)
      BY <2>3, <2>4, <2>5 DEF IsUncreated
    <2>8. IsServing(t) /\ Got(t, d, l) \subseteq Got(u, c, l)
      BY <2>2, <2>3, <2>4, <2>5 DEF IsServing, Got
    <2> QED BY <1>2, <2>2, <2>4, <2>5, <2>6, <2>7, <2>8, RestServes
  <1>4. CASE DeadlinePasses(r)
    <2>1. u = [t EXCEPT !.pc = "timed_out"] /\ c = d /\ state' = state /\ t.pc = "wait_until"
      BY <1>1, <1>4 DEF DeadlinePasses
    <2>2. /\ u.pc = "timed_out" /\ AsksTheSame(u, t) /\ u.start_time = t.start_time
      BY <1>1, <2>1 DEF Thread, AsksTheSame
    <2>3. IsServing(t) /\ Got(t, d, l) \subseteq Got(u, c, l)
      BY <2>1, <2>2 DEF IsServing, Got
    <2>4. ~IsUncreated(u)
      BY <2>2 DEF IsUncreated
    <2>5. Main(r) \in DOMAIN state
      BY <2>1, ThreadHas DEF NeedsMain
    <2> QED BY <1>2, <2>1, <2>2, <2>3, <2>4, <2>5, RestServes
  <1> QED BY <1>3, <1>4

\* ThreadFunction() goes on to FlushTo(), or out of its loop.
LEMMA LoopServes ==
    ASSUME Parts, StatesHaveThreads, SortedInv, LogsRest, NEW r \in Readers, NEW t, t = thread[r],
           NEW d, d = delivered[r], NEW l, IsServed(r, t, d, l),
           LoopTop(r) \/ AfterWaitUntil(r),
           NEW u, u = thread'[r], NEW c, c = delivered'[r]
    PROVE  IsServed(r, u, c, l)'
  <1>1. t \in Thread /\ DOMAIN thread = Readers
    BY DEF Parts, ThreadsOK
  <1>2. \A s \in {Main(r), Temp(r)} : s \in DOMAIN state => state[s].log_mask = t.log_mask
    BY DEF IsServed, IsPlaced
  <1>3. t.pc \in {"start", "woken", "notified", "timed_out"} /\ c = d
    BY DEF LoopTop, AfterWaitUntil
  <1>4. Main(r) \in DOMAIN state
    BY <1>3, ThreadHas DEF NeedsMain
  <1>5. IsServing(t)
    BY <1>3 DEF IsServing
  <1>6. ASSUME NEW v \in Thread, AsksTheSame(v, t), v.start_time = t.start_time,
               EnterFlushTo(r, v) \/ LeaveLoop(r, v)
        PROVE  IsServed(r, u, c, l)'
    <2>1. CASE LeaveLoop(r, v)
      <3>1. u = [v EXCEPT !.pc = "exit"] /\ logd_lock' = {r} /\ state' = state
        BY <1>1, <2>1 DEF LeaveLoop
      <3>2. u.pc = "exit" /\ AsksTheSame(u, t) /\ u.start_time = t.start_time
        BY <1>6, <3>1 DEF Thread, AsksTheSame
      <3>3. ~IsServing(u) /\ ~IsUncreated(u)
        BY <3>2 DEF IsServing, IsUncreated
      <3> QED BY <1>2, <3>1, <3>2, <3>3, RestServes
    <2>2. CASE EnterFlushTo(r, v)
      <3>1. PICK pass \in {"first", "second"} : u = BeginFlush(v, pass)
        BY <1>1, <2>2 DEF EnterFlushTo
      <3>2. /\ u.pc = "flush" /\ u.pass = pass /\ u.log_id = 0
            /\ AsksTheSame(u, t) /\ u.start_time = t.start_time
        BY <1>6, <3>1 DEF Thread, AsksTheSame, BeginFlush
      <3>3. /\ logd_lock' = {r}
            /\ \/ state' = state
               \/ state' = WithState(Temp(r), NewFlushToState(state[Main(r)].start,
                                                              state[Main(r)].log_mask))
        BY <2>2 DEF EnterFlushTo
      <3>4. /\ Main(r) \in DOMAIN state' /\ state'[Main(r)] = state[Main(r)]
            /\ \A s \in {Main(r), Temp(r)} : s \in DOMAIN state' =>
                  state'[s].log_mask = t.log_mask
        <4>1. CASE state' = state
          BY <1>2, <1>4, <4>1
        <4>2. CASE state' = WithState(Temp(r), NewFlushToState(state[Main(r)].start,
                                                               state[Main(r)].log_mask))
          <5>1. Main(r) \in DOMAIN state' /\ state'[Main(r)] = state[Main(r)]
            BY <1>4, <4>2, MainIsNotTemp DEF WithState
          <5>2. state'[Temp(r)].log_mask = state[Main(r)].log_mask
            BY <4>2 DEF WithState, NewFlushToState
          <5> QED BY <1>2, <1>4, <5>1, <5>2
        <4> QED BY <3>3, <4>1, <4>2
      <3>5. Got(t, d, l) \subseteq Got(u, c, l)
        BY <1>3, <3>2 DEF Got
      <3>6. ~IsUncreated(u)
        BY <3>2 DEF IsUncreated
      <3> QED BY <1>4, <1>5, <3>2, <3>3, <3>4, <3>5, <3>6, RestServes
    <2> QED BY <1>6, <2>1, <2>2
  <1>7. CASE LoopTop(r)
    <2>1. CASE EnterFlushTo(r, t) \/ LeaveLoop(r, t)
      BY <1>1, <1>6, <2>1 DEF AsksTheSame
    <2>2. CASE /\ thread' = [thread EXCEPT ![r].pc = "wait_until"]
               /\ UNCHANGED <<logd_lock, state>>
      <3>1. u = [t EXCEPT !.pc = "wait_until"] /\ state' = state
        BY <1>1, <2>2
      <3>2. u.pc = "wait_until" /\ AsksTheSame(u, t) /\ u.start_time = t.start_time
        BY <1>1, <3>1 DEF Thread, AsksTheSame
      <3>3. Got(t, d, l) \subseteq Got(u, c, l) /\ ~IsUncreated(u)
        BY <1>3, <3>2 DEF Got, IsUncreated
      <3> QED BY <1>2, <1>4, <1>5, <3>1, <3>2, <3>3, RestServes
    <2> QED BY <1>7, <2>1, <2>2 DEF LoopTop
  <1>8. CASE AfterWaitUntil(r)
    <2>1. PICK b \in BOOLEAN : b = (t.deadline /\ t.pc # "timed_out")
      OBVIOUS
    <2> DEFINE v == [t EXCEPT !.deadline = b]
    <2>2. LeaveLoop(r, v) \/ EnterFlushTo(r, v)
      BY <1>8, <2>1 DEF AfterWaitUntil
    <2>3. v \in Thread /\ AsksTheSame(v, t) /\ v.start_time = t.start_time
      BY <1>1 DEF Thread, AsksTheSame
    <2> HIDE DEF v
    <2> QED BY <1>6, <2>2, <2>3
  <1> QED BY <1>7, <1>8

\* A write to the client returns.
LEMMA WriteServes ==
    ASSUME Parts, StatesHaveThreads, SortedInv, LogsRest, NEW r \in Readers, NEW t, t = thread[r],
           NEW d, d = delivered[r], NEW l, IsServed(r, t, d, l),
           WriteSucceeds(r) \/ WriteFails(r),
           NEW u, u = thread'[r], NEW c, c = delivered'[r]
    PROVE  IsServed(r, u, c, l)'
  <1>1. t \in Thread /\ DOMAIN thread = Readers /\ d \in Seq(Nat) /\ DOMAIN delivered = Readers
    BY DEF Parts, ThreadsOK, HistoryOK
  <1>2. \A s \in {Main(r), Temp(r)} : s \in DOMAIN state => state[s].log_mask = t.log_mask
    BY DEF IsServed, IsPlaced
  <1>3. t.pc = "write" /\ logd_lock' = {r} /\ state' = state
    BY DEF WriteSucceeds, WriteFails
  <1>4. Main(r) \in DOMAIN state /\ t.pass = "second" /\ IsServing(t)
    BY <1>3, ThreadHas DEF NeedsMain, IsServing
  <1>5. CASE WriteSucceeds(r)
    <2>1. u = [t EXCEPT !.pc = "flush", !.log_id = 0, !.out = 0] /\ c = Append(d, t.out)
      BY <1>1, <1>5 DEF WriteSucceeds
    <2>2. /\ u.pc = "flush" /\ u.log_id = 0 /\ u.pass = "second" /\ AsksTheSame(u, t)
          /\ u.start_time = t.start_time /\ t.out \in Nat
      BY <1>1, <1>4, <2>1 DEF Thread, AsksTheSame
    <2>3. Got(t, d, l) \subseteq Got(u, c, l)
      <3>1. Len(c) = Len(d) + 1 /\ c[Len(d) + 1] = t.out /\ Len(d) \in Nat
            /\ \A k \in 1 .. Len(d) : c[k] = d[k]
        BY <1>1, <2>1, <2>2
      <3>2. {d[k] : k \in 1 .. Len(d)} \subseteq {c[k] : k \in 1 .. Len(c)}
        BY <3>1
      <3>3. t.out \in {c[k] : k \in 1 .. Len(c)}
        BY <3>1
      <3> QED BY <1>3, <3>2, <3>3 DEF Got
    <2>4. ~IsUncreated(u)
      BY <2>2 DEF IsUncreated
    <2> QED BY <1>2, <1>3, <1>4, <2>2, <2>3, <2>4, RestServes
  <1>6. CASE WriteFails(r)
    <2>1. u = [t EXCEPT !.pc = "exit", !.start_time = EPOCH, !.out = 0]
      BY <1>1, <1>6 DEF WriteFails
    <2>2. u.pc = "exit" /\ AsksTheSame(u, t) /\ u.start_time = EPOCH
      BY <1>1, <2>1 DEF Thread, AsksTheSame
    <2>3. ~IsServing(u) /\ ~IsUncreated(u)
      BY <2>2 DEF IsServing, IsUncreated
    <2> QED BY <1>2, <1>3, <2>2, <2>3, RestServes
  <1> QED BY <1>5, <1>6

\* A first pass is over, or the thread.
LEMMA EndsServe ==
    ASSUME Parts, StatesHaveThreads, SortedInv, LogsRest, NEW r \in Readers, NEW t, t = thread[r],
           NEW d, d = delivered[r], NEW l, IsServed(r, t, d, l),
           FirstPassReturns(r) \/ ThreadExits(r),
           NEW u, u = thread'[r], NEW c, c = delivered'[r]
    PROVE  IsServed(r, u, c, l)'
  <1>1. t \in Thread /\ DOMAIN thread = Readers
    BY DEF Parts, ThreadsOK
  <1>2. \A s \in {Main(r), Temp(r)} : s \in DOMAIN state => state[s].log_mask = t.log_mask
    BY DEF IsServed, IsPlaced
  <1>3. PICK p \in {Main(r), Temp(r)} : /\ state' = WithoutState(p)
                                        /\ ThreadExits(r) => p = Main(r)
                                        /\ FirstPassReturns(r) => p = Temp(r)
    <2>1. ~(FirstPassReturns(r) /\ ThreadExits(r))
      BY DEF FirstPassReturns, ThreadExits
    <2> QED BY <2>1 DEF FirstPassReturns, ThreadExits
  <1>4. \A s \in DOMAIN state' : s # p /\ s \in DOMAIN state /\ state'[s] = state[s]
    BY <1>3 DEF WithoutState
  <1>5. \A s \in {Main(r), Temp(r)} : s \in DOMAIN state' => state'[s].log_mask = t.log_mask
    BY <1>2, <1>4
  <1>6. CASE FirstPassReturns(r)
    <2>1. u = BeginFlush(t, "second") /\ c = d /\ logd_lock' = {r} /\ t.pc = "stop" /\ t.pass = "first"
      BY <1>1, <1>6 DEF FirstPassReturns
    <2>2. /\ u.pc = "flush" /\ u.log_id = 0 /\ u.pass = "second" /\ AsksTheSame(u, t)
          /\ u.start_time = t.start_time
      BY <1>1, <2>1 DEF Thread, AsksTheSame, BeginFlush
    <2>3. IsServing(t) /\ Got(t, d, l) \subseteq Got(u, c, l) /\ ~IsUncreated(u)
      BY <2>1, <2>2 DEF IsServing, Got, IsUncreated
    <2> QED BY <1>4, <1>5, <2>1, <2>2, <2>3, RestServes
  <1>7. CASE ThreadExits(r)
    <2>1. u = [t EXCEPT !.pc = "gone"]
      BY <1>1, <1>7 DEF ThreadExits
    <2>2. u.pc = "gone" /\ AsksTheSame(u, t) /\ u.start_time = t.start_time
      BY <1>1, <2>1 DEF Thread, AsksTheSame
    <2>3. ~IsUncreated(u) /\ Main(r) \notin DOMAIN state'
      BY <1>3, <1>4, <1>7, <2>2 DEF IsUncreated
    <2> QED BY <1>5, <2>2, <2>3, RestServes
  <1> QED BY <1>6, <1>7

\* No number is below the first.
LEMMA NoneBelowOne ==
    ASSUME Parts, SortedInv, PositiveInv, LogsRest, NEW q, NEW mask \in SUBSET LogIds, NEW G
    PROVE  IsComplete(q, mask, 1, G)'
  <1> SUFFICES ASSUME NEW i \in mask, NEW e, IsHeld(i, e)', e.sequence < 1
               PROVE  FALSE
    BY DEF IsComplete, IsWanted
  <1>1. i \in LogIds /\ IsHeld(i, e)
    BY RestsSorted
  <1>2. e.sequence \in Nat /\ e.sequence >= 1
    BY <1>1, HeldAreEntries DEF PositiveInv
  <1> QED BY <1>2

\* A command begins the search, or needs none.
LEMMA OnDataAvailableServes ==
    ASSUME Parts, StatesHaveThreads, SortedInv, PositiveInv, LogsRest, NEW r \in Readers,
           NEW t, t = thread[r], NEW d, d = delivered[r], NEW l, IsServed(r, t, d, l),
           OnDataAvailable(r), NEW u, u = thread'[r], NEW c, c = delivered'[r]
    PROVE  IsServed(r, u, c, l)'
  <1>1. DOMAIN thread = Readers /\ t.pc = "idle"
    BY DEF Parts, ThreadsOK, OnDataAvailable
  <1>2. PICK q \in Requests :
           \/ /\ q.start = EPOCH
              /\ thread' = [thread EXCEPT ![r] = NewThread(q, "found")]
              /\ UNCHANGED <<logd_lock, state>>
           \/ /\ q.start # EPOCH
              /\ logd_lock' = {r}
              /\ thread' = [thread EXCEPT ![r] = NewThread(q, "flush")]
              /\ state' = WithState(Temp(r), NewFlushToState(1, NewThread(q, "flush").log_mask))
    BY DEF OnDataAvailable
  <1>3. Main(r) \notin DOMAIN state /\ Temp(r) \notin DOMAIN state
    BY <1>1 DEF StatesHaveThreads, NeedsMain, NeedsTemp
  <1>4. ASSUME NEW pc \in {"found", "flush"}, u = NewThread(q, pc)
        PROVE  /\ u.pc = pc /\ u.pass = "find" /\ u.request = q /\ u.log_mask \in SUBSET LogIds
               /\ u.pid = q.pid /\ u.uid = q.uid /\ u.privileged = q.privileged
               /\ u.tail = q.tail /\ u.start_time = q.start
               /\ u.log_id = 0 /\ u.last = 1 /\ u.sequence = 1 /\ u.start_time_set = FALSE
    <2>1. u.log_mask \in SUBSET LogIds
      BY <1>4, NewThreadType
    <2>2. u = NewThread(q, pc)
      BY <1>4
    <2> QED BY <2>1, <2>2 DEF NewThread
  <1>5. CASE u = NewThread(q, "found") /\ state' = state
    <2>1. /\ u.pc = "found" /\ u.pass = "find" /\ u.request = q /\ u.log_mask \in SUBSET LogIds
          /\ u.pid = q.pid /\ u.uid = q.uid /\ u.privileged = q.privileged
          /\ u.tail = q.tail /\ u.start_time = q.start /\ u.sequence = 1
      BY <1>4, <1>5
    <2>2. IsFaithful(u)' /\ IsPlaced(r, u)'
      BY <1>3, <1>5, <2>1 DEF IsFaithful, IsPlaced, IsUncreated
    <2>3. IsChecked(r, u)' /\ IsAbove(r, u)' /\ IsSent(r, u, c, l)'
      BY <1>3, <1>5, <2>1 DEF IsChecked, IsAbove, IsSent
    <2>4. IsComplete(u.request, u.log_mask, 1, l)'
      BY <2>1, NoneBelowOne
    <2>5. IsSearched(r, u, l)'
      BY <2>1, <2>4 DEF IsSearched
    <2> QED BY <2>2, <2>3, <2>5 DEF IsServed
  <1>6. CASE /\ u = NewThread(q, "flush") /\ q.start # EPOCH /\ logd_lock' = {r}
             /\ state' = WithState(Temp(r), NewFlushToState(1, NewThread(q, "flush").log_mask))
    <2>1. /\ u.pc = "flush" /\ u.pass = "find" /\ u.request = q /\ u.log_mask \in SUBSET LogIds
          /\ u.pid = q.pid /\ u.uid = q.uid /\ u.privileged = q.privileged
          /\ u.tail = q.tail /\ u.start_time = q.start
          /\ u.log_id = 0 /\ u.last = 1 /\ u.start_time_set = FALSE
      BY <1>4, <1>6
    <2>2. PICK s : s = Temp(r)
      OBVIOUS
    <2>3. /\ s \in DOMAIN state' /\ state'[s] = NewFlushToState(1, u.log_mask)
          /\ Main(r) \notin DOMAIN state'
      BY <1>3, <1>6, <2>2, MainIsNotTemp DEF WithState
    <2>4. /\ state'[s].start = 1 /\ state'[s].log_mask = u.log_mask
          /\ DOMAIN state'[s].log_positions = {}
      <3>1. NewFlushToState(1, u.log_mask).start = 1
            /\ NewFlushToState(1, u.log_mask).log_mask = u.log_mask
        BY DEF NewFlushToState
      <3> QED BY <2>1, <2>3, <3>1, NewFlushToStateType
    <2>5. IsFaithful(u)' /\ IsPlaced(r, u)'
      BY <1>6, <2>1, <2>2, <2>3, <2>4 DEF IsFaithful, IsPlaced, IsUncreated
    <2>6. IsChecked(r, u)' /\ IsAbove(r, u)'
      BY <2>1, BeginsFlush
    <2>7. IsComplete(u.request, u.log_mask, 1, {})'
      BY <2>1, NoneBelowOne
    <2>8. HasAllRead(s, u.request, u.log_mask, {})'
      BY <2>4 DEF HasAllRead, HasRead
    <2>9. IsSearched(r, u, l)'
      BY <2>1, <2>2, <2>4, <2>7, <2>8 DEF IsSearched
    <2>10. IsSent(r, u, c, l)'
      BY <2>3 DEF IsSent
    <2> QED BY <2>5, <2>6, <2>9, <2>10 DEF IsServed
  <1> QED BY <1>1, <1>2, <1>5, <1>6

\* Where all is read and nothing of it is wanted, nothing is missed.
LEMMA AllReadIsComplete ==
    ASSUME Parts, SortedInv, LogsRest, NEW s, NEW q, NEW mask \in SUBSET LogIds, NEW G, NEW H,
           G \subseteq H, HasAllRead(s, q, mask, G), \A i \in mask : HasReadAll(s, i), NEW n
    PROVE  IsComplete(q, mask, n, H)'
  <1>1. \A i \in LogIds : \A e : IsHeld(i, e)' => IsHeld(i, e)
    BY RestsSorted
  <1> QED BY <1>1 DEF IsComplete, HasAllRead, HasReadAll

\* The search has found where to start, or that there is nothing to wait behind.
LEMMA FindReturnsServes ==
    ASSUME Parts, StatesHaveThreads, SortedInv, PositiveInv, LogsRest, NEW r \in Readers,
           NEW t, t = thread[r], NEW d, d = delivered[r], NEW l, IsServed(r, t, d, l),
           FindReturns(r), NEW u, u = thread'[r], NEW c, c = delivered'[r]
    PROVE  IsServed(r, u, c, l)'
  <1>1. /\ DOMAIN thread = Readers /\ t.pc = "stop" /\ t.pass = "find" /\ t \in Thread
        /\ state' = WithoutState(Temp(r)) /\ sequence \in Nat
    BY DEF Parts, ThreadsOK, WritersOK, FindReturns
  <1>2. Main(r) \notin DOMAIN state /\ Temp(r) \in DOMAIN state
    BY <1>1, ThreadHas DEF StatesHaveThreads, NeedsMain, NeedsTemp
  <1>3. Main(r) \notin DOMAIN state' /\ Temp(r) \notin DOMAIN state'
    BY <1>1, <1>2 DEF WithoutState
  <1> DEFINE Ends(pc, n) == /\ u = [t EXCEPT !.pc = pc, !.sequence = n]
                            /\ \/ pc = "gone"
                               \/ pc = "found" /\ n = t.sequence /\ t.start_time_set
                               \/ pc = "found" /\ ~t.start_time_set
  <1>4. PICK pc, n : Ends(pc, n)
    <2>1. [t EXCEPT !.pc = "gone", !.sequence = t.sequence] = [t EXCEPT !.pc = "gone"]
          /\ [t EXCEPT !.pc = "found", !.sequence = t.sequence] = [t EXCEPT !.pc = "found"]
      BY <1>1 DEF Thread
    <2>2. \/ u = [t EXCEPT !.pc = "gone"]
          \/ u = [t EXCEPT !.pc = "found"] /\ t.start_time_set
          \/ u = [t EXCEPT !.pc = "found", !.sequence = sequence] /\ ~t.start_time_set
      BY <1>1 DEF FindReturns
    <2>3. Ends("gone", t.sequence) \/ Ends("found", t.sequence) \/ Ends("found", sequence)
      BY <2>1, <2>2, Zenon
    <2> HIDE DEF Ends
    <2> QED BY <2>3, Zenon
  <1>5. /\ u.pc = pc /\ u.sequence = n /\ u.pass = "find" /\ AsksTheSame(u, t)
        /\ u.start_time = t.start_time /\ u.request = t.request /\ u.log_mask = t.log_mask
        /\ t.log_mask \in SUBSET LogIds /\ t.sequence \in Nat
    BY <1>1, <1>4 DEF Thread, AsksTheSame
  <1>6. IsFaithful(u)'
    <2>1. IsUncreated(t) /\ IsFaithful(t)
      BY <1>1 DEF IsUncreated, IsServed
    <2>2. IsFaithful(u)
      BY <1>4, <1>5, <2>1, FaithfulStill
    <2> QED BY <2>2 DEF IsFaithful, IsUncreated
  <1>7. IsPlaced(r, u)' /\ IsSent(r, u, c, l)'
    BY <1>3, <1>4, <1>5 DEF IsPlaced, IsSent
  <1>8. IsChecked(r, u)' /\ IsAbove(r, u)'
    BY <1>4, <1>5 DEF IsChecked, IsAbove
  <1>9. PICK s, m : s = Temp(r) /\ m = state[s].start
    OBVIOUS
  <1>10. /\ IsComplete(t.request, t.log_mask, m, {}) /\ m \in Nat
         /\ t.start_time_set => t.sequence <= m
         /\ ~t.start_time_set => /\ HasAllRead(s, t.request, t.log_mask, {})
                                 /\ \A i \in t.log_mask : HasReadAll(s, i)
    <2>1. m \in Nat
      BY <1>2, <1>9 DEF Parts, StatesOK, IsState, FlushToState
    <2>2. CurrentOf(r, t) = s
      BY <1>1, <1>9 DEF CurrentOf
    <2>3. ~t.start_time_set => \A i \in t.log_mask : HasReadAll(s, i)
      BY <1>1, <2>2 DEF IsServed, IsChecked
    <2> QED BY <1>1, <1>9, <2>1, <2>3 DEF IsServed, IsSearched
  <1>11. CASE pc = "gone"
    BY <1>5, <1>6, <1>7, <1>8, <1>11 DEF IsServed, IsSearched
  <1>12. CASE pc = "found"
    <2>1. IsComplete(u.request, u.log_mask, u.sequence, l)'
      <3>1. CASE t.start_time_set
        <4> SUFFICES ASSUME NEW i \in u.log_mask, NEW e, IsHeld(i, e)', IsWanted(u.request, e),
                            e.sequence < u.sequence
                     PROVE  FALSE
          BY DEF IsComplete, IsWanted
        <4>1. i \in LogIds /\ IsHeld(i, e) /\ IsWanted(t.request, e) /\ i \in t.log_mask
          BY <1>5, RestsSorted
        <4>2. e.sequence \in Nat /\ e.sequence < t.sequence /\ t.sequence <= m
          BY <1>4, <1>5, <1>10, <1>12, <3>1, <4>1, HeldAreEntries
        <4>3. e.sequence < m
          BY <1>5, <1>10, <4>2
        <4> QED BY <1>10, <4>1, <4>3 DEF IsComplete
      <3>2. CASE ~t.start_time_set
        <4>1. IsComplete(t.request, t.log_mask, n, l)'
          BY <1>5, <1>10, <3>2, AllReadIsComplete
        <4> QED BY <1>5, <4>1
      <3> QED BY <3>1, <3>2
    <2>2. IsSearched(r, u, l)'
      BY <1>5, <1>12, <2>1 DEF IsSearched
    <2> QED BY <1>6, <1>7, <1>8, <2>2 DEF IsServed
  <1> QED BY <1>4, <1>11, <1>12

\* The thread starts where the search ended.
LEMMA CreateThreadServes ==
    ASSUME Parts, StatesHaveThreads, SortedInv, PositiveInv, LogsRest, NEW r \in Readers,
           NEW t, t = thread[r], NEW d, d = delivered[r], NEW l, IsServed(r, t, d, l),
           CreateThread(r), NEW u, u = thread'[r], NEW c, c = delivered'[r]
    PROVE  IsServed(r, u, c, l)'
  <1>1. /\ DOMAIN thread = Readers /\ t.pc = "found" /\ t \in Thread
        /\ state' = WithState(Main(r), NewFlushToState(t.sequence, t.log_mask))
    BY DEF Parts, ThreadsOK, CreateThread
  <1>2. Main(r) \notin DOMAIN state /\ Temp(r) \notin DOMAIN state
    BY <1>1 DEF StatesHaveThreads, NeedsMain, NeedsTemp
  <1>3. u = [t EXCEPT !.pc = "start", !.pass = "second", !.last = 1, !.start_time_set = FALSE]
    BY <1>1 DEF CreateThread
  <1>4. /\ u.pc = "start" /\ AsksTheSame(u, t) /\ u.start_time = t.start_time
        /\ u.request = t.request /\ u.log_mask = t.log_mask
        /\ t.log_mask \in SUBSET LogIds /\ t.sequence \in Nat
    BY <1>1, <1>3 DEF Thread, AsksTheSame
  <1>5. PICK s : s = Main(r)
    OBVIOUS
  <1>6. /\ s \in DOMAIN state' /\ state'[s] = NewFlushToState(t.sequence, t.log_mask)
        /\ Temp(r) \notin DOMAIN state'
    BY <1>1, <1>2, <1>5, MainIsNotTemp DEF WithState
  <1>7. /\ state'[s].start = t.sequence /\ state'[s].log_mask = t.log_mask
        /\ DOMAIN state'[s].log_positions = {}
    <2>1. /\ NewFlushToState(t.sequence, t.log_mask).start = t.sequence
          /\ NewFlushToState(t.sequence, t.log_mask).log_mask = t.log_mask
      BY DEF NewFlushToState
    <2> QED BY <1>4, <1>6, <2>1, NewFlushToStateType
  <1>8. IsFaithful(u)'
    <2>1. IsFaithful(u)
      BY <1>4, FaithfulStill DEF IsServed, IsUncreated
    <2> QED BY <2>1 DEF IsFaithful, IsUncreated
  <1>9. IsPlaced(r, u)'
    BY <1>4, <1>5, <1>6, <1>7 DEF IsPlaced
  <1>10. IsChecked(r, u)' /\ IsAbove(r, u)' /\ IsSearched(r, u, l)'
    BY <1>4, OwesNothingElse
  <1>11. IsSent(r, u, c, l)'
    <2>1. l \subseteq Got(u, c, l)
      BY DEF Got
    <2>2. PICK H : H = Got(u, c, l)
      OBVIOUS
    <2>3. IsComplete(t.request, t.log_mask, t.sequence, l)
      BY <1>1 DEF IsServed, IsSearched
    <2>4. IsComplete(t.request, t.log_mask, t.sequence, H)'
      BY <1>4, <2>1, <2>2, <2>3, CompleteStill
    <2>5. HasAllRead(s, t.request, t.log_mask, H)'
      BY <1>7 DEF HasAllRead, HasRead
    <2>6. Got(u, c, l)' = H
      BY <2>2 DEF Got
    <2> QED BY <1>4, <1>5, <1>7, <2>4, <2>5, <2>6 DEF IsSent
  <1> QED BY <1>8, <1>9, <1>10, <1>11 DEF IsServed

\* What a position passes over below the start was complete already.
LEMMA MovesAllRead ==
    ASSUME Parts, SortedInv, LogsRest, NEW s, NEW q, NEW mask \in SUBSET LogIds, NEW n, NEW G,
           IsComplete(q, mask, n, G), HasAllRead(s, q, mask, G),
           \A j \in LogIds : \A e : HasRead(s, j, e)' => HasRead(s, j, e) \/ e.sequence < n
    PROVE  HasAllRead(s, q, mask, G)'
  <1>1. \A j \in LogIds : \A e : IsHeld(j, e)' => IsHeld(j, e)
    BY RestsSorted
  <1>2. \A j : \A e : HasRead(s, j, e)' => IsHeld(j, e)'
    BY DEF HasRead, IsHeld, ChunksOf
  <1> QED BY <1>1, <1>2 DEF IsComplete, HasAllRead, IsWanted

LEMMA CheckForNewLogsServes ==
    ASSUME Parts, StatesHaveThreads, SortedInv, BehindInv, LogsRest, NEW r \in Readers,
           NEW t, t = thread[r], NEW d, d = delivered[r], NEW l, IsServed(r, t, d, l),
           CheckForNewLogs(r), NEW u, u = thread'[r], NEW c, c = delivered'[r]
    PROVE  IsServed(r, u, c, l)'
  <1>1. /\ DOMAIN thread = Readers /\ t.pc = "flush" /\ t \in Thread /\ logd_lock' = {r} /\ c = d
        /\ u = [t EXCEPT !.log_id = t.log_id + 1]
    BY DEF Parts, ThreadsOK, CheckForNewLogs, Flushing
  <1>2. PICK s, i : s = Current(r) /\ i = thread[r].log_id
    OBVIOUS
  <1>3. ChecksLog(s, i)
    BY <1>2, CheckForNewLogsReads
  <1>4. /\ u.pc = "flush" /\ u.pass = t.pass /\ u.log_id = i + 1 /\ AsksTheSame(u, t)
        /\ u.start_time = t.start_time /\ u.request = t.request /\ u.log_mask = t.log_mask
        /\ t.log_mask \in SUBSET LogIds /\ u.last = t.last /\ u.sequence = t.sequence
        /\ u.start_time_set = t.start_time_set
    BY <1>1, <1>2 DEF Thread, AsksTheSame
  <1>5. PICK n : n = state[s].start
    OBVIOUS
  <1>6. /\ s \in DOMAIN state /\ i \in LogIds /\ DOMAIN state' = DOMAIN state
        /\ \A p \in DOMAIN state : p # s => state'[p] = state[p]
        /\ state'[s].start = n /\ state'[s].log_mask = state[s].log_mask /\ n \in Nat
        /\ \A j : j # i => (j \in state'[s].logs_needed <=> j \in state[s].logs_needed)
        /\ \A j \in LogIds : \A e : HasRead(s, j, e)' => HasRead(s, j, e) \/ e.sequence < n
        /\ \A j \in LogIds : j # i /\ HasReadAll(s, j) => HasReadAll(s, j)'
        /\ i \in state'[s].logs_needed => HasReadAll(s, i)'
    BY <1>3, <1>5 DEF ChecksLog, Parts, StatesOK, IsState, FlushToState
  <1>7. s = CurrentOf(r, t) /\ s = CurrentOf(r, u) /\ CurrentOf(r, u)' = s
    BY <1>2, <1>4 DEF Current, CurrentOf, Main, Temp
  <1>8. IsFaithful(u)'
    <2>1. IsFaithful(u)
      BY <1>1, <1>4, FaithfulStill DEF IsServed, IsUncreated
    <2> QED BY <2>1 DEF IsFaithful, IsUncreated
  <1>9. IsPlaced(r, u)'
    BY <1>1, <1>4, <1>6 DEF IsServed, IsPlaced
  <1>10. IsChecked(r, u)' /\ IsAbove(r, u)'
    <2>1. ASSUME NEW j \in t.log_mask, j < i + 1, j \in state'[s].logs_needed
          PROVE  HasReadAll(s, j)'
      <3>1. CASE j = i
        BY <1>6, <2>1, <3>1
      <3>2. CASE j # i
        <4>1. j \in LogIds /\ j \in state[s].logs_needed
          BY <1>4, <1>6, <2>1, <3>2
        <4>2. j < t.log_id
          BY <1>2, <1>6, <2>1, <3>2, <4>1, LogIdAssumption DEF LogIds
        <4>3. HasReadAll(s, j)
          BY <1>1, <1>7, <4>1, <4>2 DEF IsServed, IsChecked
        <4> QED BY <1>6, <3>2, <4>1, <4>3
      <3> QED BY <3>1, <3>2
    <2> QED BY <1>4, <1>7, <2>1 DEF IsChecked, IsAbove
  <1>11. IsSearched(r, u, l)'
    <2>1. CASE t.pass # "find"
      BY <1>4, <2>1 DEF IsSearched
    <2>2. CASE t.pass = "find"
      <3>1. /\ s = Temp(r) /\ ~t.start_time_set /\ t.last <= n
            /\ IsComplete(t.request, t.log_mask, n, {})
            /\ HasAllRead(s, t.request, t.log_mask, {})
        BY <1>1, <1>5, <1>7, <2>2 DEF IsServed, IsSearched, CurrentOf
      <3>2. HasAllRead(s, t.request, t.log_mask, {})'
        BY <1>4, <1>6, <3>1, MovesAllRead
      <3>3. IsComplete(t.request, t.log_mask, n, {})'
        BY <1>4, <1>6, <3>1, CompleteStill
      <3> QED BY <1>4, <1>6, <3>1, <3>2, <3>3 DEF IsSearched
    <2> QED BY <2>1, <2>2
  <1>12. IsServing(t) /\ Got(t, d, l) = Got(u, c, l)
    BY <1>1, <1>4 DEF IsServing, Got
  <1>13. IsSent(r, u, c, l)'
    <2>1. CASE t.pass # "second"
      <3>1. Main(r) # s
        BY <1>7, <2>1, MainIsNotTemp DEF CurrentOf
      <3> QED BY <1>4, <1>6, <1>12, <3>1, SentStill DEF IsServed
    <2>2. CASE t.pass = "second"
      <3>1. PICK G : G = Got(t, d, l)
        OBVIOUS
      <3>2. /\ s = Main(r) /\ IsComplete(t.request, t.log_mask, n, G)
            /\ HasAllRead(s, t.request, t.log_mask, G)
        BY <1>5, <1>6, <1>7, <1>12, <2>2, <3>1 DEF IsServed, IsSent, CurrentOf
      <3>3. HasAllRead(s, t.request, t.log_mask, G)'
        BY <1>4, <1>6, <3>2, MovesAllRead
      <3>4. IsComplete(t.request, t.log_mask, n, G)'
        BY <1>4, <1>6, <3>2, CompleteStill
      <3>5. Got(u, c, l)' = G
        BY <1>12, <3>1 DEF Got
      <3> QED BY <1>4, <1>6, <3>2, <3>3, <3>4, <3>5 DEF IsSent
    <2> QED BY <2>1, <2>2
  <1> QED BY <1>8, <1>9, <1>10, <1>11, <1>13 DEF IsServed

\* A log that has no next entry when the loop is over is read to its end.
LEMMA WithoutNextIsRead ==
    ASSUME Parts, BehindInv, NEW r \in Readers, NEW t, t = thread[r], NEW s, s = CurrentOf(r, t),
           s \in DOMAIN state, t.pc = "flush", t.log_id = LOG_ID_MAX,
           IsPlaced(r, t), IsChecked(r, t), NEW j \in t.log_mask, j \notin UnreadLogs(state[s])
    PROVE  HasReadAll(s, j)
  <1>1. j \in LogIds /\ t.log_mask = state[s].log_mask
    BY ThreadHas DEF Thread, IsPlaced, CurrentOf
  <1>2. j \in state[s].logs_needed
    BY <1>1 DEF BehindInv, IsBehind, UnreadLogs
  <1>3. j < LOG_ID_MAX
    BY <1>1, LogIdAssumption DEF LogIds
  <1> QED BY <1>2, <1>3 DEF IsChecked

LEMMA FlushToNoMoreServes ==
    ASSUME Parts, StatesHaveThreads, SortedInv, BehindInv, LogsRest, NEW r \in Readers,
           NEW t, t = thread[r], NEW d, d = delivered[r], NEW l, IsServed(r, t, d, l),
           FlushToNoMore(r), NEW u, u = thread'[r], NEW c, c = delivered'[r]
    PROVE  IsServed(r, u, c, l)'
  <1>1. /\ DOMAIN thread = Readers /\ t.pc = "flush" /\ t \in Thread /\ logd_lock' = {r} /\ c = d
        /\ u = [t EXCEPT !.pc = "stop"] /\ state' = state /\ t.log_id = LOG_ID_MAX
        /\ UnreadLogs(state[Current(r)]) = {}
    BY DEF Parts, ThreadsOK, FlushToNoMore, Flushing
  <1>2. PICK s : s = CurrentOf(r, t)
    OBVIOUS
  <1>3. s \in DOMAIN state /\ UnreadLogs(state[s]) = {}
    BY <1>1, <1>2, CurrentIsLive DEF Current, CurrentOf
  <1>4. /\ u.pc = "stop" /\ u.pass = t.pass /\ AsksTheSame(u, t)
        /\ u.start_time = t.start_time /\ u.request = t.request /\ u.log_mask = t.log_mask
        /\ t.log_mask \in SUBSET LogIds /\ u.last = t.last /\ u.sequence = t.sequence
        /\ u.start_time_set = t.start_time_set
    BY <1>1 DEF Thread, AsksTheSame
  <1>5. \A j \in t.log_mask : HasReadAll(s, j)
    BY <1>1, <1>2, <1>3, WithoutNextIsRead DEF IsServed
  <1>6. \A j \in LogIds : HasReadAll(s, j) => HasReadAll(s, j)'
    <2>1. \A j \in LogIds : \A e : HasRead(s, j, e)' <=> HasRead(s, j, e)
      BY <1>1, ReadTheSame
    <2>2. \A j \in LogIds : \A e : IsHeld(j, e)' <=> IsHeld(j, e)
      BY RestsSorted
    <2> QED BY <2>1, <2>2 DEF HasReadAll
  <1>7. IsFaithful(u)'
    <2>1. IsFaithful(u)
      BY <1>1, <1>4, FaithfulStill DEF IsServed, IsUncreated
    <2> QED BY <2>1 DEF IsFaithful, IsUncreated
  <1>8. IsPlaced(r, u)'
    BY <1>1, <1>4 DEF IsServed, IsPlaced
  <1>9. IsChecked(r, u)' /\ IsAbove(r, u)'
    <2>1. CurrentOf(r, u)' = s
      BY <1>2, <1>4 DEF CurrentOf, Main, Temp
    <2> QED BY <1>4, <1>5, <1>6, <2>1 DEF IsChecked, IsAbove
  <1>10. IsSearched(r, u, l)'
    <2>1. CASE t.pass # "find"
      BY <1>4, <2>1 DEF IsSearched
    <2>2. CASE t.pass = "find"
      <3>1. PICK n : n = state[s].start
        OBVIOUS
      <3>2. /\ s = Temp(r) /\ ~t.start_time_set /\ t.last <= n
            /\ IsComplete(t.request, t.log_mask, n, {})
            /\ HasAllRead(s, t.request, t.log_mask, {})
        BY <1>1, <1>2, <2>2, <3>1 DEF IsServed, IsSearched, CurrentOf
      <3>3. n \in Nat
        BY <1>3, <3>1 DEF Parts, StatesOK, IsState, FlushToState
      <3>4. HasAllRead(s, t.request, t.log_mask, {})'
        BY <1>1, <1>4, <3>2, AllReadStill
      <3>5. IsComplete(t.request, t.log_mask, n, {})'
        BY <1>4, <3>2, <3>3, CompleteStill
      <3>6. state'[s].start = n
        BY <1>1, <3>1
      <3> QED BY <1>4, <3>2, <3>4, <3>5, <3>6 DEF IsSearched
    <2> QED BY <2>1, <2>2
  <1>11. IsServing(t) /\ Got(t, d, l) = Got(u, c, l)
    BY <1>1, <1>4 DEF IsServing, Got
  <1>12. IsSent(r, u, c, l)'
    BY <1>1, <1>4, <1>11, SentStill DEF IsServed
  <1> QED BY <1>7, <1>8, <1>9, <1>10, <1>12 DEF IsServed

\* PopNextUnreadLog() takes the lowest entry there is: all that is lower was read, so
\* the start moves up to it and nothing the request wants is left below.
LEMMA PopIsComplete ==
    ASSUME Parts, SortedInv, LogsRest, ~Clearing, NEW s \in DOMAIN state, NEW i, NEW entry,
           Pops(s, i, entry), NEW q, NEW mask \in SUBSET LogIds,
           \A j \in mask : j \notin UnreadLogs(state[s]) => HasReadAll(s, j),
           NEW n, n = state[s].start, NEW m, m = state'[s].start, NEW G, NEW H, G \subseteq H,
           IsComplete(q, mask, n, G), HasAllRead(s, q, mask, G)
    PROVE  /\ IsComplete(q, mask, m, H)'
           /\ (~(entry.sequence < n) /\ IsWanted(q, entry) => entry.sequence \in H) =>
                 HasAllRead(s, q, mask, H)'
  <1>1. /\ i \in LogIds /\ IsHeld(i, entry) /\ entry.sequence \in Nat /\ n \in Nat
        /\ m = IF entry.sequence < n THEN n ELSE entry.sequence
        /\ \A j \in LogIds : \A e : HasRead(s, j, e)' => HasRead(s, j, e) \/ (j = i /\ e = entry)
    BY PopReads
  <1>2. \A j \in LogIds : \A e : IsHeld(j, e)' => IsHeld(j, e)
    BY RestsSorted
  <1>3. IsComplete(q, mask, m, H)'
    <2> SUFFICES ASSUME NEW j \in mask, NEW e, IsHeld(j, e)', IsWanted(q, e), e.sequence < m
                 PROVE  e.sequence \in H
      BY DEF IsComplete, IsWanted
    <2>1. j \in LogIds /\ IsHeld(j, e)
      BY <1>2
    <2>2. CASE e.sequence < n
      BY <2>1, <2>2 DEF IsComplete
    <2>3. CASE ~(e.sequence < n)
      <3>1. e.sequence < entry.sequence
        BY <1>1, <2>3
      <3>2. HasRead(s, j, e)
        <4>1. CASE j \in UnreadLogs(state[s])
          BY <2>1, <3>1, <4>1, LowerIsRead
        <4>2. CASE j \notin UnreadLogs(state[s])
          BY <2>1, <4>2 DEF HasReadAll
        <4> QED BY <4>1, <4>2
      <3> QED BY <3>2 DEF HasAllRead
    <2> QED BY <2>2, <2>3
  <1>4. ASSUME ~(entry.sequence < n) /\ IsWanted(q, entry) => entry.sequence \in H
        PROVE  HasAllRead(s, q, mask, H)'
    <2> SUFFICES ASSUME NEW j \in mask, NEW e, HasRead(s, j, e)', IsWanted(q, e)
                 PROVE  e.sequence \in H
      BY DEF HasAllRead, IsWanted
    <2>1. j \in LogIds
      OBVIOUS
    <2>2. CASE HasRead(s, j, e)
      BY <2>2 DEF HasAllRead
    <2>3. CASE j = i /\ e = entry
      <3>1. CASE entry.sequence < n
        BY <1>1, <2>3, <3>1 DEF IsComplete
      <3>2. CASE ~(entry.sequence < n)
        BY <1>4, <2>3, <3>2
      <3> QED BY <3>1, <3>2
    <2> QED BY <1>1, <2>1, <2>2, <2>3
  <1> QED BY <1>3, <1>4

\* Only the write of an entry gives the lock away.
LEMMA FlushKeepsLock ==
    ASSUME Parts, NEW r \in Readers, FlushToEntry(r)
    PROVE  thread'[r].pc = "write" \/ logd_lock' = {r}
  <1>1. PICK i \in UnreadLogs(state[Current(r)]) :
           LET entry   == EntryAt(state[Current(r)].log_positions[i], chunk)
               outcome == Outcome(thread[r], state[Current(r)].start, entry)
           IN  \/ UNCHANGED logd_lock
               \/ thread' = [thread EXCEPT ![r] =
                     [outcome.thread EXCEPT !.pc = "write", !.out = entry.sequence]]
    BY Zenon DEF FlushToEntry
  <1>2. PICK entry, outcome :
           /\ entry = EntryAt(state[Current(r)].log_positions[i], chunk)
           /\ outcome = Outcome(thread[r], state[Current(r)].start, entry)
    OBVIOUS
  <1>3. logd_lock = {r} /\ thread[r] \in Thread /\ DOMAIN thread = Readers
    BY DEF FlushToEntry, Flushing, Parts, ThreadsOK
  <1>4. CASE UNCHANGED logd_lock
    BY <1>3, <1>4
  <1>5. CASE thread' = [thread EXCEPT ![r] =
                [outcome.thread EXCEPT !.pc = "write", !.out = entry.sequence]]
    <2>1. outcome.thread \in Thread
      <3>1. thread[r].pc = "flush"
        BY DEF FlushToEntry, Flushing
      <3>2. entry \in Entry
        BY <1>2, <3>1, UnreadEntry
      <3> QED BY <1>2, <1>3, <3>2, OutcomeType DEF FilterOK
    <2> QED BY <1>3, <1>5, <2>1 DEF Thread
  <1> QED BY <1>1, <1>2, <1>4, <1>5

\* How FlushToEntry() leaves the thread t, which the filter made o
Leaves(o, result, n, u) ==
    \/ result = "kSkip" /\ u = [o EXCEPT !.log_id = 0]
    \/ result = "kStop" /\ u = [o EXCEPT !.pc = "stop"]
    \/ result = "kWrite" /\ u = [o EXCEPT !.pc = "write", !.out = n]

LEMMA FlushedThread ==
    ASSUME NEW t, NEW o \in Thread, o.pc = "flush", o.pass = t.pass, FiltersOnly(o, t),
           NEW result, NEW n \in Nat, NEW u, Leaves(o, result, n, u)
    PROVE  /\ AsksTheSame(u, t) /\ u.start_time = t.start_time /\ u.pass = t.pass
           /\ u.release = t.release /\ u.non_block = t.non_block /\ u.deadline = t.deadline
           /\ u.request = t.request /\ u.log_mask = t.log_mask
           /\ u.last = o.last /\ u.sequence = o.sequence /\ u.start_time_set = o.start_time_set
           /\ \/ result = "kSkip" /\ u.pc = "flush" /\ u.log_id = 0
              \/ result = "kStop" /\ u.pc = "stop"
              \/ result = "kWrite" /\ u.pc = "write" /\ u.out = n
  <1>1. AsksTheSame(u, o) /\ u.start_time = o.start_time /\ u.pass = o.pass
        /\ u.release = o.release /\ u.non_block = o.non_block /\ u.deadline = o.deadline
        /\ u.last = o.last /\ u.sequence = o.sequence /\ u.start_time_set = o.start_time_set
    BY DEF Thread, AsksTheSame, Leaves
  <1>2. \/ result = "kSkip" /\ u.pc = "flush" /\ u.log_id = 0
        \/ result = "kStop" /\ u.pc = "stop"
        \/ result = "kWrite" /\ u.pc = "write" /\ u.out = n
    BY DEF Thread, Leaves
  <1> QED BY <1>1, <1>2 DEF FiltersOnly, AsksTheSame

LEMMA FlushToEntryServes ==
    ASSUME Parts, StatesHaveThreads, SortedInv, BehindInv, LogsRest, NEW r \in Readers,
           NEW t, t = thread[r], NEW d, d = delivered[r], NEW l, IsServed(r, t, d, l),
           FlushToEntry(r), NEW u, u = thread'[r], NEW c, c = delivered'[r]
    PROVE  IsServed(r, u, c, l)'
  <1>1. /\ DOMAIN thread = Readers /\ t.pc = "flush" /\ t \in Thread /\ logd_lock = {r}
        /\ t.log_id = LOG_ID_MAX /\ t.log_mask \in SUBSET LogIds
    BY DEF Parts, ThreadsOK, FlushToEntry, Flushing, Thread
  <1>2. PICK i, entry, result, o : FlushesEntry(r, i, entry, result, o)
    BY FlushToEntryCases
  <1>3. PICK s : s = CurrentOf(r, t)
    OBVIOUS
  <1>4. s = Current(r) /\ s \in DOMAIN state /\ ~Clearing
    BY <1>1, <1>3, CurrentIsLive, NotClearing DEF Current, CurrentOf
  <1>5. PICK n, m : n = state[s].start /\ m = state'[s].start
    OBVIOUS
  <1>6. PICK out : out = Outcome(t, n, entry)
    OBVIOUS
  <1>7. entry \in Entry /\ result = out.result /\ o = out.thread
    BY <1>2, <1>4, <1>5, <1>6, Zenon DEF FlushesEntry
  <1>8. Pops(s, i, entry)
    BY <1>2, <1>4, FlushesPops
  <1>9. /\ DOMAIN state' = DOMAIN state
        /\ \A p \in DOMAIN state : p # s => state'[p] = state[p]
        /\ entry.sequence \in Nat /\ n \in Nat
        /\ m = IF entry.sequence < n THEN n ELSE entry.sequence
        /\ state'[s].log_mask = state[s].log_mask
    BY <1>4, <1>5, <1>8, PopReads
  <1>10. /\ o \in Thread /\ o.pc = "flush" /\ o.pass = t.pass /\ FiltersOnly(o, t)
         /\ entry.sequence < n => o = t /\ result = "kSkip"
         /\ t.pass = "first" => result = "kSkip"
         /\ t.pass = "second" /\ result = "kStop" => t.non_block \/ t.release
         /\ t.pass = "second" /\ ~(entry.sequence < n) /\ IsWanted(t.request, entry) =>
               result = "kWrite" \/ (result = "kStop" /\ t.release)
         /\ t.pass = "find" /\ ~(entry.sequence < n) => Searches(t, entry, o, result)
         /\ t.pass = "find" => result # "kWrite"
    BY <1>1, <1>6, <1>7, <1>9, OutcomeFilters DEF IsServed
  <1>11. /\ c = d
         /\ Leaves(o, result, entry.sequence, u)
    <2>1. \/ result = "kSkip" /\ Becomes(r, [o EXCEPT !.log_id = 0], d)
          \/ result = "kStop" /\ Becomes(r, [o EXCEPT !.pc = "stop"], d)
          \/ result = "kWrite" /\ Becomes(r, [o EXCEPT !.pc = "write", !.out = entry.sequence], d)
      BY <1>2, Zenon DEF FlushesEntry
    <2> QED BY <2>1, BecomesOnly DEF Leaves
  <1>12. /\ AsksTheSame(u, t) /\ u.start_time = t.start_time /\ u.pass = t.pass
         /\ u.release = t.release /\ u.non_block = t.non_block /\ u.deadline = t.deadline
         /\ u.request = t.request /\ u.log_mask = t.log_mask
         /\ u.last = o.last /\ u.sequence = o.sequence /\ u.start_time_set = o.start_time_set
         /\ \/ result = "kSkip" /\ u.pc = "flush" /\ u.log_id = 0
            \/ result = "kStop" /\ u.pc = "stop"
            \/ result = "kWrite" /\ u.pc = "write" /\ u.out = entry.sequence
    BY <1>9, <1>10, <1>11, FlushedThread
  <1>13. IsFaithful(u)'
    <2>1. IsUncreated(u) => IsUncreated(t)
      BY <1>1, <1>12 DEF IsUncreated
    <2>2. IsFaithful(u)
      BY <1>1, <1>12, <2>1, FaithfulStill DEF IsServed
    <2> QED BY <2>2 DEF IsFaithful, IsUncreated
  <1>14. IsPlaced(r, u)'
    <2>1. u.pc = "write" \/ logd_lock' = {r}
      BY FlushKeepsLock
    <2> QED BY <1>3, <1>9, <1>12, <2>1 DEF IsServed, IsPlaced, CurrentOf
  <1>15. \A j \in t.log_mask : j \notin UnreadLogs(state[s]) => HasReadAll(s, j)
    BY <1>1, <1>3, <1>4, WithoutNextIsRead DEF IsServed
  <1>16. ASSUME NEW G, NEW H, G \subseteq H, IsComplete(t.request, t.log_mask, n, G),
                HasAllRead(s, t.request, t.log_mask, G)
         PROVE  /\ IsComplete(t.request, t.log_mask, m, H)'
                /\ (~(entry.sequence < n) /\ IsWanted(t.request, entry) => entry.sequence \in H) =>
                      HasAllRead(s, t.request, t.log_mask, H)'
    BY <1>1, <1>4, <1>5, <1>8, <1>15, <1>16, PopIsComplete
  <1>17. IsServing(t) /\ (u.pc # "write" => Got(t, d, l) = Got(u, c, l))
         /\ (u.pc = "write" => Got(u, c, l) = Got(t, d, l) \cup {entry.sequence})
    BY <1>1, <1>11, <1>12 DEF IsServing, Got
  <1>18. CASE t.pass = "second"
    <2>1. s = Main(r)
      BY <1>3, <1>18 DEF CurrentOf
    <2>2. IsSent(r, u, c, l)'
      <3> SUFFICES ASSUME IsServing(u)
                   PROVE  /\ IsComplete(u.request, u.log_mask, state[s].start, Got(u, c, l))'
                          /\ HasAllRead(s, u.request, u.log_mask, Got(u, c, l))'
        BY <2>1 DEF IsSent, IsServing
      <3>1. PICK G, H : G = Got(t, d, l) /\ H = Got(u, c, l)
        OBVIOUS
      <3>2. IsComplete(t.request, t.log_mask, n, G) /\ HasAllRead(s, t.request, t.log_mask, G)
        BY <1>4, <1>5, <1>17, <2>1, <3>1 DEF IsServed, IsSent
      <3>3. G \subseteq H
        BY <1>17, <3>1
      <3>4. ~(entry.sequence < n) /\ IsWanted(t.request, entry) => entry.sequence \in H
        BY <1>10, <1>12, <1>17, <1>18, <3>1 DEF IsServing
      <3>5. IsComplete(t.request, t.log_mask, m, H)' /\ HasAllRead(s, t.request, t.log_mask, H)'
        BY <1>16, <3>2, <3>3, <3>4
      <3>6. Got(u, c, l)' = H
        BY <3>1 DEF Got
      <3> QED BY <1>5, <1>12, <3>5, <3>6
    <2>3. IsChecked(r, u)' /\ IsAbove(r, u)' /\ IsSearched(r, u, l)'
      <3>1. CASE result = "kSkip"
        BY <1>1, <1>12, <1>18, <3>1, BeginsFlush
      <3>2. CASE result = "kStop"
        BY <1>10, <1>12, <1>18, <3>2 DEF IsChecked, IsAbove, IsSearched
      <3>3. CASE result = "kWrite"
        BY <1>12, <3>3, OwesNothingElse
      <3> QED BY <1>12, <3>1, <3>2, <3>3
    <2> QED BY <1>13, <1>14, <2>2, <2>3 DEF IsServed
  <1>19. CASE t.pass # "second"
    <2>1. s = Temp(r) /\ Main(r) # s /\ t.pass \in {"find", "first"}
      BY <1>1, <1>3, <1>19, MainIsNotTemp DEF CurrentOf, Thread
    <2>2. u.pc # "write"
      BY <1>10, <1>12, <2>1
    <2>3. IsSent(r, u, c, l)'
      BY <1>1, <1>9, <1>12, <1>17, <2>1, <2>2, SentStill DEF IsServed
    <2>4. CASE t.pass = "first"
      <3>1. IsChecked(r, u)' /\ IsAbove(r, u)' /\ IsSearched(r, u, l)'
        BY <1>1, <1>10, <1>12, <2>4, BeginsFlush
      <3> QED BY <1>13, <1>14, <2>3, <3>1 DEF IsServed
    <2>5. CASE t.pass = "find"
      <3>1. /\ IsComplete(t.request, t.log_mask, n, {}) /\ HasAllRead(s, t.request, t.log_mask, {})
            /\ t.last <= n /\ ~t.start_time_set
        BY <1>1, <1>5, <2>1, <2>5 DEF IsServed, IsSearched
      <3>2. t.last \in Nat /\ t.start_time_set = FALSE
        BY <1>1, <3>1 DEF Thread
      <3>3. /\ IsComplete(t.request, t.log_mask, m, {})'
            /\ (~(entry.sequence < n) => ~IsWanted(t.request, entry)) =>
                  HasAllRead(s, t.request, t.log_mask, {})'
        BY <1>16, <3>1
      <3>4. CASE result = "kSkip"
        <4>1. IsChecked(r, u)' /\ IsAbove(r, u)'
          BY <1>1, <1>12, <3>4, BeginsFlush
        <4>2. /\ ~(entry.sequence < n) => ~IsWanted(t.request, entry)
              /\ o.start_time_set = t.start_time_set
              /\ o.last = t.last \/ (~(entry.sequence < n) /\ o.last = entry.sequence)
          BY <1>10, <2>5, <3>4 DEF Searches
        <4>3. u.last <= m
          BY <1>9, <1>12, <3>1, <3>2, <4>2
        <4>4. IsSearched(r, u, l)'
          BY <1>5, <1>12, <2>1, <3>2, <3>3, <3>4, <4>2, <4>3 DEF IsSearched
        <4> QED BY <1>13, <1>14, <2>3, <4>1, <4>4 DEF IsServed
      <3>5. CASE result = "kStop"
        <4>1. /\ ~(entry.sequence < n) /\ o.start_time_set = TRUE
              /\ o.last = t.last /\ o.sequence \in {t.last, entry.sequence}
          BY <1>10, <2>5, <3>5 DEF Searches
        <4>2. IsChecked(r, u)' /\ IsAbove(r, u)'
          BY <1>12, <2>5, <3>5, <4>1 DEF IsChecked, IsAbove
        <4>3. u.last <= m /\ u.sequence <= m
          BY <1>9, <1>12, <3>1, <3>2, <4>1
        <4>4. IsSearched(r, u, l)'
          BY <1>5, <1>12, <2>1, <3>3, <3>5, <4>1, <4>3 DEF IsSearched
        <4> QED BY <1>13, <1>14, <2>3, <4>2, <4>4 DEF IsServed
      <3> QED BY <1>12, <2>2, <3>4, <3>5
    <2> QED BY <2>1, <2>4, <2>5
  <1> QED BY <1>18, <1>19

\* FlushTo() has read everything there is, so the thread sleeps above all that is logged.
LEMMA SecondPassReturnsServes ==
    ASSUME Parts, StatesHaveThreads, SortedInv, BehindInv, LogsRest, NEW r \in Readers,
           NEW t, t = thread[r], NEW d, d = delivered[r], NEW l, IsServed(r, t, d, l),
           SecondPassReturns(r), NEW u, u = thread'[r], NEW c, c = delivered'[r]
    PROVE  IsServed(r, u, c, l)'
  <1>1. /\ DOMAIN thread = Readers /\ t \in Thread /\ t.pc = "stop" /\ t.pass = "second" /\ c = d
        /\ logd_lock = {r} /\ t.log_mask \in SUBSET LogIds
    BY DEF Parts, ThreadsOK, SecondPassReturns, Thread
  <1>2. PICK s : s = Main(r)
    OBVIOUS
  <1>3. s \in DOMAIN state /\ IsState(state[s])
    BY <1>1, <1>2, ThreadHas DEF NeedsMain, Parts, StatesOK
  <1>4. PICK st : st = state[s]
    OBVIOUS
  <1>5. state' = [state EXCEPT ![s] = [st EXCEPT !.start = st.start + 1]]
    BY <1>2, <1>4 DEF SecondPassReturns
  <1>6. /\ DOMAIN state' = DOMAIN state
        /\ \A p \in DOMAIN state : p # s => state'[p] = state[p]
        /\ state'[s] = [st EXCEPT !.start = st.start + 1]
    BY <1>3, <1>5
  <1>7. /\ state'[s].start = st.start + 1 /\ st.start \in Nat
        /\ state'[s].log_mask = st.log_mask
        /\ state'[s].log_positions = st.log_positions
    BY <1>3, <1>4, <1>6 DEF IsState, FlushToState
  <1>8. \A p \in {Main(r), Temp(r)} : p \in DOMAIN state' => state'[p].log_mask = t.log_mask
    <2>1. \A p \in {Main(r), Temp(r)} : p \in DOMAIN state => state[p].log_mask = t.log_mask
      BY DEF IsServed, IsPlaced
    <2>2. state'[s].log_mask = t.log_mask
      BY <1>2, <1>3, <1>4, <1>7, <2>1
    <2>3. ASSUME NEW p \in {Main(r), Temp(r)}, p \in DOMAIN state', p # s
          PROVE  state'[p].log_mask = t.log_mask
      BY <1>6, <2>1, <2>3
    <2> QED BY <2>2, <2>3
  <1>9. CASE t.non_block \/ t.release
    <2>1. u = [t EXCEPT !.pc = "exit", !.start_time = EPOCH] /\ logd_lock' = {r}
      BY <1>1, <1>9 DEF SecondPassReturns
    <2>2. u.pc = "exit" /\ AsksTheSame(u, t) /\ u.start_time = EPOCH
      BY <1>1, <2>1 DEF Thread, AsksTheSame
    <2>3. ~IsServing(u) /\ ~IsUncreated(u)
      BY <2>2 DEF IsServing, IsUncreated
    <2> QED BY <1>8, <2>1, <2>2, <2>3, RestServes
  <1>10. CASE ~t.non_block /\ ~t.release
    <2>1. PICK pc : pc = IF t.deadline THEN "wait_until" ELSE "wait"
      OBVIOUS
    <2>2. u = [t EXCEPT !.pc = pc, !.start_time = EPOCH]
      BY <1>1, <1>10, <2>1 DEF SecondPassReturns
    <2>3. /\ u.pc = pc /\ AsksTheSame(u, t) /\ u.start_time = EPOCH /\ u.deadline = t.deadline
          /\ u.request = t.request /\ u.log_mask = t.log_mask
      BY <1>1, <2>2 DEF Thread, AsksTheSame
    <2>4. pc \in {"wait", "wait_until"} /\ (pc = "wait" => ~t.deadline)
      BY <2>1
    <2>5. IsFaithful(u)'
      <3>1. IsFaithful(u)
        BY <2>3, <2>4, FaithfulStill DEF IsServed, IsUncreated
      <3> QED BY <3>1 DEF IsFaithful, IsUncreated
    <2>6. IsPlaced(r, u)'
      BY <1>8, <2>3, <2>4 DEF IsPlaced
    <2>7. IsChecked(r, u)' /\ IsSearched(r, u, l)'
      BY <2>3, <2>4 DEF IsChecked, IsSearched
    <2>8. \A i \in t.log_mask : HasReadAll(s, i)
      BY <1>1, <1>2, <1>10 DEF IsServed, IsChecked, CurrentOf
    <2>9. IsAbove(r, u)'
      <3>1. ASSUME NEW i \in t.log_mask, NEW e, IsHeld(i, e)'
            PROVE  e.sequence < state'[s].start
        <4>1. i \in LogIds
          BY <1>1
        <4>2. IsHeld(i, e)
          BY <3>1, <4>1, RestsSorted
        <4>3. HasRead(s, i, e)
          BY <2>8, <4>2 DEF HasReadAll
        <4>4. e.sequence <= st.start
          BY <1>3, <1>4, <4>1, <4>3 DEF BehindInv, IsBehind
        <4>5. e.sequence \in Nat
          BY <4>1, <4>2, HeldAreEntries
        <4> QED BY <1>7, <4>4, <4>5
      <3>2. state'[Main(r)].start = state'[s].start
        BY <1>2
      <3> QED BY <2>3, <3>1, <3>2 DEF IsAbove, Main
    <2>10. PICK q, mask, G, n : q = t.request /\ mask = t.log_mask /\ G = Got(t, d, l) /\ n = st.start + 1
      OBVIOUS
    <2>11. IsServing(t) /\ Got(u, c, l)' = G
      BY <1>1, <1>10, <2>3, <2>4, <2>10 DEF IsServing, Got
    <2>12. HasAllRead(s, q, mask, G)
      BY <1>2, <1>3, <2>10, <2>11 DEF IsServed, IsSent
    <2>13. IsComplete(q, mask, n, G)' /\ HasAllRead(s, q, mask, G)'
      BY <1>1, <1>4, <1>7, <2>8, <2>10, <2>12, AllReadIsComplete, AllReadStill
    <2>14. IsSent(r, u, c, l)'
      BY <1>2, <1>7, <2>3, <2>10, <2>11, <2>13 DEF IsSent, Main
    <2> QED BY <2>5, <2>6, <2>7, <2>9, <2>14 DEF IsServed
  <1> QED BY <1>9, <1>10

\* Every step of a thread serves its client.
LEMMA StepServes ==
    ASSUME Parts, StatesHaveThreads, SortedInv, PositiveInv, BehindInv, LogsRest, NEW r \in Readers,
           NEW t, t = thread[r], NEW d, d = delivered[r], NEW l, IsServed(r, t, d, l),
           StepOf(r), NEW u, u = thread'[r], NEW c, c = delivered'[r]
    PROVE  IsServed(r, u, c, l)'
  <1>1. CASE DoSocketDelete(r) \/ DeadlinePasses(r)
    BY <1>1, SignalsServe
  <1>2. CASE LoopTop(r) \/ AfterWaitUntil(r)
    BY <1>2, LoopServes
  <1>3. CASE WriteSucceeds(r) \/ WriteFails(r)
    BY <1>3, WriteServes
  <1>4. CASE FirstPassReturns(r) \/ ThreadExits(r)
    BY <1>4, EndsServe
  <1>5. CASE OnDataAvailable(r)
    BY <1>5, OnDataAvailableServes
  <1>6. CASE FindReturns(r)
    BY <1>6, FindReturnsServes
  <1>7. CASE CreateThread(r)
    BY <1>7, CreateThreadServes
  <1>8. CASE CheckForNewLogs(r)
    BY <1>8, CheckForNewLogsServes
  <1>9. CASE FlushToNoMore(r)
    BY <1>9, FlushToNoMoreServes
  <1>10. CASE FlushToEntry(r)
    BY <1>10, FlushToEntryServes
  <1>11. CASE SecondPassReturns(r)
    BY <1>11, SecondPassReturnsServes
  <1> QED BY <1>1, <1>2, <1>3, <1>4, <1>5, <1>6, <1>7, <1>8, <1>9, <1>10, <1>11 DEF StepOf, ReaderStep

\* Where nothing moves, nothing is owed that was not.
LEMMA RestsServed ==
    ASSUME Parts, SortedInv, BehindInv, ServedInv, UNCHANGED vars
    PROVE  BehindInv' /\ ServedInv'
  <1>1. /\ LogsRest
        /\ UNCHANGED <<state, thread, delivered, late, logd_lock>>
    BY DEF vars, LogsRest, Clearing, AreAlike, IsAlike, HoldsTheSame
  <1>2. ASSUME NEW s \in DOMAIN state PROVE IsBehind(s)'
    <2>1. \A i \in LogIds : \A e : HasRead(s, i, e)' <=> HasRead(s, i, e)
      BY <1>1, ReadTheSame
    <2> QED BY <1>1, <2>1 DEF BehindInv, IsBehind
  <1>3. ASSUME NEW r \in Readers,
               NEW t, t = thread[r], NEW d, d = delivered[r], NEW l, l = late[r]
        PROVE  IsServed(r, t, d, l)'
    <2>1. KeepsStates(r)
      BY <1>1 DEF KeepsStates
    <2>2. IsServed(r, t, d, l)
      BY <1>3 DEF ServedInv
    <2> QED BY <1>1, <1>3, <2>1, <2>2, ServedStill
  <1> QED BY <1>1, <1>2, <1>3 DEF BehindInv, ServedInv

\* Every step of logd that logs in order serves every client.
LEMMA NextServed ==
    ASSUME BufferInv, SortedInv, PositiveInv, BehindInv, ServedInv, [Next]_vars, [LogsInOrder]_vars
    PROVE  BehindInv' /\ ServedInv'
  <1>1. Parts /\ ChunkInv /\ StatesHaveThreads
    BY PartsOfIInv DEF BufferInv
  <1>2. CASE UNCHANGED vars
    BY <1>1, <1>2, RestsServed
  <1>3. CASE BufferNext /\ LogsInOrder /\ delivered' = delivered
    <2>1. BufferEffect
      BY <1>1, <1>3, BufferNextEffect
    <2>2. BehindInv'
      BY <1>1, <1>3, <2>1, BufferNextBehind DEF BufferEffect
    <2>3. ASSUME NEW r \in Readers,
                 NEW u, u = thread'[r], NEW c, c = delivered'[r], NEW m, m = late'[r]
          PROVE  IsServed(r, u, c, m)'
      <3>1. PICK t, l : t = thread[r] /\ l = late[r]
        OBVIOUS
      <3>2. IsServed(r, t, c, l)
        BY <1>3, <2>3, <3>1 DEF ServedInv
      <3> QED BY <1>1, <1>3, <2>1, <2>3, <3>1, <3>2, BufferNextServes
    <2> QED BY <2>2, <2>3 DEF ServedInv
  <1>4. ASSUME NEW q \in Readers, StepOf(q)
        PROVE  BehindInv' /\ ServedInv'
    <2>1. LogsRest /\ late' = late
      BY <1>1, <1>4, StepRests DEF BufferRests
    <2>2. BehindInv'
      BY <1>1, <1>4, StepBehind
    <2>3. ASSUME NEW r \in Readers,
                 NEW u, u = thread'[r], NEW c, c = delivered'[r], NEW m, m = late'[r]
          PROVE  IsServed(r, u, c, m)'
      <3>1. PICK t, d : t = thread[r] /\ d = delivered[r]
        OBVIOUS
      <3>2. IsServed(r, t, d, m)
        BY <2>1, <2>3, <3>1 DEF ServedInv
      <3>3. CASE r = q
        BY <1>1, <1>4, <2>1, <2>3, <3>1, <3>2, <3>3, StepServes
      <3>4. CASE r # q
        <4>1. /\ KeepsStates(r) /\ (logd_lock = {r} => logd_lock' = {r})
              /\ u = t /\ c = d
          BY <1>1, <1>4, <2>3, <3>1, <3>4, OthersKeepOurs
        <4>2. IsServed(r, t, d, m)'
          BY <1>1, <2>1, <3>1, <3>2, <4>1, ServedStill
        <4> QED BY <4>1, <4>2
      <3> QED BY <3>3, <3>4
    <2> QED BY <2>2, <2>3 DEF ServedInv
  <1> QED BY <1>2, <1>3, <1>4 DEF Next, StepOf

LEMMA InitServed == Init => BehindInv /\ ServedInv
  <1> SUFFICES ASSUME Init PROVE BehindInv /\ ServedInv
    OBVIOUS
  <1>1. DOMAIN state = {}
    BY DEF Init
  <1>2. ASSUME NEW r \in Readers, NEW t, t = thread[r], NEW d, NEW l
        PROVE  IsServed(r, t, d, l)
    <2>1. t = NewThread(NoRequest, "idle")
      BY <1>2 DEF Init
    <2>2. /\ t.pc = "idle" /\ t.pid = t.request.pid /\ t.uid = t.request.uid
          /\ t.privileged = t.request.privileged /\ t.tail = t.request.tail
          /\ t.start_time = t.request.start
      BY <2>1 DEF NewThread, NoRequest
    <2> QED BY <1>1, <2>2 DEF IsServed, IsFaithful, IsPlaced, IsChecked, IsAbove, IsSearched, IsSent
  <1> QED BY <1>1, <1>2 DEF BehindInv, ServedInv

\* All of it, together: what the theorems below follow from.
CompleteInv == BufferInv /\ SortedInv /\ PositiveInv /\ BehindInv /\ ServedInv

LEMMA InitComplete == Init => CompleteInv
  BY InitBufferInv, InitSorted, InitServed DEF CompleteInv

LEMMA NextComplete == CompleteInv /\ [Next]_vars /\ [LogsInOrder]_vars => CompleteInv'
  BY NextBufferInv, NextSorted, NextServed DEF CompleteInv

\* What is in a log is held by it.
LEMMA EntriesAreHeld ==
    ASSUME NEW i, NEW entry \in EntriesOf(i)
    PROVE  IsHeld(i, entry)
  BY DEF EntriesOf, IsHeld, ChunksOf

LEMMA CompleteHasNoLostWakeup == CompleteInv => NoLostWakeup
  <1> SUFFICES ASSUME CompleteInv, NEW r \in Readers, thread[r].pc = "wait",
                      NEW i \in thread[r].log_mask, NEW entry \in EntriesOf(i)
               PROVE  entry.sequence < state[Main(r)].start
    BY DEF NoLostWakeup
  <1>1. IsAbove(r, thread[r])
    BY DEF CompleteInv, ServedInv, IsServed
  <1> QED BY <1>1, EntriesAreHeld DEF IsAbove

LEMMA CompleteMissesNothing == CompleteInv => NothingMissedButLate
  <1> SUFFICES ASSUME CompleteInv, NEW r \in Readers, thread[r].pc = "wait",
                      NEW i \in thread[r].log_mask, NEW entry \in EntriesOf(i), Wants(r, entry)
               PROVE  entry.sequence \in Received(r) \cup late[r]
    BY DEF NothingMissedButLate
  <1>1. PICK t, s : t = thread[r] /\ s = Main(r)
    OBVIOUS
  <1>2. IsHeld(i, entry) /\ IsWanted(t.request, entry)
    BY <1>1, EntriesAreHeld DEF Wants, IsWanted
  <1>3. IsAbove(r, t) /\ IsSent(r, t, delivered[r], late[r])
    BY <1>1 DEF CompleteInv, ServedInv, IsServed
  <1>4. s \in DOMAIN state /\ IsServing(t)
    BY <1>1, PartsOfIInv, ThreadHas DEF CompleteInv, BufferInv, NeedsMain, IsServing
  <1>5. entry.sequence < state[s].start
    BY <1>1, <1>2, <1>3 DEF IsAbove
  <1>6. entry.sequence \in Got(t, delivered[r], late[r])
    BY <1>1, <1>2, <1>3, <1>4, <1>5 DEF IsSent, IsComplete
  <1> QED BY <1>1, <1>6 DEF Got, Received

(***************************************************************************)
(* While every log is written in order, a thread that sleeps in wait() has *)
(* read past everything in the logs its client watches: NotifyNewLog() is   *)
(* not seen by a thread that is flushing or writing to its socket, but the  *)
(* entry it announced is read before the thread sleeps.                     *)
(***************************************************************************)
THEOREM NoWakeupIsLost == Spec /\ [][LogsInOrder]_vars => []NoLostWakeup
  BY InitComplete, NextComplete, CompleteHasNoLostWakeup, PTL DEF Spec

(***************************************************************************)
(* While every log is written in order, FlushTo() and the filters of       *)
(* ThreadFunction() pass over nothing: when a thread sleeps in wait(), its  *)
(* client has been sent everything it asked for that the buffer still       *)
(* holds, but for what was logged below the start the thread had by then.   *)
(***************************************************************************)
THEOREM NothingIsMissed == Spec /\ [][LogsInOrder]_vars => []NothingMissedButLate
  BY InitComplete, NextComplete, CompleteMissesNothing, PTL DEF Spec

(***************************************************************************)
(* With one thread that logs no wakeup is lost and nothing is missed,       *)
(* whatever else happens: Log() takes the number and the lock without a     *)
(* rival, so no assumption about the order is needed.                       *)
(***************************************************************************)
THEOREM OneWriterMissesNothing ==
    ASSUME OneWriter
    PROVE  Spec => [](NoLostWakeup /\ NothingMissedButLate)
  BY NoWakeupIsLost, NothingIsMissed, OneWriterLogsInOrder, PTL

\* NoGap, but for what came late: at any moment, a thread that has not been told to end has
\* sent its client all it asked for below the last number it sent.
NoGapButLate ==
    \A r \in Readers :
        Main(r) \in DOMAIN state /\ IsServing(thread[r]) /\ delivered[r] # << >> =>
            \A i \in thread[r].log_mask : \A entry \in EntriesOf(i) :
                Wants(r, entry) /\ entry.sequence < LastOf(delivered[r])
                   => entry.sequence \in Received(r) \cup late[r]

LEMMA CompleteHasNoGap == CompleteInv /\ LogdInv => NoGapButLate
  <1> SUFFICES ASSUME CompleteInv, LogdInv, NEW r \in Readers, Main(r) \in DOMAIN state,
                      IsServing(thread[r]), delivered[r] # << >>,
                      NEW i \in thread[r].log_mask, NEW entry \in EntriesOf(i), Wants(r, entry),
                      entry.sequence < LastOf(delivered[r])
               PROVE  entry.sequence \in Received(r) \cup late[r]
    BY DEF NoGapButLate
  <1>1. PICK t, s, d : t = thread[r] /\ s = Main(r) /\ d = delivered[r]
    OBVIOUS
  <1>2. IsHeld(i, entry) /\ IsWanted(t.request, entry)
    BY <1>1, EntriesAreHeld DEF Wants, IsWanted
  <1>3. Parts
    BY PartsOfIInv DEF LogdInv, BufferInv
  <1>4. i \in LogIds
    BY <1>3, ThreadHas DEF Thread
  <1>5. entry.sequence \in Nat
    BY <1>2, <1>3, <1>4, HeldAreEntries
  <1>6. PICK n : n = state[s].start
    OBVIOUS
  <1>7. n \in Nat
    BY <1>1, <1>3, <1>6 DEF Parts, StatesOK, IsState, FlushToState
  <1>8. LastOf(d) <= n /\ (t.pc = "write" => t.out = n)
    BY <1>1, <1>6 DEF LogdInv, StartFollows
  <1>9. LastOf(d) \in Nat
    <2>1. d \in Seq(Nat) /\ d # << >>
      BY <1>1, <1>3 DEF Parts, HistoryOK
    <2> QED BY <2>1 DEF LastOf
  <1>10. entry.sequence < n
    BY <1>1, <1>5, <1>7, <1>8, <1>9
  <1>11. IsSent(r, t, d, late[r])
    BY <1>1 DEF CompleteInv, ServedInv, IsServed
  <1>12. entry.sequence \in Got(t, d, late[r])
    BY <1>1, <1>2, <1>6, <1>10, <1>11 DEF IsSent, IsComplete
  <1>13. t.pc = "write" => entry.sequence # t.out
    BY <1>5, <1>7, <1>8, <1>10
  <1> QED BY <1>1, <1>12, <1>13 DEF Got, Received

(***************************************************************************)
(* While every log is written in order, what a living thread sends has no   *)
(* gap: PopNextUnreadLog() takes the lowest of the next entries, and every  *)
(* entry below the last one sent that the client asked for was sent too, or *)
(* was logged below the start.                                              *)
(***************************************************************************)
THEOREM OnlyLateLeavesGaps == Spec /\ [][LogsInOrder]_vars => []NoGapButLate
  BY InitComplete, NextComplete, LogdInvariant, CompleteHasNoGap, PTL DEF Spec

-----------------------------------------------------------------------------
(***************************************************************************)
(* With one writer, what comes late comes before all that is sent           *)
(***************************************************************************)

\* The number x was handed out, and is below all that are still to be logged.
IsPast(x) == x < sequence /\ \A w \in DOMAIN pending : x < pending[w].entry.sequence

\* Nothing that is still to be logged is below x.
IsDue(x) == x <= sequence /\ \A w \in DOMAIN pending : x <= pending[w].entry.sequence

LEMMA PastIsDue ==
    ASSUME Parts, NEW x \in Nat, IsPast(x)
    PROVE  IsDue(x)
  BY DEF IsPast, IsDue, Parts, WritersOK, Entry

\* As NumbersRise, of all logs together
NumbersInTurn ==
    /\ \A w \in DOMAIN pending : pending[w].entry.sequence < sequence
    /\ \A i \in LogIds : \A e : IsHeld(i, e) => IsPast(e.sequence)

\* It stays so, whatever is handed out and logged.
LEMMA PastStill ==
    ASSUME Parts, BufferNext, NEW x \in Nat
    PROVE  /\ IsPast(x) => IsPast(x)'
           /\ IsDue(x) => IsDue(x)'
  <1>1. /\ sequence' \in {sequence, sequence + 1}
        /\ \A w \in DOMAIN pending' :
              \/ w \in DOMAIN pending /\ pending'[w] = pending[w]
              \/ pending'[w].entry.sequence = sequence
    BY BufferNextNumbers
  <1>2. sequence \in Nat
    BY DEF Parts, WritersOK
  <1>3. IsPast(x) => IsPast(x)'
    BY <1>1, <1>2 DEF IsPast
  <1>4. IsDue(x) => IsDue(x)'
    BY <1>1, <1>2 DEF IsDue
  <1> QED BY <1>3, <1>4

\* What the only writer logs is past when it is logged.
LEMMA LoggedIsPast ==
    ASSUME Parts, NumbersInTurn, BufferNext, OneWriter,
           NEW w \in DOMAIN pending, w \notin DOMAIN pending', NEW x \in Nat,
           x <= pending[w].entry.sequence
    PROVE  IsPast(x)'
  <1>1. /\ sequence' \in {sequence, sequence + 1}
        /\ \A v \in DOMAIN pending' :
              \/ v \in DOMAIN pending /\ pending'[v] = pending[v]
              \/ v \in Writers /\ pending'[v].entry.sequence = sequence /\ sequence' = sequence + 1
    BY BufferNextNumbers
  <1>2. /\ sequence \in Nat /\ DOMAIN pending \subseteq Writers
        /\ pending[w].entry.sequence \in Nat /\ pending[w].entry.sequence < sequence
    BY DEF Parts, WritersOK, Entry, NumbersInTurn
  <1>3. \A v \in DOMAIN pending' : v \notin DOMAIN pending
    BY <1>2 DEF OneWriter
  <1>4. x < sequence'
    BY <1>1, <1>2
  <1>5. \A v \in DOMAIN pending' : x < pending'[v].entry.sequence
    BY <1>1, <1>2, <1>3
  <1> QED BY <1>4, <1>5 DEF IsPast

LEMMA NextNumbersInTurn ==
    ASSUME OneWriter, BufferInv, SortedInv, NumbersInTurn, [Next]_vars, [LogsInOrder]_vars
    PROVE  NumbersInTurn'
  <1>1. Parts /\ ChunkInv /\ sequence \in Nat
    BY PartsOfIInv DEF BufferInv, Parts, WritersOK
  <1>2. ASSUME BufferRests PROVE NumbersInTurn'
    <2>1. sequence' = sequence /\ pending' = pending
      BY <1>2 DEF BufferRests
    <2>2. \A i \in LogIds : \A e : IsHeld(i, e)' => IsHeld(i, e)
      BY <1>1, <1>2, RestsSorted DEF BufferRests
    <2> QED BY <2>1, <2>2 DEF NumbersInTurn, IsPast
  <1>3. CASE UNCHANGED vars
    <2>1. BufferRests
      BY <1>3 DEF vars, BufferRests, LogsRest, Clearing, AreAlike, IsAlike, HoldsTheSame
    <2> QED BY <1>2, <2>1
  <1>4. ASSUME NEW r \in Readers, StepOf(r)
        PROVE  NumbersInTurn'
    BY <1>1, <1>2, <1>4, StepRests
  <1>5. CASE BufferNext /\ LogsInOrder
    <2>1. \A i \in LogIds : HoldsNoOther(i)
      BY <1>1, <1>5, BufferNextEffect DEF BufferEffect
    <2>2. /\ sequence' \in {sequence, sequence + 1}
          /\ \A w \in DOMAIN pending' :
                 \/ w \in DOMAIN pending /\ pending'[w] = pending[w]
                 \/ pending'[w].entry.sequence = sequence /\ sequence' = sequence + 1
      BY <1>1, <1>5, BufferNextNumbers
    <2>3. \A w \in DOMAIN pending : pending[w].entry.sequence \in Nat
      BY <1>1 DEF Parts, WritersOK, Entry
    <2>4. \A w \in DOMAIN pending' : pending'[w].entry.sequence < sequence'
      BY <1>1, <2>2, <2>3 DEF NumbersInTurn
    <2>5. ASSUME NEW i \in LogIds, NEW e, IsHeld(i, e)'
          PROVE  IsPast(e.sequence)'
      <3>1. CASE IsHeld(i, e)
        <4>1. PICK x \in Nat : x = e.sequence
          BY <1>1, <3>1, HeldAreEntries
        <4>2. IsPast(x)'
          BY <1>1, <1>5, <3>1, <4>1, PastStill DEF NumbersInTurn
        <4> QED BY <4>1, <4>2 DEF IsPast
      <3>2. CASE Logs(i, e)
        <4>1. PICK w \in DOMAIN pending : w \notin DOMAIN pending' /\ e = pending[w].entry
          BY <3>2 DEF Logs
        <4>2. PICK x \in Nat : x = e.sequence
          BY <2>3, <4>1
        <4>3. IsPast(x)'
          BY <1>1, <1>5, <4>1, <4>2, LoggedIsPast
        <4> QED BY <4>2, <4>3 DEF IsPast
      <3> QED BY <2>1, <2>5, <3>1, <3>2 DEF HoldsNoOther
    <2> QED BY <2>4, <2>5 DEF NumbersInTurn
  <1> QED BY <1>3, <1>4, <1>5 DEF Next, StepOf

\* The thread waits for nothing but new entries.
IsUntimed(t) == ~t.deadline /\ t.pc \notin {"wait_until", "notified", "timed_out"}

\* The thread has come to the end of what there was, and moved its start on by one.
IsDone(t) == t.pc \in {"wait", "exit"} \/ (t.pc = "woken" /\ t.release)

\* Once a client was sent something, nothing comes below the start of its thread.
StartInTurn(r, t, d) ==
    Main(r) \in DOMAIN state /\ (d # << >> \/ t.pc = "write") =>
        IF IsDone(t) THEN IsDue(state[Main(r)].start) ELSE IsPast(state[Main(r)].start)

\* What came late came below the first that the client was sent.
LateInTurn(r, t, d, l) ==
    /\ IsUncreated(t) => \A n \in l : t.pc = "found" /\ n < t.sequence
    /\ Main(r) \in DOMAIN state /\ d = << >> => \A n \in l : n < state[Main(r)].start
    /\ d # << >> => \A n \in l : n < d[1]

\* Nothing comes below the last, and nothing is missing between the first and the last.
SentInTurn(t, d) ==
    d # << >> =>
        /\ IsPast(LastOf(d))
        /\ \A i \in t.log_mask : \A e :
              /\ IsHeld(i, e) /\ IsWanted(t.request, e)
              /\ d[1] < e.sequence /\ e.sequence < LastOf(d)
              => e.sequence \in {d[k] : k \in 1 .. Len(d)}

IsInTurn(r, t, d, l) ==
    IsUntimed(t) /\ StartInTurn(r, t, d) /\ LateInTurn(r, t, d, l) /\ SentInTurn(t, d)

\* Only what is logged comes late.
LEMMA LateIsLogged ==
    ASSUME Parts, BufferNext, NEW r \in Readers, NEW n \in late'[r], n \notin late[r]
    PROVE  \E w \in DOMAIN pending : /\ w \notin DOMAIN pending' /\ n = pending[w].entry.sequence
                                     /\ ComesLate(r, pending[w].entry)
  <1>1. CASE \E w \in Writers : Log(w)
    <2>1. PICK w \in Writers : Log(w)
      BY <1>1
    <2>2. /\ w \in DOMAIN pending /\ pending' = [v \in (DOMAIN pending) \ {w} |-> pending[v]]
          /\ late' = [q \in Readers |-> IF ComesLate(q, pending[w].entry)
                                        THEN late[q] \cup {pending[w].entry.sequence} ELSE late[q]]
      BY <2>1, Zenon DEF Log
    <2> QED BY <2>2
  <1>2. CASE ~\E w \in Writers : Log(w)
    <2>1. late' = late
      <3>1. CASE \E w \in Writers : TakeSequence(w)
        BY <3>1, Zenon DEF TakeSequence
      <3>2. CASE \/ \E i \in LogIds :
                       \/ ClearAll(i)
                       \/ \E size \in Sizes : SetSize(i, size)
                       \/ \E m \in Messages : UidClear(i, m.uid)
                 \/ ReinitTrigger
        BY <3>2, Zenon DEF ClearAll, SetSize, UidClear, ReinitTrigger
      <3>3. CASE ClearStep
        BY <3>3, Zenon DEF ClearStep, ClearSpliceChunk, ClearOpenChunk, ClearEntry,
                           ClearEraseChunk, ClearSwap
      <3> QED BY <1>2, <3>1, <3>2, <3>3, Zenon DEF BufferNext
    <2> QED BY <2>1
  <1> QED BY <1>1, <1>2

\* Without a reinit only a logged entry ends the wait of a thread that has no deadline.
LEMMA OnlyLogWakes ==
    ASSUME Parts, BufferNext, ~ReinitTrigger, NEW r \in Readers, ~thread[r].deadline,
           thread'[r] # thread[r]
    PROVE  \E w \in DOMAIN pending : w \notin DOMAIN pending'
  <1>1. \A i : r \notin NotifiedOfPrune(i)
    BY DEF NotifiedOfPrune
  <1>2. CASE \E w \in Writers : TakeSequence(w) \/ Log(w)
    <2>1. PICK w \in Writers : TakeSequence(w) \/ Log(w)
      BY <1>2
    <2>2. CASE TakeSequence(w)
      BY <2>2, Zenon DEF TakeSequence
    <2>3. CASE Log(w)
      <3>1. /\ w \in DOMAIN pending /\ pending' = [v \in (DOMAIN pending) \ {w} |-> pending[v]]
        BY <2>3, Zenon DEF Log
      <3> QED BY <3>1
    <2> QED BY <2>1, <2>2, <2>3
  <1>3. CASE \E i \in LogIds :
                \/ ClearAll(i)
                \/ \E size \in Sizes : SetSize(i, size)
                \/ \E m \in Messages : UidClear(i, m.uid)
    <2>1. PICK R : r \notin R /\ thread' = TriggerReaders(thread, R)
      <3>1. PICK i \in LogIds : \/ ClearAll(i)
                                \/ \E size \in Sizes : SetSize(i, size)
                                \/ \E m \in Messages : UidClear(i, m.uid)
        BY <1>3
      <3>2. CASE ClearAll(i)
        BY <1>1, <3>2, Zenon DEF ClearAll
      <3>3. CASE \E size \in Sizes : SetSize(i, size)
        <4>1. \E n : thread' = TriggerReaders(thread, IF n > 0 THEN NotifiedOfPrune(i) ELSE {})
          BY <3>3, Zenon DEF SetSize
        <4> QED BY <1>1, <4>1
      <3>4. CASE \E m \in Messages : UidClear(i, m.uid)
        BY <1>1, <3>4, Zenon DEF UidClear
      <3> QED BY <3>1, <3>2, <3>3, <3>4
    <2> QED BY <2>1 DEF TriggerReaders
  <1>4. CASE ClearStep
    BY <1>4, Zenon DEF ClearStep, ClearSpliceChunk, ClearOpenChunk, ClearEntry,
                       ClearEraseChunk, ClearSwap
  <1> QED BY <1>2, <1>3, <1>4, Zenon DEF BufferNext

\* Writers and commands keep every client in turn.
LEMMA BufferNextInTurn ==
    ASSUME Parts, StatesHaveThreads, NumbersInTurn, StartFollows, OneWriter, BufferNext,
           BufferEffect, ~ReinitTrigger, NEW r \in Readers, NEW t, t = thread[r],
           NEW d, d = delivered[r], NEW l, l = late[r], IsInTurn(r, t, d, l),
           NEW u, u = thread'[r], NEW m, m = late'[r]
    PROVE  IsInTurn(r, u, d, m)'
  <1>1. t \in Thread /\ t.log_mask \in SUBSET LogIds
    BY ThreadHas DEF Thread
  <1>2. u = t \/ u = TriggerReader(t)
    BY BufferNextThreads
  <1>3. /\ u.request = t.request /\ u.log_mask = t.log_mask /\ u.deadline = t.deadline
        /\ u.pass = t.pass /\ u.sequence = t.sequence /\ u.release = t.release
        /\ \/ u.pc = t.pc
           \/ t.pc = "wait" /\ u.pc = "woken"
           \/ t.pc = "wait_until" /\ u.pc = "notified"
    BY <1>1, <1>2, WokenFields
  <1>4. PICK s : s = Main(r)
    OBVIOUS
  <1>5. PICK n : n = state[s].start
    OBVIOUS
  <1>6. /\ s \in DOMAIN state' <=> s \in DOMAIN state
        /\ s \in DOMAIN state => state'[s].start = n /\ n \in Nat
    BY <1>5, BufferNextStarts DEF Parts, StatesOK, IsState, FlushToState
  <1>7. d # << >> => LastOf(d) \in Nat
    <2>1. d \in Seq(Nat)
      BY DEF Parts, HistoryOK
    <2> QED BY <2>1 DEF LastOf
  <1>8. IsUntimed(t) /\ ~t.deadline
    BY DEF IsInTurn, IsUntimed
  <1>9. IsUntimed(u)'
    BY <1>3, <1>8 DEF IsUntimed
  <1>10. ASSUME s \in DOMAIN state, d # << >> \/ t.pc = "write"
         PROVE  IsDue(n) /\ (~IsDone(t) => IsPast(n))
    <2>1. IF IsDone(t) THEN IsDue(n) ELSE IsPast(n)
      BY <1>4, <1>5, <1>10 DEF IsInTurn, StartInTurn
    <2> QED BY <1>6, <1>10, <2>1, PastIsDue
  <1>11. StartInTurn(r, u, d)'
    <2> SUFFICES ASSUME s \in DOMAIN state, d # << >> \/ u.pc = "write"
                 PROVE  IF IsDone(u) THEN IsDue(n)' ELSE IsPast(n)'
      BY <1>4, <1>5, <1>6 DEF StartInTurn, IsDone, IsDue, IsPast
    <2>1. IsDue(n) /\ (~IsDone(t) => IsPast(n)) /\ n \in Nat
      BY <1>3, <1>6, <1>10
    <2>2. CASE IsDone(u)
      BY <2>1, <2>2, PastStill
    <2>3. CASE ~IsDone(u) /\ ~IsDone(t)
      BY <2>1, <2>3, PastStill
    <2>4. CASE ~IsDone(u) /\ IsDone(t)
      <3>1. u # t
        BY <2>4
      <3>2. PICK w \in DOMAIN pending : w \notin DOMAIN pending'
        BY <1>8, <3>1, OnlyLogWakes
      <3>3. IsPast(n)'
        BY <2>1, <3>2, LoggedIsPast DEF IsDue
      <3> QED BY <2>4, <3>3
    <2> QED BY <2>2, <2>3, <2>4
  <1>12. IsUncreated(u) <=> IsUncreated(t)
    BY BufferNextWrites
  <1>13. /\ s \in DOMAIN state => ~IsUncreated(t) /\ t.pc # "found"
         /\ d # << >> => ~IsUncreated(t) /\ t.pc # "found"
    <2>1. s \in DOMAIN state => NeedsMain(t)
      BY <1>4 DEF StatesHaveThreads
    <2>2. NeedsMain(t) => ~IsUncreated(t) /\ t.pc # "found"
      BY DEF NeedsMain, IsUncreated
    <2>3. d # << >> => ~IsUncreated(t)
      BY DEF StartFollows
    <2>4. t.pc = "found" => IsUncreated(t)
      BY DEF IsUncreated
    <2> QED BY <2>1, <2>2, <2>3, <2>4
  <1>14. ASSUME NEW x \in m
         PROVE  \/ x \in l
                \/ t.pc = "found" /\ x < t.sequence /\ d = << >> /\ s \notin DOMAIN state
                \/ ~IsUncreated(t) /\ s \in DOMAIN state /\ x < n /\ d = << >>
    <2> SUFFICES ASSUME x \notin l
                 PROVE  \/ /\ t.pc = "found" /\ x < t.sequence /\ d = << >>
                           /\ s \notin DOMAIN state
                        \/ ~IsUncreated(t) /\ s \in DOMAIN state /\ x < n /\ d = << >>
      OBVIOUS
    <2>1. PICK w \in DOMAIN pending : /\ w \notin DOMAIN pending'
                                      /\ x = pending[w].entry.sequence
                                      /\ ComesLate(r, pending[w].entry)
      BY <1>14, LateIsLogged
    <2>2. \/ s \in DOMAIN state /\ x < n
          \/ t.pc = "found" /\ x < t.sequence
      BY <1>4, <1>5, <2>1 DEF ComesLate, reader_threads
    <2>3. x \in Nat
      BY <2>1 DEF Parts, WritersOK, Entry
    <2>4. CASE t.pc = "found" /\ x < t.sequence
      BY <1>13, <2>4
    <2>5. CASE s \in DOMAIN state /\ x < n
      <3>1. d = << >>
        <4> SUFFICES ASSUME d # << >> PROVE FALSE
          OBVIOUS
        <4>1. n <= x
          BY <1>10, <2>1, <2>5 DEF IsDue
        <4> QED BY <1>6, <2>3, <2>5, <4>1
      <3> QED BY <1>13, <2>5, <3>1
    <2> QED BY <2>2, <2>4, <2>5
  <1>15. LateInTurn(r, u, d, m)'
    <2>1. LateInTurn(r, t, d, l)
      BY DEF IsInTurn
    <2>2. t.pc = "found" <=> u.pc = "found"
      BY <1>3
    <2>3. IsUncreated(u) => \A x \in m : u.pc = "found" /\ x < u.sequence
      BY <1>3, <1>12, <1>14, <2>1, <2>2 DEF LateInTurn
    <2>4. s \in DOMAIN state' /\ d = << >> => \A x \in m : x < state'[s].start
      BY <1>4, <1>5, <1>6, <1>14, <2>1 DEF LateInTurn
    <2>5. d # << >> => \A x \in m : x < d[1]
      BY <1>14, <2>1 DEF LateInTurn
    <2> QED BY <1>4, <2>3, <2>4, <2>5 DEF LateInTurn, IsUncreated
  <1>16. SentInTurn(u, d)'
    <2> SUFFICES ASSUME d # << >>
                 PROVE  SentInTurn(u, d)'
      BY DEF SentInTurn
    <2>1. PICK x \in Nat : x = LastOf(d)
      BY <1>7
    <2>2. IsPast(x) /\ IsPast(x)'
      BY <2>1, PastStill DEF IsInTurn, SentInTurn
    <2>3. ASSUME NEW i \in u.log_mask, NEW e, IsHeld(i, e)', IsWanted(u.request, e),
                 d[1] < e.sequence, e.sequence < x
          PROVE  e.sequence \in {d[k] : k \in 1 .. Len(d)}
      <3>1. i \in t.log_mask /\ i \in LogIds /\ IsWanted(t.request, e)
        BY <1>1, <1>3, <2>3
      <3>2. ~Logs(i, e)
        <4> SUFFICES ASSUME Logs(i, e) PROVE FALSE
          OBVIOUS
        <4>1. x < e.sequence /\ e.sequence \in Nat
          BY <2>2 DEF Logs, IsPast, Parts, WritersOK, Entry
        <4> QED BY <2>3, <4>1
      <3>3. IsHeld(i, e)
        BY <2>3, <3>1, <3>2 DEF BufferEffect, HoldsNoOther
      <3> QED BY <2>1, <2>3, <3>1, <3>3 DEF IsInTurn, SentInTurn
    <2> QED BY <2>1, <2>2, <2>3 DEF SentInTurn, IsPast, LastOf, IsWanted
  <1> QED BY <1>9, <1>11, <1>15, <1>16 DEF IsInTurn

\* How the step of a thread t that becomes u moves the start it sends from
StartStays(r, t, u) ==
    /\ state'[Main(r)].start = state[Main(r)].start
    /\ IsDone(t) => IsDone(u)
    /\ u.pc = "write" => t.pc = "write"

StartMovesOn(r, t, u) ==
    t.pc = "stop" /\ IsDone(u) /\ state'[Main(r)].start = state[Main(r)].start + 1

StartMovesTo(r, t, u) ==
    /\ t.pc = "flush"
    /\ state[Main(r)].start <= state'[Main(r)].start
    /\ \E i \in LogIds : \E e : IsHeld(i, e) /\ state'[Main(r)].start = e.sequence

Turns(r, t, u) ==
    /\ IsUntimed(u)
    /\ ~IsUncreated(t) =>
          /\ u.request = t.request /\ u.log_mask = t.log_mask
          /\ Main(r) \in DOMAIN state' =>
                /\ Main(r) \in DOMAIN state
                /\ StartStays(r, t, u) \/ StartMovesOn(r, t, u) \/ StartMovesTo(r, t, u)

\* No client has a deadline: LogReader drops the timeout of one without a start time.
NoDeadlines == \A q \in Requests : ~(q.timeout /\ q.start # EPOCH)

\* The search, and the creation of the thread
LEMMA SearchTurns ==
    ASSUME Parts, NoDeadlines, NEW r \in Readers, NEW t, t = thread[r], IsUntimed(t),
           OnDataAvailable(r) \/ FindReturns(r) \/ CreateThread(r), NEW u, u = thread'[r]
    PROVE  Turns(r, t, u)
  <1>1. DOMAIN thread = Readers /\ t \in Thread
    BY DEF Parts, ThreadsOK
  <1>2. IsUncreated(t)
    BY DEF OnDataAvailable, FindReturns, CreateThread, IsUncreated
  <1>3. CASE OnDataAvailable(r)
    <2>1. PICK q \in Requests, pc \in {"found", "flush"} : u = NewThread(q, pc)
      BY <1>1, <1>3 DEF OnDataAvailable
    <2>2. u.pc = pc /\ u.deadline = (q.timeout /\ q.start # EPOCH)
      BY <2>1 DEF NewThread
    <2> QED BY <1>2, <2>2 DEF NoDeadlines, IsUntimed, Turns
  <1>4. CASE FindReturns(r)
    <2>1. \/ u = [t EXCEPT !.pc = "gone"]
          \/ u = [t EXCEPT !.pc = "found"]
          \/ u = [t EXCEPT !.pc = "found", !.sequence = sequence]
      BY <1>1, <1>4 DEF FindReturns
    <2>2. u.pc \in {"gone", "found"} /\ u.deadline = t.deadline
      BY <1>1, <2>1 DEF Thread
    <2> QED BY <1>2, <2>2 DEF IsUntimed, Turns
  <1>5. CASE CreateThread(r)
    <2>1. u = [t EXCEPT !.pc = "start", !.pass = "second", !.last = 1, !.start_time_set = FALSE]
      BY <1>1, <1>5 DEF CreateThread
    <2>2. u.pc = "start" /\ u.deadline = t.deadline
      BY <1>1, <2>1 DEF Thread
    <2> QED BY <1>2, <2>2 DEF IsUntimed, Turns
  <1> QED BY <1>3, <1>4, <1>5

\* ThreadFunction() outside FlushTo()
LEMMA LoopTurns ==
    ASSUME Parts, NEW r \in Readers, NEW t, t = thread[r], IsUntimed(t),
           DoSocketDelete(r) \/ DeadlinePasses(r) \/ LoopTop(r) \/ AfterWaitUntil(r),
           NEW u, u = thread'[r]
    PROVE  Turns(r, t, u)
  <1>1. DOMAIN thread = Readers /\ t \in Thread
    BY DEF Parts, ThreadsOK
  <1>2. ~DeadlinePasses(r) /\ ~AfterWaitUntil(r)
    BY DEF IsUntimed, DeadlinePasses, AfterWaitUntil
  <1>3. CASE DoSocketDelete(r)
    <2>1. PICK v : v = [t EXCEPT !.release = TRUE]
      OBVIOUS
    <2>2. u = TriggerReader(v) /\ state' = state
      BY <1>1, <1>3, <2>1 DEF DoSocketDelete, Release
    <2>3. /\ v \in Thread /\ v.pc = t.pc /\ v.request = t.request /\ v.log_mask = t.log_mask
          /\ v.deadline = t.deadline /\ v.release = TRUE
      BY <1>1, <2>1 DEF Thread
    <2>4. /\ u.request = v.request /\ u.log_mask = v.log_mask /\ u.deadline = v.deadline
          /\ u.release = v.release
          /\ \/ u.pc = v.pc
             \/ v.pc = "wait" /\ u.pc = "woken"
             \/ v.pc = "wait_until" /\ u.pc = "notified"
      BY <2>2, <2>3, WokenFields
    <2>5. IsUntimed(u) /\ (IsDone(t) => IsDone(u)) /\ (u.pc = "write" => t.pc = "write")
      BY <2>3, <2>4 DEF IsUntimed, IsDone
    <2> QED BY <2>2, <2>3, <2>4, <2>5 DEF Turns, StartStays
  <1>4. CASE LoopTop(r)
    <2>1. \/ /\ u = [t EXCEPT !.pc = "exit"] /\ state' = state
          \/ /\ ~t.release
             /\ \E pass \in {"first", "second"} : u = BeginFlush(t, pass)
             /\ \/ state' = state
                \/ state' = WithState(Temp(r), NewFlushToState(state[Main(r)].start,
                                                               state[Main(r)].log_mask))
      BY <1>1, <1>4 DEF LoopTop, LeaveLoop, EnterFlushTo, IsUntimed
    <2>2. KeepsMain(r)
      <3>1. CASE state' = state
        BY <3>1 DEF KeepsMain
      <3>2. CASE state' = WithState(Temp(r), NewFlushToState(state[Main(r)].start,
                                                             state[Main(r)].log_mask))
        BY <3>2, WithStateKeeps
      <3> QED BY <2>1, <3>1, <3>2
    <2>3. /\ u.request = t.request /\ u.log_mask = t.log_mask /\ u.deadline = t.deadline
          /\ u.pc = "exit" \/ (~t.release /\ u.pc = "flush")
      BY <1>1, <2>1 DEF Thread, BeginFlush
    <2>4. IsUntimed(u) /\ (IsDone(t) => IsDone(u)) /\ u.pc # "write"
      BY <1>4, <2>3 DEF IsUntimed, IsDone, LoopTop
    <2> QED BY <2>2, <2>3, <2>4 DEF Turns, StartStays, KeepsMain
  <1> QED BY <1>2, <1>3, <1>4

\* FlushTo() begins again or is over: after a write, a pass, or for good.
LEMMA EndTurns ==
    ASSUME Parts, NEW r \in Readers, NEW t, t = thread[r], IsUntimed(t),
           \/ WriteSucceeds(r) \/ WriteFails(r)
           \/ FirstPassReturns(r) \/ SecondPassReturns(r) \/ ThreadExits(r),
           NEW u, u = thread'[r]
    PROVE  Turns(r, t, u)
  <1>1. DOMAIN thread = Readers /\ t \in Thread
    BY DEF Parts, ThreadsOK
  <1>2. CASE WriteSucceeds(r) \/ WriteFails(r)
    <2>1. /\ \/ u = [t EXCEPT !.pc = "flush", !.log_id = 0, !.out = 0]
             \/ u = [t EXCEPT !.pc = "exit", !.start_time = EPOCH, !.out = 0]
          /\ t.pc = "write" /\ state' = state
      BY <1>1, <1>2 DEF WriteSucceeds, WriteFails
    <2>2. /\ u.request = t.request /\ u.log_mask = t.log_mask /\ u.deadline = t.deadline
          /\ u.pc \in {"flush", "exit"}
      BY <1>1, <2>1 DEF Thread
    <2>3. IsUntimed(u) /\ ~IsDone(t) /\ u.pc # "write"
      BY <2>1, <2>2 DEF IsUntimed, IsDone
    <2> QED BY <2>1, <2>2, <2>3 DEF Turns, StartStays
  <1>3. CASE FirstPassReturns(r)
    <2>1. u = BeginFlush(t, "second") /\ t.pc = "stop" /\ state' = WithoutState(Temp(r))
      BY <1>1, <1>3 DEF FirstPassReturns
    <2>2. /\ u.request = t.request /\ u.log_mask = t.log_mask /\ u.deadline = t.deadline
          /\ u.pc = "flush"
      BY <1>1, <2>1 DEF Thread, BeginFlush
    <2>3. IsUntimed(u) /\ ~IsDone(t) /\ u.pc # "write"
      BY <2>1, <2>2 DEF IsUntimed, IsDone
    <2>4. KeepsMain(r)
      BY <2>1, WithoutStateKeeps
    <2> QED BY <2>2, <2>3, <2>4 DEF Turns, StartStays, KeepsMain
  <1>4. CASE SecondPassReturns(r)
    <2>1. /\ t.pc = "stop" /\ t.pass = "second"
          /\ \/ u = [t EXCEPT !.pc = "exit", !.start_time = EPOCH]
             \/ u = [t EXCEPT !.pc = "wait", !.start_time = EPOCH]
          /\ state' = [state EXCEPT ![Main(r)].start = @ + 1]
      BY <1>1, <1>4 DEF SecondPassReturns, IsUntimed
    <2>2. /\ u.request = t.request /\ u.log_mask = t.log_mask /\ u.deadline = t.deadline
          /\ u.pc \in {"exit", "wait"}
      BY <1>1, <2>1 DEF Thread
    <2>3. IsUntimed(u) /\ IsDone(u)
      BY <2>2 DEF IsUntimed, IsDone
    <2>4. PICK s : s = Main(r)
      OBVIOUS
    <2>5. s \in DOMAIN state /\ IsState(state[s])
      BY <2>1, <2>4, ThreadHas DEF NeedsMain, Parts, StatesOK
    <2>6. state'[s].start = state[s].start + 1
      BY <2>1, <2>4, <2>5 DEF IsState, FlushToState
    <2> QED BY <2>1, <2>2, <2>3, <2>4, <2>5, <2>6 DEF Turns, StartMovesOn
  <1>5. CASE ThreadExits(r)
    <2>1. u = [t EXCEPT !.pc = "gone"] /\ state' = WithoutState(Main(r))
      BY <1>1, <1>5 DEF ThreadExits
    <2>2. /\ u.request = t.request /\ u.log_mask = t.log_mask /\ u.deadline = t.deadline
          /\ u.pc = "gone"
      BY <1>1, <2>1 DEF Thread
    <2>3. Main(r) \notin DOMAIN state'
      BY <2>1 DEF WithoutState
    <2> QED BY <2>2, <2>3 DEF Turns, IsUntimed
  <1> QED BY <1>2, <1>3, <1>4, <1>5

\* FlushTo(): it leaves the start alone, or moves it up to the entry it takes.
LEMMA FlushTurns ==
    ASSUME Parts, SortedInv, LogsRest, NEW r \in Readers, NEW t, t = thread[r],
           IsFaithful(t), IsUntimed(t), CheckForNewLogs(r) \/ FlushToNoMore(r) \/ FlushToEntry(r),
           NEW u, u = thread'[r]
    PROVE  Turns(r, t, u)
  <1>1. DOMAIN thread = Readers /\ t \in Thread /\ t.pc = "flush" /\ logd_lock = {r}
    <2>1. Flushing(r)
      BY Zenon DEF CheckForNewLogs, FlushToNoMore, FlushToEntry
    <2> QED BY <2>1 DEF Parts, ThreadsOK, Flushing
  <1>2. ~IsDone(t)
    BY <1>1 DEF IsDone
  <1>3. CASE CheckForNewLogs(r)
    <2>1. PICK s, i : s = Current(r) /\ i = thread[r].log_id
      OBVIOUS
    <2>2. ChecksLog(s, i)
      BY <1>3, <2>1, CheckForNewLogsReads
    <2>3. u = [t EXCEPT !.log_id = t.log_id + 1]
      BY <1>1, <1>3 DEF CheckForNewLogs, Flushing
    <2>4. /\ u.request = t.request /\ u.log_mask = t.log_mask /\ u.deadline = t.deadline
          /\ u.pc = "flush"
      BY <1>1, <2>3 DEF Thread
    <2>5. IsUntimed(u) /\ u.pc # "write"
      BY <2>4 DEF IsUntimed
    <2>6. Main(r) \in DOMAIN state' =>
             Main(r) \in DOMAIN state /\ state'[Main(r)].start = state[Main(r)].start
      BY <2>2 DEF ChecksLog
    <2> QED BY <1>2, <2>4, <2>5, <2>6 DEF Turns, StartStays
  <1>4. CASE FlushToNoMore(r)
    <2>1. u = [t EXCEPT !.pc = "stop"] /\ state' = state
      BY <1>1, <1>4 DEF FlushToNoMore, Flushing
    <2>2. /\ u.request = t.request /\ u.log_mask = t.log_mask /\ u.deadline = t.deadline
          /\ u.pc = "stop"
      BY <1>1, <2>1 DEF Thread
    <2>3. IsUntimed(u) /\ u.pc # "write"
      BY <2>2 DEF IsUntimed
    <2> QED BY <1>2, <2>1, <2>2, <2>3 DEF Turns, StartStays
  <1>5. CASE FlushToEntry(r)
    <2>1. PICK i, entry, result, o : FlushesEntry(r, i, entry, result, o)
      BY <1>5, FlushToEntryCases
    <2>2. PICK s : s = CurrentOf(r, t)
      OBVIOUS
    <2>3. s = Current(r) /\ s \in DOMAIN state /\ ~Clearing
      BY <1>1, <2>2, CurrentIsLive, NotClearing DEF Current, CurrentOf
    <2>4. PICK n : n = state[s].start
      OBVIOUS
    <2>5. PICK out : out = Outcome(t, n, entry)
      OBVIOUS
    <2>6. entry \in Entry /\ result = out.result /\ o = out.thread
      BY <2>1, <2>3, <2>4, <2>5, Zenon DEF FlushesEntry
    <2>7. Pops(s, i, entry)
      BY <2>1, <2>3, FlushesPops
    <2>8. /\ i \in LogIds /\ IsHeld(i, entry) /\ DOMAIN state' = DOMAIN state
          /\ \A p \in DOMAIN state : p # s => state'[p] = state[p]
          /\ entry.sequence \in Nat /\ n \in Nat
          /\ state'[s].start = IF entry.sequence < n THEN n ELSE entry.sequence
      BY <2>3, <2>4, <2>7, PopReads
    <2>9. /\ o \in Thread /\ o.pc = "flush" /\ o.pass = t.pass /\ FiltersOnly(o, t)
          /\ entry.sequence < n => result = "kSkip"
          /\ t.pass = "first" => result = "kSkip"
          /\ t.pass = "find" => result # "kWrite"
      BY <1>1, <2>5, <2>6, <2>8, OutcomeFilters
    <2>10. Leaves(o, result, entry.sequence, u)
      <3>1. PICK d : d = delivered[r]
        OBVIOUS
      <3>2. \/ result = "kSkip" /\ Becomes(r, [o EXCEPT !.log_id = 0], d)
            \/ result = "kStop" /\ Becomes(r, [o EXCEPT !.pc = "stop"], d)
            \/ result = "kWrite" /\ Becomes(r, [o EXCEPT !.pc = "write", !.out = entry.sequence], d)
        BY <2>1, <3>1, Zenon DEF FlushesEntry
      <3> QED BY <3>2, BecomesOnly DEF Leaves
    <2>11. /\ u.request = t.request /\ u.log_mask = t.log_mask /\ u.deadline = t.deadline
           /\ \/ result = "kSkip" /\ u.pc = "flush"
              \/ result = "kStop" /\ u.pc = "stop"
              \/ result = "kWrite" /\ u.pc = "write"
      BY <2>8, <2>9, <2>10, FlushedThread
    <2>12. IsUntimed(u)
      BY <2>11 DEF IsUntimed
    <2>13. CASE t.pass = "second"
      <3>1. s = Main(r)
        BY <2>2, <2>13 DEF CurrentOf
      <3>2. CASE entry.sequence < n
        <4>1. StartStays(r, t, u)
          BY <1>2, <2>4, <2>8, <2>9, <2>11, <3>1, <3>2 DEF StartStays
        <4> QED BY <2>3, <2>11, <2>12, <3>1, <4>1 DEF Turns
      <3>3. CASE ~(entry.sequence < n)
        <4>1. state'[s].start = entry.sequence /\ n <= entry.sequence
          BY <2>8, <3>3
        <4>2. StartMovesTo(r, t, u)
          BY <1>1, <2>4, <2>8, <3>1, <4>1 DEF StartMovesTo
        <4> QED BY <2>3, <2>11, <2>12, <3>1, <4>2 DEF Turns
      <3> QED BY <3>2, <3>3
    <2>14. CASE t.pass # "second"
      <3>1. Main(r) # s /\ t.pass \in {"find", "first"}
        BY <1>1, <2>2, <2>14, MainIsNotTemp DEF CurrentOf, Thread
      <3>2. u.pc # "write"
        BY <2>9, <2>11, <3>1
      <3> QED BY <1>2, <2>8, <2>11, <2>12, <3>1, <3>2 DEF Turns, StartStays
    <2> QED BY <2>13, <2>14
  <1> QED BY <1>3, <1>4, <1>5

LEMMA StepTurns ==
    ASSUME Parts, SortedInv, LogsRest, NoDeadlines, NEW r \in Readers, NEW t, t = thread[r],
           IsFaithful(t), IsUntimed(t), StepOf(r), NEW u, u = thread'[r]
    PROVE  Turns(r, t, u)
  <1>1. CASE OnDataAvailable(r) \/ FindReturns(r) \/ CreateThread(r)
    BY <1>1, SearchTurns
  <1>2. CASE DoSocketDelete(r) \/ DeadlinePasses(r) \/ LoopTop(r) \/ AfterWaitUntil(r)
    BY <1>2, LoopTurns
  <1>3. CASE \/ WriteSucceeds(r) \/ WriteFails(r)
             \/ FirstPassReturns(r) \/ SecondPassReturns(r) \/ ThreadExits(r)
    BY <1>3, EndTurns
  <1>4. CASE CheckForNewLogs(r) \/ FlushToNoMore(r) \/ FlushToEntry(r)
    BY <1>4, FlushTurns
  <1> QED BY <1>1, <1>2, <1>3, <1>4 DEF StepOf, ReaderStep

\* A thread that was created stays so.
LEMMA StaysCreated ==
    ASSUME Parts, NEW r \in Readers, StepOf(r), NEW t, t = thread[r], ~IsUncreated(t),
           NEW u, u = thread'[r], NEW d, d = delivered[r], NEW c, c = delivered'[r]
    PROVE  ~IsUncreated(u) /\ (c = d \/ WriteSucceeds(r))
  <1>1. DOMAIN thread = Readers /\ t \in Thread /\ (t.pc = "write" => t.pass = "second")
    BY ThreadHas DEF Parts, ThreadsOK
  <1>2. CASE Rests(r)
    BY <1>2 DEF Rests
  <1>3. CASE MovesOn(r)
    BY <1>3 DEF MovesOn, IsUncreated
  <1>4. CASE Flushes(r)
    <2>1. PICK i, entry, result, o : FlushesEntry(r, i, entry, result, o)
      BY <1>4 DEF Flushes
    <2>2. t.pc = "flush" /\ t.pass = "second"
      BY <1>4 DEF Flushes
    <2>3. PICK out : out = Outcome(t, state[Current(r)].start, entry)
      OBVIOUS
    <2>4. o = out.thread /\ entry \in Entry
      BY <2>1, <2>3, Zenon DEF FlushesEntry
    <2>5. o \in Thread /\ o.pc = "flush" /\ o.pass = "second"
      BY <1>1, <2>2, <2>3, <2>4, OutcomeType DEF FilterOK
    <2>6. /\ c = d
          /\ Leaves(o, result, entry.sequence, u)
      <3>1. \/ result = "kSkip" /\ Becomes(r, [o EXCEPT !.log_id = 0], d)
            \/ result = "kStop" /\ Becomes(r, [o EXCEPT !.pc = "stop"], d)
            \/ result = "kWrite" /\ Becomes(r, [o EXCEPT !.pc = "write", !.out = entry.sequence], d)
        BY <2>1, Zenon DEF FlushesEntry
      <3> QED BY <3>1, BecomesOnly DEF Leaves
    <2>7. PICK n \in Nat : n = entry.sequence
      BY <2>4 DEF Entry
    <2>8. \/ u = [o EXCEPT !.log_id = 0]
          \/ u = [o EXCEPT !.pc = "stop"]
          \/ u = [o EXCEPT !.pc = "write", !.out = n]
      BY <2>6, <2>7 DEF Leaves
    <2>9. u.pc \in {"flush", "stop", "write"} /\ u.pass = "second"
      BY <2>5, <2>8 DEF Thread
    <2> QED BY <2>6, <2>9 DEF IsUncreated
  <1>5. CASE WriteSucceeds(r)
    <2>1. u = [t EXCEPT !.pc = "flush", !.log_id = 0, !.out = 0] /\ t.pc = "write"
      BY <1>1, <1>5 DEF WriteSucceeds
    <2>2. u.pc = "flush" /\ u.pass = "second"
      BY <1>1, <2>1 DEF Thread
    <2> QED BY <1>5, <2>2 DEF IsUncreated
  <1>6. Rests(r) \/ MovesOn(r) => c = d
    BY DEF Rests, MovesOn
  <1> QED BY <1>2, <1>3, <1>4, <1>5, <1>6, StepEffect

\* Until it is created, it has sent nothing, and what comes late is below its start.
LEMMA UncreatedInTurn ==
    ASSUME Parts, StatesHaveThreads, StartFollows, NEW r \in Readers, NEW t, t = thread[r],
           NEW d, d = delivered[r], NEW l, IsInTurn(r, t, d, l), IsUncreated(t), StepOf(r),
           NEW u, u = thread'[r], NEW c, c = delivered'[r], Turns(r, t, u)
    PROVE  IsInTurn(r, u, c, l)'
  <1>1. DOMAIN thread = Readers /\ t \in Thread /\ t.pc # "write"
    BY DEF Parts, ThreadsOK, IsUncreated
  <1>2. d = << >> /\ Main(r) \notin DOMAIN state
    BY DEF StartFollows, StatesHaveThreads, NeedsMain, IsUncreated
  <1>3. c = << >> /\ u.pc # "write"
    <2>1. ~WriteSucceeds(r)
      BY <1>1 DEF WriteSucceeds
    <2>2. ~MovesOn(r) /\ ~Flushes(r)
      BY DEF MovesOn, Flushes, IsUncreated
    <2>3. Rests(r)
      BY <2>1, <2>2, StepEffect
    <2> QED BY <1>1, <1>2, <2>3 DEF Rests
  <1>4. LateInTurn(r, u, c, l)'
    <2>1. IsUncreated(t) => \A n \in l : t.pc = "found" /\ n < t.sequence
      BY DEF IsInTurn, LateInTurn
    <2>2. CASE t.pc # "found"
      BY <1>3, <2>1, <2>2 DEF LateInTurn
    <2>3. CASE t.pc = "found"
      <3>1. CreateThread(r)
        <4>1. ~OnDataAvailable(r) /\ ~FindReturns(r) /\ ~DoSocketDelete(r) /\ ~DeadlinePasses(r)
          BY <1>2, <2>3, Zenon DEF OnDataAvailable, FindReturns, DoSocketDelete, reader_threads,
                                   DeadlinePasses
        <4>2. ~LoopTop(r) /\ ~AfterWaitUntil(r)
          BY <2>3, Zenon DEF LoopTop, AfterWaitUntil
        <4>3. ~CheckForNewLogs(r) /\ ~FlushToEntry(r) /\ ~FlushToNoMore(r)
          BY <2>3, Zenon DEF CheckForNewLogs, FlushToEntry, FlushToNoMore, Flushing
        <4>4. ~WriteSucceeds(r) /\ ~WriteFails(r)
          BY <2>3, Zenon DEF WriteSucceeds, WriteFails
        <4>5. ~FirstPassReturns(r) /\ ~SecondPassReturns(r) /\ ~ThreadExits(r)
          BY <2>3, Zenon DEF FirstPassReturns, SecondPassReturns, ThreadExits
        <4> QED BY <4>1, <4>2, <4>3, <4>4, <4>5 DEF StepOf, ReaderStep
      <3>2. u = [t EXCEPT !.pc = "start", !.pass = "second", !.last = 1, !.start_time_set = FALSE]
        BY <1>1, <3>1 DEF CreateThread
      <3>3. u.pc = "start"
        BY <1>1, <3>2 DEF Thread
      <3>4. state'[Main(r)] = NewFlushToState(t.sequence, t.log_mask)
        BY <3>1 DEF CreateThread, WithState
      <3>5. state'[Main(r)].start = t.sequence
        BY <3>4 DEF NewFlushToState
      <3> QED BY <1>3, <2>1, <2>3, <3>3, <3>5 DEF LateInTurn, IsUncreated
    <2> QED BY <2>2, <2>3
  <1> QED BY <1>3, <1>4 DEF IsInTurn, StartInTurn, SentInTurn, Turns, IsUntimed

\* Where nothing is sent, the start of a thread moves only to what is past.
LEMMA SilentInTurn ==
    ASSUME Parts, SortedInv, BufferRests, NumbersInTurn, NEW r \in Readers, NEW t, t = thread[r],
           NEW d, d = delivered[r], NEW l, l = late[r], IsInTurn(r, t, d, l), ~IsUncreated(t),
           NEW u, u = thread'[r], ~IsUncreated(u), Turns(r, t, u)
    PROVE  IsInTurn(r, u, d, l)'
  <1>1. /\ u.request = t.request /\ u.log_mask = t.log_mask /\ t.log_mask \in SUBSET LogIds
        /\ IsUntimed(u)
    BY ThreadHas DEF Turns, Thread
  <1>2. sequence' = sequence /\ pending' = pending
    BY DEF BufferRests
  <1>3. PICK s, n, m : s = Main(r) /\ n = state[s].start /\ m = state'[s].start
    OBVIOUS
  <1>4. ASSUME s \in DOMAIN state'
        PROVE  /\ s \in DOMAIN state /\ n \in Nat
               /\ StartStays(r, t, u) \/ StartMovesOn(r, t, u) \/ StartMovesTo(r, t, u)
    BY <1>3, <1>4 DEF Turns, Parts, StatesOK, IsState, FlushToState
  <1>5. ASSUME s \in DOMAIN state'
        PROVE  n <= m /\ m \in Nat
    <2>1. CASE StartStays(r, t, u)
      BY <1>3, <1>4, <1>5, <2>1 DEF StartStays
    <2>2. CASE StartMovesOn(r, t, u)
      BY <1>3, <1>4, <1>5, <2>2 DEF StartMovesOn
    <2>3. CASE StartMovesTo(r, t, u)
      BY <1>3, <2>3, HeldAreEntries DEF StartMovesTo
    <2> QED BY <1>4, <1>5, <2>1, <2>2, <2>3
  <1>6. ASSUME s \in DOMAIN state', d # << >> \/ u.pc = "write"
        PROVE  IF IsDone(u) THEN IsDue(m) ELSE IsPast(m)
    <2>1. n \in Nat /\ s \in DOMAIN state
      BY <1>4, <1>6
    <2>2. d # << >> \/ t.pc = "write" => IF IsDone(t) THEN IsDue(n) ELSE IsPast(n)
      BY <1>3, <2>1 DEF IsInTurn, StartInTurn
    <2>3. CASE StartStays(r, t, u)
      <3>1. /\ m = n /\ (IsDone(t) => IsDone(u)) /\ (u.pc = "write" => t.pc = "write")
        BY <1>3, <2>3 DEF StartStays
      <3>2. IsPast(n) => IsDue(n)
        BY <2>1, PastIsDue
      <3> QED BY <1>6, <2>2, <3>1, <3>2
    <2>4. CASE StartMovesOn(r, t, u)
      <3>1. m = n + 1 /\ IsDone(u) /\ t.pc = "stop"
        BY <1>3, <2>4 DEF StartMovesOn
      <3>2. u.pc # "write" /\ ~IsDone(t)
        BY <3>1 DEF IsDone
      <3>3. IsPast(n)
        BY <1>6, <2>2, <3>2
      <3>4. IsDue(n + 1)
        BY <2>1, <3>3 DEF IsPast, IsDue, Parts, WritersOK, Entry
      <3> QED BY <3>1, <3>4
    <2>5. CASE StartMovesTo(r, t, u)
      <3>1. PICK i \in LogIds : \E e : IsHeld(i, e) /\ m = e.sequence
        BY <1>3, <2>5 DEF StartMovesTo
      <3>2. PICK e : IsHeld(i, e) /\ m = e.sequence
        BY <3>1
      <3>3. IsPast(m) /\ m \in Nat
        BY <3>2, HeldAreEntries DEF NumbersInTurn
      <3> QED BY <3>3, PastIsDue
    <2> QED BY <1>4, <1>6, <2>3, <2>4, <2>5
  <1>7. StartInTurn(r, u, d)'
    <2>1. \A x : (IsPast(x)' <=> IsPast(x)) /\ (IsDue(x)' <=> IsDue(x))
      BY <1>2 DEF IsPast, IsDue
    <2>2. Main(r)' = Main(r) /\ (IsDone(u)' <=> IsDone(u))
      BY DEF Main, IsDone
    <2> QED BY <1>3, <1>6, <2>1, <2>2 DEF StartInTurn
  <1>8. LateInTurn(r, u, d, l)'
    <2>1. ASSUME s \in DOMAIN state', d = << >>, NEW x \in l
          PROVE  x < m
      <3>1. x < n /\ n \in Nat
        BY <1>3, <1>4, <2>1 DEF IsInTurn, LateInTurn
      <3>2. x \in Nat
        BY <2>1 DEF Parts, HistoryOK
      <3>3. m \in Nat /\ n <= m
        BY <1>5, <2>1
      <3> QED BY <3>1, <3>2, <3>3
    <2>2. d # << >> => \A x \in l : x < d[1]
      BY DEF IsInTurn, LateInTurn
    <2> QED BY <1>3, <2>1, <2>2 DEF LateInTurn, IsUncreated, Main
  <1>9. SentInTurn(u, d)'
    <2>1. \A i \in LogIds : \A e : IsHeld(i, e)' => IsHeld(i, e)
      BY RestsSorted DEF BufferRests
    <2>2. SentInTurn(t, d)
      BY DEF IsInTurn
    <2> QED BY <1>1, <1>2, <2>1, <2>2 DEF SentInTurn, IsPast, LastOf, IsWanted
  <1> QED BY <1>1, <1>7, <1>8, <1>9 DEF IsInTurn, IsUntimed

\* What is sent is the start of the thread, and the next after what was sent before.
LEMMA SendInTurn ==
    ASSUME Parts, SortedInv, BufferRests, NumbersInTurn, StartFollows, NEW r \in Readers,
           NEW t, t = thread[r], NEW d, d = delivered[r], NEW l, l = late[r],
           IsServed(r, t, d, l), IsInTurn(r, t, d, l), WriteSucceeds(r),
           NEW u, u = thread'[r], NEW c, c = delivered'[r]
    PROVE  IsInTurn(r, u, c, l)'
  <1>1. /\ t \in Thread /\ DOMAIN thread = Readers /\ t.log_mask \in SUBSET LogIds
        /\ d \in Seq(Nat) /\ DOMAIN delivered = Readers
    BY DEF Parts, ThreadsOK, HistoryOK, Thread
  <1>2. /\ t.pc = "write" /\ state' = state /\ c = Append(d, t.out)
        /\ u = [t EXCEPT !.pc = "flush", !.log_id = 0, !.out = 0]
    BY <1>1 DEF WriteSucceeds
  <1>3. /\ u.pc = "flush" /\ u.request = t.request /\ u.log_mask = t.log_mask
        /\ u.deadline = t.deadline /\ u.pass = t.pass /\ t.out \in Nat
    BY <1>1, <1>2 DEF Thread
  <1>4. sequence' = sequence /\ pending' = pending
    BY DEF BufferRests
  <1>5. Main(r) \in DOMAIN state /\ t.pass = "second" /\ IsServing(t) /\ ~IsUncreated(u)
    BY <1>2, <1>3, ThreadHas DEF NeedsMain, IsServing, IsUncreated
  <1>6. PICK s, n : s = Main(r) /\ n = state[s].start
    OBVIOUS
  <1>7. n = t.out /\ n \in Nat
    BY <1>2, <1>3, <1>6 DEF StartFollows
  <1>8. IsPast(n) /\ IsPast(n)'
    <2>1. ~IsDone(t)
      BY <1>2 DEF IsDone
    <2>2. IsPast(n)
      BY <1>2, <1>5, <1>6, <2>1 DEF IsInTurn, StartInTurn
    <2> QED BY <1>4, <2>2 DEF IsPast
  <1>9. StartInTurn(r, u, c)'
    <2>1. ~IsDone(u)
      BY <1>3 DEF IsDone
    <2>2. state'[Main(r)].start = n
      BY <1>2, <1>6
    <2> QED BY <1>8, <2>1, <2>2 DEF StartInTurn, IsDone, IsPast, Main
  <1>10. /\ c # << >> /\ LastOf(c) = n /\ c[1] = IF d # << >> THEN d[1] ELSE n
         /\ {d[k] : k \in 1 .. Len(d)} \subseteq {c[k] : k \in 1 .. Len(c)}
    <2>1. /\ Len(c) = Len(d) + 1 /\ c[Len(d) + 1] = n /\ Len(d) \in Nat
          /\ \A k \in 1 .. Len(d) : c[k] = d[k]
          /\ d = << >> <=> Len(d) = 0
      BY <1>1, <1>2, <1>7
    <2>2. {d[k] : k \in 1 .. Len(d)} \subseteq {c[k] : k \in 1 .. Len(c)}
      BY <2>1
    <2>3. c # << >> /\ LastOf(c) = n
      BY <1>1, <1>2, <1>7, AppendOne
    <2>4. c[1] = IF d # << >> THEN d[1] ELSE n
      BY <2>1
    <2> QED BY <2>2, <2>3, <2>4
  <1>11. \A x \in l : x < c[1]
    BY <1>5, <1>6, <1>10 DEF IsInTurn, LateInTurn
  <1>12. LateInTurn(r, u, c, l)'
    BY <1>5, <1>10, <1>11 DEF LateInTurn, IsUncreated
  <1>13. ASSUME NEW i \in t.log_mask, NEW e, IsHeld(i, e)', IsWanted(t.request, e),
                c[1] < e.sequence, e.sequence < n
         PROVE  e.sequence \in {c[k] : k \in 1 .. Len(c)}
    <2>1. IsHeld(i, e)
      BY <1>1, <1>13, RestsSorted DEF BufferRests
    <2>2. e.sequence \in Nat
      BY <1>1, <2>1, HeldAreEntries
    <2>3. e.sequence \in Got(t, d, l)
      BY <1>5, <1>6, <1>13, <2>1 DEF IsServed, IsSent, IsComplete
    <2>4. e.sequence # t.out
      BY <1>7, <1>13, <2>2
    <2>5. e.sequence \notin l
      <3> SUFFICES ASSUME e.sequence \in l PROVE FALSE
        OBVIOUS
      <3>1. e.sequence < c[1]
        BY <1>11
      <3>2. c[1] \in Nat
        BY <1>1, <1>7, <1>10
      <3> QED BY <1>13, <2>2, <3>1, <3>2
    <2> QED BY <1>10, <2>3, <2>4, <2>5 DEF Got
  <1>14. SentInTurn(u, c)'
    BY <1>3, <1>8, <1>10, <1>13 DEF SentInTurn, IsPast, LastOf, IsWanted
  <1>15. IsUntimed(u)
    BY <1>3 DEF IsInTurn, IsUntimed
  <1> QED BY <1>9, <1>12, <1>14, <1>15 DEF IsInTurn, IsUntimed

\* Every step of a thread keeps its client in turn.
LEMMA StepInTurn ==
    ASSUME Parts, StatesHaveThreads, SortedInv, NumbersInTurn, StartFollows, NoDeadlines,
           NEW r \in Readers, NEW t, t = thread[r], NEW d, d = delivered[r],
           NEW l, l = late[r], IsServed(r, t, d, l), IsInTurn(r, t, d, l), StepOf(r),
           NEW u, u = thread'[r], NEW c, c = delivered'[r]
    PROVE  IsInTurn(r, u, c, l)'
  <1>1. BufferRests /\ LogsRest
    BY StepRests DEF BufferRests
  <1>2. Turns(r, t, u)
    BY <1>1, StepTurns DEF IsServed, IsInTurn
  <1>3. CASE IsUncreated(t)
    BY <1>2, <1>3, UncreatedInTurn
  <1>4. CASE ~IsUncreated(t) /\ WriteSucceeds(r)
    BY <1>1, <1>4, SendInTurn
  <1>5. CASE ~IsUncreated(t) /\ ~WriteSucceeds(r)
    <2>1. ~IsUncreated(u) /\ c = d
      BY <1>5, StaysCreated
    <2> QED BY <1>1, <1>2, <1>5, <2>1, SilentInTurn
  <1> QED BY <1>3, <1>4, <1>5

\* Where nothing is logged and its states are left alone, a client stays in turn.
LEMMA StillInTurn ==
    ASSUME Parts, SortedInv, BufferRests, NEW r \in Readers, NEW t, t = thread[r],
           NEW d, NEW l, IsInTurn(r, t, d, l), KeepsStates(r)
    PROVE  IsInTurn(r, t, d, l)'
  <1>1. sequence' = sequence /\ pending' = pending
    BY DEF BufferRests
  <1>2. t.log_mask \in SUBSET LogIds
    BY ThreadHas DEF Thread
  <1>3. /\ Main(r) \in DOMAIN state' <=> Main(r) \in DOMAIN state
        /\ Main(r) \in DOMAIN state => state'[Main(r)] = state[Main(r)]
    BY DEF KeepsStates
  <1>4. \A x : (IsPast(x)' <=> IsPast(x)) /\ (IsDue(x)' <=> IsDue(x))
    BY <1>1 DEF IsPast, IsDue
  <1>5. StartInTurn(r, t, d)'
    BY <1>3, <1>4 DEF IsInTurn, StartInTurn, IsDone, Main
  <1>6. LateInTurn(r, t, d, l)'
    BY <1>3 DEF IsInTurn, LateInTurn, IsUncreated, Main
  <1>7. SentInTurn(t, d)'
    <2>1. \A i \in LogIds : \A e : IsHeld(i, e)' => IsHeld(i, e)
      BY RestsSorted DEF BufferRests
    <2>2. SentInTurn(t, d)
      BY DEF IsInTurn
    <2> QED BY <1>2, <1>4, <2>1, <2>2 DEF SentInTurn, LastOf, IsWanted
  <1> QED BY <1>5, <1>6, <1>7 DEF IsInTurn, IsUntimed

\* No command is undone: there was no reinit before a step that there was none after.
LEMMA ReinitsAreCounted ==
    ASSUME Parts, BufferNext, commands'.reinits = 0
    PROVE  commands.reinits = 0 /\ ~ReinitTrigger
  <1>1. commands \in [set_sizes : Nat, reinits : Nat, clears : Nat, uid_clears : Nat]
    BY DEF Parts, CommandsOK
  <1>2. ~ReinitTrigger
    <2> SUFFICES ASSUME ReinitTrigger PROVE FALSE
      OBVIOUS
    <2>1. commands' = [commands EXCEPT !.reinits = @ + 1]
      BY Zenon DEF ReinitTrigger
    <2>2. commands'.reinits = commands.reinits + 1
      BY <1>1, <2>1
    <2> QED BY <1>1, <2>2
  <1>3. \/ commands' = commands
        \/ \E n : commands' = [commands EXCEPT !.set_sizes = n]
        \/ \E n : commands' = [commands EXCEPT !.clears = n]
        \/ \E n : commands' = [commands EXCEPT !.uid_clears = n]
    <2>1. CASE ClearStep
      BY <2>1, Zenon DEF ClearStep, ClearSpliceChunk, ClearOpenChunk, ClearEntry, ClearEraseChunk,
                         ClearSwap
    <2>2. ASSUME NEW w, Log(w) \/ TakeSequence(w) PROVE commands' = commands
      BY <2>2, Zenon DEF Log, TakeSequence
    <2>3. ASSUME NEW i, ClearAll(i)
          PROVE  \E n : commands' = [commands EXCEPT !.clears = n]
      BY <2>3, Zenon DEF ClearAll
    <2>4. ASSUME NEW i, NEW size, SetSize(i, size)
          PROVE  \E n : commands' = [commands EXCEPT !.set_sizes = n]
      BY <2>4, Zenon DEF SetSize
    <2>5. ASSUME NEW i, NEW uid, UidClear(i, uid)
          PROVE  \E n : commands' = [commands EXCEPT !.uid_clears = n]
      BY <2>5, Zenon DEF UidClear
    <2> QED BY <1>2, <2>1, <2>2, <2>3, <2>4, <2>5 DEF BufferNext
  <1>4. commands.reinits = 0
    BY <1>1, <1>3
  <1> QED BY <1>2, <1>4

\* Until init is told to reinitialize logd, every client is in turn.
InTurnInv ==
    /\ NumbersInTurn
    /\ commands.reinits = 0 => \A r \in Readers : IsInTurn(r, thread[r], delivered[r], late[r])

LEMMA NextInTurn ==
    ASSUME OneWriter, NoDeadlines, CompleteInv, LogdInv, InTurnInv, [Next]_vars, [LogsInOrder]_vars
    PROVE  InTurnInv'
  <1>1. Parts /\ ChunkInv /\ StatesHaveThreads /\ SortedInv /\ StartFollows /\ NumbersInTurn
    BY PartsOfIInv DEF CompleteInv, BufferInv, LogdInv, InTurnInv
  <1>2. NumbersInTurn'
    BY NextNumbersInTurn DEF CompleteInv, InTurnInv
  <1>3. ASSUME commands'.reinits = 0, NEW r \in Readers, UNCHANGED vars,
               NEW t, t = thread[r], NEW d, d = delivered[r], NEW l, l = late[r]
        PROVE  IsInTurn(r, t, d, l)'
    <2>1. BufferRests /\ KeepsStates(r) /\ commands' = commands
      BY <1>3 DEF vars, BufferRests, LogsRest, Clearing, AreAlike, IsAlike, HoldsTheSame, KeepsStates
    <2>2. IsInTurn(r, t, d, l)
      BY <1>3, <2>1 DEF InTurnInv
    <2> QED BY <1>1, <1>3, <2>1, <2>2, StillInTurn
  <1>4. ASSUME commands'.reinits = 0, NEW r \in Readers,
               BufferNext, LogsInOrder, delivered' = delivered,
               NEW u, u = thread'[r], NEW c, c = delivered'[r], NEW m, m = late'[r]
        PROVE  IsInTurn(r, u, c, m)'
    <2>1. commands.reinits = 0 /\ ~ReinitTrigger
      BY <1>1, <1>4, ReinitsAreCounted
    <2>2. BufferEffect
      BY <1>1, <1>4, BufferNextEffect
    <2>3. PICK t, l : t = thread[r] /\ l = late[r]
      OBVIOUS
    <2>4. c = delivered[r]
      BY <1>4
    <2>5. IsInTurn(r, t, c, l)
      BY <2>1, <2>3, <2>4 DEF InTurnInv
    <2> QED BY <1>1, <1>4, <2>1, <2>2, <2>3, <2>4, <2>5, BufferNextInTurn
  <1>5. ASSUME commands'.reinits = 0, NEW r \in Readers, NEW q \in Readers, StepOf(q),
               NEW u, u = thread'[r], NEW c, c = delivered'[r], NEW m, m = late'[r]
        PROVE  IsInTurn(r, u, c, m)'
    <2>1. BufferRests /\ commands' = commands /\ late' = late
      BY <1>1, <1>5, StepRests DEF BufferRests
    <2>2. PICK t, d : t = thread[r] /\ d = delivered[r]
      OBVIOUS
    <2>3. m = late[r]
      BY <1>5, <2>1
    <2>4. IsInTurn(r, t, d, m) /\ IsServed(r, t, d, m)
      BY <1>5, <2>1, <2>2, <2>3 DEF InTurnInv, CompleteInv, ServedInv
    <2>5. CASE q = r
      BY <1>1, <1>5, <2>2, <2>3, <2>4, <2>5, StepInTurn
    <2>6. CASE q # r
      <3>1. KeepsStates(r) /\ u = t /\ c = d
        BY <1>1, <1>5, <2>2, <2>6, OthersKeepOurs
      <3>2. IsInTurn(r, t, d, m)'
        BY <1>1, <2>1, <2>2, <2>4, <3>1, StillInTurn
      <3> QED BY <3>1, <3>2
    <2> QED BY <2>5, <2>6
  <1>6. ASSUME commands'.reinits = 0, NEW r \in Readers,
               NEW u, u = thread'[r], NEW c, c = delivered'[r], NEW m, m = late'[r]
        PROVE  IsInTurn(r, u, c, m)'
    <2>1. CASE UNCHANGED vars
      <3>1. u = thread[r] /\ c = delivered[r] /\ m = late[r]
        BY <1>6, <2>1 DEF vars
      <3> QED BY <1>3, <1>6, <2>1, <3>1
    <2>2. CASE BufferNext /\ LogsInOrder /\ delivered' = delivered
      BY <1>4, <1>6, <2>2
    <2>3. ASSUME NEW q \in Readers, StepOf(q) PROVE IsInTurn(r, u, c, m)'
      BY <1>5, <1>6, <2>3
    <2> QED BY <2>1, <2>2, <2>3 DEF Next, StepOf
  <1> QED BY <1>2, <1>6 DEF InTurnInv

LEMMA InitInTurn == Init => InTurnInv
  <1> SUFFICES ASSUME Init PROVE InTurnInv
    OBVIOUS
  <1>1. /\ logd_lock = {} /\ DOMAIN pending = {} /\ DOMAIN state = {}
        /\ \A i \in LogIds : logs[i] = << >>
    BY DEF Init, BufferInit
  <1>2. \A i \in LogIds : ChunksOf(i) = {}
    BY <1>1 DEF ChunksOf, Elements, Clearing
  <1>3. NumbersInTurn
    BY <1>1, <1>2 DEF NumbersInTurn, IsHeld
  <1>4. ASSUME NEW r \in Readers, NEW t, t = thread[r], NEW d, d = delivered[r],
               NEW l, l = late[r]
        PROVE  IsInTurn(r, t, d, l)
    <2>1. t = NewThread(NoRequest, "idle") /\ d = << >> /\ l = {}
      BY <1>4 DEF Init, BufferInit
    <2>2. t.pc = "idle" /\ ~t.deadline
      BY <2>1 DEF NewThread, NoRequest
    <2> QED BY <1>1, <2>1, <2>2 DEF IsInTurn, IsUntimed, StartInTurn, LateInTurn, SentInTurn
  <1> QED BY <1>3, <1>4 DEF InTurnInv

LEMMA InTurnHasNoGap ==
    ASSUME InTurnInv, commands.reinits = 0
    PROVE  NoGap
  <1> SUFFICES ASSUME NEW r \in Readers, NEW i \in thread[r].log_mask, NEW entry \in EntriesOf(i),
                      delivered[r] # << >>, Wants(r, entry), delivered[r][1] < entry.sequence,
                      entry.sequence < delivered[r][Len(delivered[r])]
               PROVE  entry.sequence \in Received(r)
    BY DEF NoGap
  <1>1. PICK t, d : t = thread[r] /\ d = delivered[r]
    OBVIOUS
  <1>2. SentInTurn(t, d)
    BY <1>1 DEF InTurnInv, IsInTurn
  <1>3. IsHeld(i, entry) /\ IsWanted(t.request, entry)
    BY <1>1, EntriesAreHeld DEF Wants, IsWanted
  <1> QED BY <1>1, <1>2, <1>3 DEF SentInTurn, LastOf, Received

(***************************************************************************)
(* With one thread that logs, and until logd is reinitialized, what a      *)
(* client is sent has no gap: every entry between the first and the last   *)
(* number it was sent that it asked for and the buffer still holds was     *)
(* sent to it.  A thread goes to wait() with set_start(start + 1), when    *)
(* it has read all there is; without a deadline only NotifyNewLog() wakes  *)
(* it, and by then the only writer has logged the entry that had the next  *)
(* number. Init(), on a reinit, wakes every thread, and Prune() and        *)
(* UidClear() wake those with a deadline: such a thread moves its start    *)
(* on once more, past a number that was handed out and not logged yet.     *)
(***************************************************************************)
THEOREM OneWriterLeavesNoGap ==
    ASSUME OneWriter, NoDeadlines
    PROVE  Spec => [](commands.reinits = 0 => NoGap)
  <1>1. Init => InTurnInv /\ CompleteInv
    BY InitInTurn, InitComplete
  <1>2. /\ InTurnInv /\ CompleteInv /\ LogdInv /\ [Next]_vars /\ [LogsInOrder]_vars
        => InTurnInv' /\ CompleteInv'
    BY NextInTurn, NextComplete
  <1>3. InTurnInv => (commands.reinits = 0 => NoGap)
    BY InTurnHasNoGap
  <1>4. Spec => [][LogsInOrder]_vars
    BY OneWriterLogsInOrder
  <1> QED BY <1>1, <1>2, <1>3, <1>4, LogdInvariant, PTL DEF Spec

=============================================================================
