--------------------------- MODULE LogdOrderProofs ---------------------------
(***************************************************************************)
(* What a client of logd receives: no more than the tail it asked for; the  *)
(* sequence numbers never go back, and no entry comes twice in a row while  *)
(* no log of a uid is cleared. The start of a FlushToState gives the        *)
(* second, the positions the third. Then the order of the entries in a log: *)
(* it is that of their numbers where every log has a writer of its own, and *)
(* then the search for a start is exact.                                    *)
(***************************************************************************)
EXTENDS LogdChunkProofs

-----------------------------------------------------------------------------
(***************************************************************************)
(* Who changes a thread                                                     *)
(***************************************************************************)

\* Waking a thread changes its pc and nothing else.
LEMMA TriggerReaderFields ==
    ASSUME NEW t \in Thread
    PROVE  \E pc : /\ TriggerReader(t) = [t EXCEPT !.pc = pc]
                   /\ \/ pc = t.pc
                      \/ t.pc = "wait" /\ pc = "woken"
                      \/ t.pc = "wait_until" /\ pc = "notified"
  <1> DEFINE pc == CASE t.pc = "wait" -> "woken"
                     [] t.pc = "wait_until" -> "notified"
                     [] OTHER -> t.pc
  <1>1. TriggerReader(t) = [t EXCEPT !.pc = pc]
    BY DEF TriggerReader
  <1>2. \/ pc = t.pc
        \/ t.pc = "wait" /\ pc = "woken"
        \/ t.pc = "wait_until" /\ pc = "notified"
    OBVIOUS
  <1> HIDE DEF pc
  <1> QED BY <1>1, <1>2

\* Writers and commands only wake threads.
LEMMA BufferNextThreads ==
    ASSUME BufferNext, Parts
    PROVE  \A r \in Readers : thread'[r] = thread[r] \/ thread'[r] = TriggerReader(thread[r])
  <1>1. ASSUME NEW R, thread' = TriggerReaders(thread, R)
        PROVE  \A r \in Readers : thread'[r] = thread[r] \/ thread'[r] = TriggerReader(thread[r])
    BY <1>1 DEF TriggerReaders
  <1>2. ASSUME NEW w, TakeSequence(w) PROVE thread' = thread
    BY <1>2 DEF TakeSequence
  <1>3. ASSUME NEW w, Log(w) PROVE \E R : thread' = TriggerReaders(thread, R)
    BY <1>3, Zenon DEF Log
  <1>4. ASSUME NEW i, ClearAll(i) PROVE \E R : thread' = TriggerReaders(thread, R)
    BY <1>4, Zenon DEF ClearAll
  <1>5. ASSUME NEW i, NEW size, SetSize(i, size)
        PROVE  \E R : thread' = TriggerReaders(thread, R)
    BY <1>5, Zenon DEF SetSize
  <1>6. ASSUME NEW i, NEW uid, UidClear(i, uid) PROVE \E R : thread' = TriggerReaders(thread, R)
    BY <1>6, Zenon DEF UidClear
  <1>7. ASSUME ReinitTrigger PROVE \E R : thread' = TriggerReaders(thread, R)
    BY <1>7, Zenon DEF ReinitTrigger
  <1>8. ASSUME ClearStep PROVE thread' = thread
    BY <1>8 DEF ClearStep, ClearSpliceChunk, ClearOpenChunk, ClearEntry, ClearEraseChunk, ClearSwap
  <1>9. thread' = thread \/ \E R : thread' = TriggerReaders(thread, R)
    BY <1>2, <1>3, <1>4, <1>5, <1>6, <1>7, <1>8 DEF BufferNext
  <1> QED BY <1>1, <1>9

\* A step of one reader, or of the listener for it
StepOf(r) ==
    \/ OnDataAvailable(r) \/ FindReturns(r) \/ CreateThread(r) \/ DoSocketDelete(r)
    \/ ReaderStep(r) \/ DeadlinePasses(r)

\* The thread of r becomes t, and its client has been sent d.
Becomes(r, t, d) ==
    thread' = [thread EXCEPT ![r] = t] /\ delivered' = [delivered EXCEPT ![r] = d]

\* A step of r concerns no other thread.
LEMMA BecomesOnly ==
    ASSUME Parts, NEW r \in Readers, NEW t, NEW d, Becomes(r, t, d)
    PROVE  /\ thread'[r] = t /\ delivered'[r] = d
           /\ \A q \in Readers \ {r} : thread'[q] = thread[q] /\ delivered'[q] = delivered[q]
  BY DEF Parts, ThreadsOK, HistoryOK, Becomes

\* What FlushTo() does with the next entry: u is what the filter made of the thread.
FlushesEntry(r, i, entry, result, u) ==
    LET s == Current(r)
    IN  /\ i \in UnreadLogs(state[s])
        /\ entry = EntryAt(state[s].log_positions[i], chunk)
        /\ entry \in Entry
        /\ result = Outcome(thread[r], state[s].start, entry).result
        /\ u = Outcome(thread[r], state[s].start, entry).thread
        /\ IsNextUnreadLog(state[s], i, chunk)
        /\ state' = [state EXCEPT ![s] = SetStart(PopNextUnreadLog(@, i), entry)]
        /\ \/ result = "kSkip" /\ Becomes(r, [u EXCEPT !.log_id = 0], delivered[r])
           \/ result = "kStop" /\ Becomes(r, [u EXCEPT !.pc = "stop"], delivered[r])
           \/ /\ result = "kWrite"
              /\ Becomes(r, [u EXCEPT !.pc = "write", !.out = entry.sequence], delivered[r])

\* FlushToEntry(), taken apart.
LEMMA FlushToEntryCases ==
    ASSUME Parts, NEW r \in Readers, FlushToEntry(r)
    PROVE  \E i, entry, result, u : FlushesEntry(r, i, entry, result, u)
  <1> DEFINE s == Current(r)
  <1>1. PICK i \in UnreadLogs(state[s]) :
            LET entry   == EntryAt(state[s].log_positions[i], chunk)
                outcome == Outcome(thread[r], state[s].start, entry)
            IN  /\ IsNextUnreadLog(state[s], i, chunk)
                /\ state' = [state EXCEPT ![s] = SetStart(PopNextUnreadLog(@, i), entry)]
                /\ \/ /\ outcome.result = "kSkip"
                      /\ thread' = [thread EXCEPT ![r] = [outcome.thread EXCEPT !.log_id = 0]]
                   \/ /\ outcome.result = "kStop"
                      /\ thread' = [thread EXCEPT ![r] = [outcome.thread EXCEPT !.pc = "stop"]]
                   \/ /\ outcome.result = "kWrite"
                      /\ thread' = [thread EXCEPT ![r] =
                            [outcome.thread EXCEPT !.pc = "write", !.out = entry.sequence]]
    BY Zenon DEF FlushToEntry
  <1> DEFINE entry == EntryAt(state[s].log_positions[i], chunk)
             outcome == Outcome(thread[r], state[s].start, entry)
  <1>2. thread[r].pc = "flush" /\ delivered' = delivered
    BY DEF FlushToEntry, Flushing
  <1>3. entry \in Entry
    BY <1>2, UnreadEntry
  <1>4. delivered' = [delivered EXCEPT ![r] = delivered[r]]
    BY <1>2 DEF Parts, HistoryOK
  <1>5. FlushesEntry(r, i, entry, outcome.result, outcome.thread)
    BY <1>1, <1>3, <1>4, Zenon DEF FlushesEntry, Becomes
  <1> QED BY <1>5

-----------------------------------------------------------------------------
(***************************************************************************)
(* The tail                                                                 *)
(***************************************************************************)

\* What u keeps of t when a step neither counts nor changes the request
SameCounts(u, t) ==
    /\ u.non_block = t.non_block /\ u.request = t.request
    /\ u.tail = t.tail /\ u.index = t.index /\ u.count = t.count

\* A step that neither counts nor sends.
LEMMA CountedStill ==
    ASSUME NEW t \in Thread, NEW u \in Thread, NEW n \in Nat, NEW m \in Nat, IsCounted(t, n),
           SameCounts(u, t),
           m = n \/ ~IsBeforeSecondPass(u), Sent(u, m) <= Sent(t, n),
           IsUncreated(u) => IsUncreated(t),
           u.non_block => u.pc \notin {"wait", "woken"},
           u.non_block /\ IsBeforeSecondPass(u) => IsBeforeSecondPass(t)
    PROVE  IsCounted(u, m)
  <1>1. /\ t.index \in Nat /\ t.count \in Nat /\ t.tail \in Nat
        /\ Sent(u, m) \in Nat /\ Sent(t, n) \in Nat
    BY DEF Thread, Sent
  <1>2. IsUncreated(u) => IsBeforeSecondPass(u)
    BY DEF IsBeforeSecondPass
  <1> QED BY <1>1, <1>2 DEF IsCounted, SameCounts

\* What the first pass and the search find does not count for the second pass.
LEMMA OtherPassesCounted ==
    ASSUME NEW t \in Thread, NEW entry \in Entry, NEW n \in Nat, IsCounted(t, n),
           t.pc = "flush", t.pass # "second", NEW start
    PROVE  LET o == Outcome(t, start, entry)
           IN  /\ o.thread \in Thread /\ o.thread.pc = "flush" /\ o.thread.pass = t.pass
               /\ o.result # "kWrite" /\ IsCounted(o.thread, n)
  <1> DEFINE o == Outcome(t, start, entry)
             u == [t EXCEPT !.count = t.count + 1]
             v == [t EXCEPT !.sequence = entry.sequence, !.start_time_set = TRUE]
             w == [t EXCEPT !.sequence = t.last, !.start_time_set = TRUE]
             x == [t EXCEPT !.last = entry.sequence]
  <1>1. o.thread \in Thread /\ o.thread.pc = "flush" /\ o.thread.pass = t.pass /\ o.result # "kWrite"
    BY OutcomeType DEF FilterOK
  <1>2. t.pass \in {"find", "first"}
    BY DEF Thread
  <1>3. o.thread \in {t, u, v, w, x}
    <2>1. \/ o = Filtered(t, "kSkip")
          \/ o = FilterFirstPass(t, entry)
          \/ o = LogFindStart(t, entry)
      BY <1>2 DEF Outcome, Filter
    <2>2. FilterFirstPass(t, entry) \in {Filtered(u, "kSkip"), Filtered(t, "kSkip")}
      BY Zenon DEF FilterFirstPass
    <2>3. LogFindStart(t, entry) \in {Filtered(t, "kSkip"), Filtered(v, "kStop"),
                                      Filtered(w, "kStop"), Filtered(x, "kSkip")}
      BY Zenon DEF LogFindStart
    <2> HIDE DEF o, u, v, w, x
    <2> QED BY <2>1, <2>2, <2>3, FilteredType
  <1>4. entry.sequence \in Nat
    BY DEF Entry
  <1>5. IsCounted(u, n)
    <2>1. /\ u.pc = t.pc /\ u.pass = t.pass /\ u.non_block = t.non_block /\ u.tail = t.tail
          /\ u.request = t.request /\ u.index = t.index /\ u.count = t.count + 1
      BY DEF Thread
    <2>2. t.index \in Nat /\ t.count \in Nat /\ t.tail \in Nat
      BY DEF Thread
    <2>3. IsBeforeSecondPass(t)
      BY <1>2 DEF IsBeforeSecondPass, IsUncreated
    <2> HIDE DEF u
    <2> QED BY <2>1, <2>2, <2>3 DEF IsCounted, IsBeforeSecondPass, IsUncreated, Sent
  <1> DEFINE Same(y) ==
               /\ y.pc = t.pc /\ y.pass = t.pass /\ y.non_block = t.non_block
               /\ y.tail = t.tail /\ y.request = t.request /\ y.index = t.index
               /\ y.count = t.count
  <1>6. Same(v) /\ Same(w) /\ Same(x)
    BY DEF Thread
  <1> HIDE DEF v, w, x, u, o
  <1>7. ASSUME NEW y, Same(y) PROVE IsCounted(y, n)
    BY <1>7 DEF IsCounted, IsBeforeSecondPass, IsUncreated, Sent
  <1>8. IsCounted(o.thread, n)
    BY <1>3, <1>5, <1>6, <1>7
  <1> QED BY <1>1, <1>8 DEF o

\* The second pass sends an entry only when the last tail of them have come.
LEMMA SecondPassCounted ==
    ASSUME NEW t \in Thread, NEW entry \in Entry, NEW n \in Nat, IsCounted(t, n),
           t.pc = "flush", t.pass = "second", NEW start
    PROVE  LET o == Outcome(t, start, entry)
           IN  /\ o.thread \in Thread /\ o.thread.pc = "flush" /\ o.thread.pass = "second"
               /\ IsCounted(o.thread, n)
               /\ o.result = "kWrite" => IsCounted([o.thread EXCEPT !.pc = "write",
                                                                   !.out = entry.sequence], n)
  <1> DEFINE o == Outcome(t, start, entry)
             index == t.index + 1
             u == [t EXCEPT !.index = index]
             tail == IF t.non_block THEN t.tail ELSE 0
             v == [t EXCEPT !.index = index, !.tail = tail]
             Writing(y) == [y EXCEPT !.pc = "write", !.out = entry.sequence]
  <1>1. o.thread \in Thread /\ o.thread.pc = "flush" /\ o.thread.pass = "second"
    BY OutcomeType DEF FilterOK
  <1>2. \/ o \in {Filtered(t, "kSkip"), Filtered(t, "kStop")}
        \/ o = Filtered(t, "kWrite") /\ t.tail = 0
        \/ /\ ~(t.non_block /\ t.tail # 0 /\ t.index >= t.count)
           /\ \/ o = Filtered(u, "kSkip") /\ t.count > t.tail /\ index <= t.count - t.tail
              \/ o = Filtered(v, "kWrite") /\ ~(t.count > t.tail /\ index <= t.count - t.tail)
    BY Zenon DEF Outcome, Filter, FilterSecondPass
  <1>3. /\ t.index \in Nat /\ t.count \in Nat /\ t.tail \in Nat /\ t.non_block \in BOOLEAN
        /\ t.request.non_block = t.non_block /\ index \in Nat /\ tail \in Nat
        /\ entry.sequence \in Nat
    BY DEF Thread, IsCounted, Entry
  <1> HIDE DEF index, tail
  <1>4. /\ u.pc = t.pc /\ u.pass = t.pass /\ u.non_block = t.non_block /\ u.tail = t.tail
        /\ u.request = t.request /\ u.index = index /\ u.count = t.count /\ u \in Thread
    BY <1>3 DEF Thread
  <1>5. /\ v.pc = t.pc /\ v.pass = t.pass /\ v.non_block = t.non_block /\ v.tail = tail
        /\ v.request = t.request /\ v.index = index /\ v.count = t.count /\ v \in Thread
    BY <1>3 DEF Thread
  <1>6. \A y \in Thread :
          /\ Writing(y).pc = "write" /\ Writing(y).pass = y.pass
          /\ Writing(y).non_block = y.non_block /\ Writing(y).tail = y.tail
          /\ Writing(y).request = y.request /\ Writing(y).index = y.index
          /\ Writing(y).count = y.count
    BY DEF Thread
  <1> HIDE DEF Writing, u, v, o
  <1>7. /\ IsCounted(t, n)
        /\ t.tail = 0 => IsCounted(Writing(t), n)
    BY <1>3, <1>6 DEF IsCounted, IsUncreated, IsBeforeSecondPass
  <1>8. ASSUME ~(t.non_block /\ t.tail # 0 /\ t.index >= t.count),
               t.count > t.tail, index <= t.count - t.tail
        PROVE  IsCounted(u, n)
    BY <1>3, <1>4, <1>8 DEF IsCounted, IsUncreated, IsBeforeSecondPass, Sent, index
  <1>9. ASSUME ~(t.non_block /\ t.tail # 0 /\ t.index >= t.count),
               ~(t.count > t.tail /\ index <= t.count - t.tail)
        PROVE  IsCounted(v, n) /\ IsCounted(Writing(v), n)
    <2>1. /\ ~IsUncreated(Writing(v)) /\ ~IsUncreated(v)
          /\ ~IsBeforeSecondPass(Writing(v)) /\ ~IsBeforeSecondPass(v)
          /\ Sent(Writing(v), n) = n + 1 /\ Sent(v, n) = n /\ Sent(t, n) = n
      BY <1>5, <1>6 DEF IsUncreated, IsBeforeSecondPass, Sent
    <2>2. CASE ~t.non_block
      BY <1>3, <1>5, <1>6, <2>1, <2>2 DEF IsCounted
    <2>3. CASE t.non_block
      <3>1. tail = t.tail
        BY <2>3 DEF tail
      <3>2. /\ t.tail = t.request.tail
            /\ t.tail # 0 => /\ n <= t.index
                             /\ t.count > t.tail => n = 0 \/ n <= t.index - (t.count - t.tail)
        BY <2>1, <2>3 DEF IsCounted
      <3>3. t.tail # 0 => /\ index <= t.count /\ n + 1 <= index /\ n <= index
                          /\ t.count > t.tail => /\ n + 1 <= index - (t.count - t.tail)
                                                 /\ n <= index - (t.count - t.tail)
        BY <1>3, <1>9, <2>3, <3>2 DEF index
      <3>4. IsCounted(v, n)
        BY <1>3, <1>5, <2>1, <3>1, <3>2, <3>3 DEF IsCounted
      <3>5. IsCounted(Writing(v), n)
        BY <1>3, <1>5, <1>6, <2>1, <3>1, <3>2, <3>3 DEF IsCounted
      <3> QED BY <3>4, <3>5
    <2> QED BY <1>3, <2>2, <2>3
  <1>10. /\ IsCounted(o.thread, n)
         /\ o.result = "kWrite" => IsCounted(Writing(o.thread), n)
    BY <1>2, <1>7, <1>8, <1>9, FilteredType
  <1> QED BY <1>1, <1>10 DEF o, Writing

\* A woken thread has counted what it had counted.
LEMMA TriggerReaderCounted ==
    ASSUME NEW t \in Thread, NEW n \in Nat, IsCounted(t, n)
    PROVE  IsCounted(TriggerReader(t), n)
  <1>1. PICK pc : /\ TriggerReader(t) = [t EXCEPT !.pc = pc]
                  /\ \/ pc = t.pc
                     \/ t.pc = "wait" /\ pc = "woken"
                     \/ t.pc = "wait_until" /\ pc = "notified"
    BY TriggerReaderFields
  <1> DEFINE u == [t EXCEPT !.pc = pc]
  <1>2. /\ u \in Thread /\ u.pc = pc /\ u.pass = t.pass
        /\ u.non_block = t.non_block /\ u.request = t.request /\ u.tail = t.tail
        /\ u.index = t.index /\ u.count = t.count
    BY <1>1 DEF Thread
  <1> HIDE DEF u
  <1>3. IsCounted(u, n)
    BY <1>1, <1>2 DEF IsCounted, IsUncreated, IsBeforeSecondPass, Sent
  <1> QED BY <1>1, <1>3 DEF u

\* EnterFlushTo() and LeaveLoop() of a thread that has sent nothing or may send more.
LEMMA LoopCounted ==
    ASSUME NEW t \in Thread, NEW n \in Nat, IsCounted(t, n),
           t.non_block => IsBeforeSecondPass(t), ~IsUncreated(t), t.pc # "write"
    PROVE  /\ IsCounted(BeginFlush(t, "first"), n) /\ IsCounted(BeginFlush(t, "second"), n)
           /\ IsCounted([t EXCEPT !.pc = "exit"], n)
           /\ IsCounted([t EXCEPT !.pc = "wait_until"], n)
  <1>1. ASSUME NEW u \in Thread, SameCounts(u, t),
               u.pc \in {"flush", "exit", "wait_until"},
               u.pc = "flush" => u.pass # "find"
        PROVE  IsCounted(u, n)
    BY <1>1, CountedStill DEF IsUncreated, IsBeforeSecondPass, Sent, SameCounts
  <1>2. ASSUME NEW pass \in {"first", "second"}
        PROVE  /\ BeginFlush(t, pass) \in Thread /\ SameCounts(BeginFlush(t, pass), t)
               /\ BeginFlush(t, pass).pc = "flush" /\ BeginFlush(t, pass).pass = pass
    <2>1. SameCounts(BeginFlush(t, pass), t)
      BY DEF BeginFlush, Thread, SameCounts
    <2> QED BY <2>1, BeginFlushType
  <1>3. [t EXCEPT !.pc = "exit"] \in Thread /\ [t EXCEPT !.pc = "wait_until"] \in Thread
    BY DEF Thread
  <1>4. IsCounted(BeginFlush(t, "first"), n)
    BY <1>1, <1>2
  <1>5. IsCounted(BeginFlush(t, "second"), n)
    BY <1>1, <1>2
  <1>6. IsCounted([t EXCEPT !.pc = "exit"], n)
    BY <1>1, <1>3 DEF Thread, SameCounts
  <1>7. IsCounted([t EXCEPT !.pc = "wait_until"], n)
    BY <1>1, <1>3 DEF Thread, SameCounts
  <1> QED BY <1>4, <1>5, <1>6, <1>7

\* Every step of a reader and of the listener
LEMMA StepKeepsTails ==
    ASSUME Parts, TailsAreCounted, NEW r \in Readers, StepOf(r)
    PROVE  TailsAreCounted'
  <1> DEFINE t == thread[r]
             d == delivered[r]
             n == Len(d)
  <1>1. ASSUME NEW u, NEW e, Becomes(r, u, e), IsCounted(u, Len(e))
        PROVE  TailsAreCounted'
    BY <1>1, BecomesOnly DEF TailsAreCounted
  <1>2. /\ t \in Thread /\ d \in Seq(Nat) /\ n \in Nat /\ IsCounted(t, n)
    BY LenProperties DEF Parts, ThreadsOK, HistoryOK, TailsAreCounted
  <1>3. delivered' = delivered => delivered' = [delivered EXCEPT ![r] = d]
    BY DEF Parts, HistoryOK
  <1>4. ASSUME NEW u, thread' = [thread EXCEPT ![r] = u], delivered' = delivered, IsCounted(u, n)
        PROVE  TailsAreCounted'
    BY <1>1, <1>3, <1>4 DEF Becomes
  <1> HIDE DEF n
  <1>5. ASSUME NEW u \in Thread, NEW m \in Nat, m = n \/ ~IsBeforeSecondPass(u),
               Sent(u, m) <= Sent(t, n),
               SameCounts(u, t),
               IsUncreated(u) => IsUncreated(t),
               u.non_block => u.pc \notin {"wait", "woken"},
               u.non_block /\ IsBeforeSecondPass(u) => IsBeforeSecondPass(t)
        PROVE  IsCounted(u, m)
    BY <1>2, <1>5, CountedStill
  <1>6. CASE OnDataAvailable(r)
    <2>1. PICK q \in Requests, pc \in {"found", "flush"} :
            thread' = [thread EXCEPT ![r] = NewThread(q, pc)]
      BY <1>6 DEF OnDataAvailable
    <2>2. n = 0
      BY <1>2, <1>6 DEF OnDataAvailable, IsCounted, IsUncreated
    <2>3. /\ NewThread(q, pc).pc = pc /\ NewThread(q, pc).pass = "find"
          /\ NewThread(q, pc).non_block = q.non_block /\ NewThread(q, pc).request = q
          /\ NewThread(q, pc).tail = q.tail /\ NewThread(q, pc).index = 0
          /\ NewThread(q, pc).count = 0 /\ q.tail \in Nat
      BY RequestAssumption DEF NewThread
    <2>4. IsCounted(NewThread(q, pc), n)
      BY <2>2, <2>3 DEF IsCounted, Sent
    <2> QED BY <1>4, <1>6, <2>1, <2>4 DEF OnDataAvailable
  <1>7. CASE FindReturns(r)
    <2> DEFINE u1 == [t EXCEPT !.pc = "found"]
               u2 == [t EXCEPT !.pc = "gone"]
               u3 == [t EXCEPT !.pc = "found", !.sequence = sequence]
    <2>1. t.pc = "stop" /\ t.pass = "find" /\ sequence \in Nat
      BY <1>7 DEF FindReturns, Parts, WritersOK
    <2>2. u1 \in Thread /\ SameCounts(u1, t) /\ u1.pc = "found"
      BY <1>2 DEF Thread, SameCounts
    <2>3. u2 \in Thread /\ SameCounts(u2, t) /\ u2.pc = "gone"
      BY <1>2 DEF Thread, SameCounts
    <2>4. u3 \in Thread /\ SameCounts(u3, t) /\ u3.pc = "found"
      BY <1>2, <2>1 DEF Thread, SameCounts
    <2>5. \E u \in {u1, u2, u3} : thread' = [thread EXCEPT ![r] = u]
      BY <1>7 DEF FindReturns
    <2> HIDE DEF u1, u2, u3
    <2>6. \A u \in {u1, u2, u3} : IsCounted(u, n)
      BY <1>2, <1>5, <2>1, <2>2, <2>3, <2>4 DEF IsUncreated, IsBeforeSecondPass, Sent
    <2> QED BY <1>4, <1>7, <2>5, <2>6 DEF FindReturns
  <1>8. CASE CreateThread(r)
    <2> DEFINE u == [t EXCEPT !.pc = "start", !.pass = "second", !.last = 1,
                              !.start_time_set = FALSE]
    <2>1. t.pc = "found"
      BY <1>8 DEF CreateThread
    <2>2. u \in Thread /\ SameCounts(u, t) /\ u.pc = "start"
      BY <1>2 DEF Thread, SameCounts
    <2>3. thread' = [thread EXCEPT ![r] = u]
      BY <1>8 DEF CreateThread
    <2> HIDE DEF u
    <2>4. IsCounted(u, n)
      BY <1>2, <1>5, <2>1, <2>2 DEF IsUncreated, IsBeforeSecondPass, Sent
    <2> QED BY <1>4, <1>8, <2>3, <2>4 DEF CreateThread
  <1>9. CASE DoSocketDelete(r)
    <2> DEFINE u == [t EXCEPT !.release = TRUE]
    <2>1. u \in Thread /\ SameCounts(u, t) /\ u.pc = t.pc /\ u.pass = t.pass
      BY <1>2 DEF Thread, SameCounts
    <2>2. thread' = [thread EXCEPT ![r] = TriggerReader(u)]
      BY <1>9 DEF DoSocketDelete, Release
    <2> HIDE DEF u
    <2>3. IsCounted(u, n)
      BY <1>2, <2>1 DEF IsUncreated, IsBeforeSecondPass, Sent, IsCounted, SameCounts
    <2>4. IsCounted(TriggerReader(u), n)
      BY <1>2, <2>1, <2>3, TriggerReaderCounted
    <2> QED BY <1>4, <1>9, <2>2, <2>4 DEF DoSocketDelete
  <1>10. ASSUME NEW u \in Thread, IsCounted(u, n), EnterFlushTo(r, u) \/ LeaveLoop(r, u),
                u.non_block => IsBeforeSecondPass(u), ~IsUncreated(u), u.pc # "write",
                delivered' = delivered
         PROVE  TailsAreCounted'
    <2>1. \/ thread' = [thread EXCEPT ![r] = BeginFlush(u, "first")]
          \/ thread' = [thread EXCEPT ![r] = BeginFlush(u, "second")]
          \/ thread' = [thread EXCEPT ![r] = [u EXCEPT !.pc = "exit"]]
      BY <1>10 DEF EnterFlushTo, LeaveLoop
    <2> QED BY <1>2, <1>4, <1>10, <2>1, LoopCounted
  <1>11. CASE LoopTop(r)
    <2>1. /\ t.pc \in {"start", "woken"} /\ delivered' = delivered
          /\ \/ LeaveLoop(r, t) \/ EnterFlushTo(r, t)
             \/ thread' = [thread EXCEPT ![r] = [t EXCEPT !.pc = "wait_until"]]
      BY <1>11 DEF LoopTop
    <2>2. (t.non_block => IsBeforeSecondPass(t)) /\ ~IsUncreated(t) /\ t.pc # "write"
      BY <1>2, <2>1 DEF IsCounted, IsBeforeSecondPass, IsUncreated
    <2> QED BY <1>2, <1>4, <1>10, <2>1, <2>2, LoopCounted
  <1>12. CASE AfterWaitUntil(r)
    <2> DEFINE u == [t EXCEPT !.deadline = t.deadline /\ t.pc # "timed_out"]
    <2>1. /\ t.pc \in {"notified", "timed_out"} /\ delivered' = delivered
          /\ LeaveLoop(r, u) \/ EnterFlushTo(r, u)
      BY <1>12 DEF AfterWaitUntil
    <2>2. u \in Thread /\ SameCounts(u, t) /\ u.pc = t.pc
      BY <1>2 DEF Thread, SameCounts
    <2> HIDE DEF u
    <2>3. IsCounted(u, n)
      BY <1>2, <1>5, <2>1, <2>2 DEF IsUncreated, IsBeforeSecondPass, Sent
    <2> QED BY <1>10, <2>1, <2>2, <2>3 DEF IsUncreated, IsBeforeSecondPass
  <1>13. CASE CheckForNewLogs(r)
    <2> DEFINE u == [t EXCEPT !.log_id = t.log_id + 1]
    <2>1. thread' = [thread EXCEPT ![r] = u] /\ delivered' = delivered
      BY <1>13 DEF CheckForNewLogs
    <2>2. IsCounted(u, n)
      BY <1>2 DEF Thread, IsCounted, IsUncreated, IsBeforeSecondPass, Sent
    <2> HIDE DEF u
    <2> QED BY <1>4, <2>1, <2>2
  <1>14. CASE FlushToEntry(r)
    <2>1. PICK i, entry, result, u : FlushesEntry(r, i, entry, result, u)
      BY <1>14, FlushToEntryCases
    <2>2. /\ entry \in Entry
          /\ u = Outcome(t, state[Current(r)].start, entry).thread
          /\ result = Outcome(t, state[Current(r)].start, entry).result
      BY <2>1, Zenon DEF FlushesEntry
    <2>3. t.pc = "flush"
      BY <1>14 DEF FlushToEntry, Flushing
    <2>4. /\ u \in Thread /\ u.pc = "flush" /\ u.pass = t.pass /\ IsCounted(u, n)
          /\ result = "kWrite" => IsCounted([u EXCEPT !.pc = "write", !.out = entry.sequence], n)
      <3> DEFINE start == state[Current(r)].start
                 o == Outcome(t, start, entry)
      <3>1. CASE t.pass = "second"
        BY <1>2, <2>2, <2>3, <3>1, SecondPassCounted
      <3>2. CASE t.pass # "second"
        BY <1>2, <2>2, <2>3, <3>2, OtherPassesCounted
      <3> QED BY <3>1, <3>2
    <2>5. IsCounted([u EXCEPT !.log_id = 0], n)
      BY <2>4 DEF Thread, IsCounted, IsUncreated, IsBeforeSecondPass, Sent
    <2>6. IsCounted([u EXCEPT !.pc = "stop"], n)
      BY <2>4 DEF Thread, IsCounted, IsUncreated, IsBeforeSecondPass, Sent
    <2>7. \/ Becomes(r, [u EXCEPT !.log_id = 0], d)
          \/ Becomes(r, [u EXCEPT !.pc = "stop"], d)
          \/ result = "kWrite" /\ Becomes(r, [u EXCEPT !.pc = "write", !.out = entry.sequence], d)
      BY <2>1, Zenon DEF FlushesEntry
    <2> QED BY <1>1, <2>4, <2>5, <2>6, <2>7 DEF n
  <1>15. CASE FlushToNoMore(r)
    <2> DEFINE u == [t EXCEPT !.pc = "stop"]
    <2>1. thread' = [thread EXCEPT ![r] = u] /\ delivered' = delivered /\ t.pc = "flush"
      BY <1>15 DEF FlushToNoMore, Flushing
    <2>2. IsCounted(u, n)
      BY <1>2, <2>1 DEF Thread, IsCounted, IsUncreated, IsBeforeSecondPass, Sent
    <2> HIDE DEF u
    <2> QED BY <1>4, <2>1, <2>2
  <1>16. CASE WriteSucceeds(r)
    <2> DEFINE u == [t EXCEPT !.pc = "flush", !.log_id = 0, !.out = 0]
    <2>1. t.pc = "write" /\ t.pass = "second" /\ t.out \in Nat
      BY <1>2, <1>16, ThreadHas DEF WriteSucceeds, Thread
    <2>2. Becomes(r, u, Append(d, t.out))
      BY <1>16 DEF WriteSucceeds, Becomes
    <2>3. Len(Append(d, t.out)) = n + 1
      BY <1>2, <2>1, AppendProperties DEF n
    <2>4. /\ u.pc = "flush" /\ u.pass = "second" /\ u.non_block = t.non_block
          /\ u.request = t.request /\ u.tail = t.tail /\ u.index = t.index /\ u.count = t.count
      BY <1>2, <2>1 DEF Thread
    <2> HIDE DEF u
    <2>5. IsCounted(u, n + 1)
      BY <1>2, <2>1, <2>4 DEF IsCounted, IsUncreated, IsBeforeSecondPass, Sent
    <2> QED BY <1>1, <2>2, <2>3, <2>5
  <1>17. CASE WriteFails(r)
    <2> DEFINE u == [t EXCEPT !.pc = "exit", !.start_time = EPOCH, !.out = 0]
    <2>1. t.pc = "write" /\ thread' = [thread EXCEPT ![r] = u] /\ delivered' = delivered
      BY <1>17 DEF WriteFails
    <2>2. u \in Thread
      BY <1>2 DEF Thread, EPOCH
    <2>3. u.pc = "exit" /\ SameCounts(u, t)
      BY <1>2, <2>1 DEF Thread, SameCounts
    <2> HIDE DEF u
    <2>4. IsCounted(u, n)
      BY <1>2, <1>5, <2>1, <2>2, <2>3 DEF IsUncreated, IsBeforeSecondPass, Sent
    <2> QED BY <1>4, <2>1, <2>4
  <1>18. CASE FirstPassReturns(r)
    <2>1. /\ t.pc = "stop" /\ t.pass = "first" /\ delivered' = delivered
          /\ thread' = [thread EXCEPT ![r] = BeginFlush(t, "second")]
      BY <1>18 DEF FirstPassReturns
    <2>2. IsCounted(BeginFlush(t, "second"), n)
      BY <1>2, <2>1, LoopCounted DEF IsUncreated, IsBeforeSecondPass
    <2> QED BY <1>4, <2>1, <2>2
  <1>19. CASE SecondPassReturns(r)
    <2> DEFINE Ended(pc) == [t EXCEPT !.pc = pc, !.start_time = EPOCH]
    <2>1. /\ t.pc = "stop" /\ t.pass = "second" /\ delivered' = delivered
          /\ \E pc \in {"exit", "wait_until", "wait"} :
                /\ thread' = [thread EXCEPT ![r] = Ended(pc)]
                /\ pc = "exit" \/ ~t.non_block
      BY <1>19 DEF SecondPassReturns
    <2>2. ASSUME NEW pc \in {"exit", "wait_until", "wait"}, pc = "exit" \/ ~t.non_block
          PROVE  IsCounted(Ended(pc), n)
      <3>1. Ended(pc).pc = pc /\ SameCounts(Ended(pc), t) /\ Ended(pc) \in Thread
        BY <1>2 DEF Thread, EPOCH, SameCounts
      <3> HIDE DEF Ended
      <3>2. Ended(pc).non_block = t.non_block
        BY <3>1 DEF SameCounts
      <3> QED BY <1>2, <1>5, <2>1, <2>2, <3>1, <3>2 DEF IsUncreated, IsBeforeSecondPass, Sent
    <2> HIDE DEF Ended
    <2> QED BY <1>4, <2>1, <2>2
  <1>20. CASE ThreadExits(r)
    <2> DEFINE u == [t EXCEPT !.pc = "gone"]
    <2>1. t.pc = "exit" /\ thread' = [thread EXCEPT ![r] = u] /\ delivered' = delivered
      BY <1>20 DEF ThreadExits
    <2>2. u \in Thread /\ SameCounts(u, t) /\ u.pc = "gone"
      BY <1>2 DEF Thread, SameCounts
    <2> HIDE DEF u
    <2>3. IsCounted(u, n)
      BY <1>2, <1>5, <2>1, <2>2 DEF IsUncreated, IsBeforeSecondPass, Sent
    <2> QED BY <1>4, <2>1, <2>3
  <1>21. CASE DeadlinePasses(r)
    <2> DEFINE u == [t EXCEPT !.pc = "timed_out"]
    <2>1. t.pc = "wait_until" /\ thread' = [thread EXCEPT ![r] = u] /\ delivered' = delivered
      BY <1>21 DEF DeadlinePasses
    <2>2. u \in Thread /\ SameCounts(u, t) /\ u.pc = "timed_out"
      BY <1>2 DEF Thread, SameCounts
    <2> HIDE DEF u
    <2>3. IsCounted(u, n)
      BY <1>2, <1>5, <2>1, <2>2 DEF IsUncreated, IsBeforeSecondPass, Sent
    <2> QED BY <1>4, <2>1, <2>3
  <1> QED BY <1>6, <1>7, <1>8, <1>9, <1>11, <1>12, <1>13, <1>14, <1>15, <1>16, <1>17, <1>18,
             <1>19, <1>20, <1>21 DEF StepOf, ReaderStep

\* Every step of logd keeps the counts.
LEMMA NextTails == Parts /\ TailsAreCounted /\ [Next]_vars => TailsAreCounted'
  <1> SUFFICES ASSUME Parts, TailsAreCounted, [Next]_vars PROVE TailsAreCounted'
    OBVIOUS
  <1>1. CASE BufferNext /\ UNCHANGED delivered
    <2> SUFFICES ASSUME NEW r \in Readers PROVE IsCounted(thread'[r], Len(delivered'[r]))
      BY DEF TailsAreCounted
    <2>1. /\ thread[r] \in Thread /\ Len(delivered[r]) \in Nat
          /\ IsCounted(thread[r], Len(delivered[r]))
      BY LenProperties DEF Parts, ThreadsOK, HistoryOK, TailsAreCounted
    <2>2. thread'[r] = thread[r] \/ thread'[r] = TriggerReader(thread[r])
      BY <1>1, BufferNextThreads
    <2> QED BY <1>1, <2>1, <2>2, TriggerReaderCounted
  <1>2. CASE UNCHANGED vars
    BY <1>2 DEF vars, TailsAreCounted
  <1> QED BY <1>1, <1>2, StepKeepsTails DEF Next, StepOf

\* No thread has begun.
LEMMA InitTails == Init => TailsAreCounted
  <1> SUFFICES ASSUME Init, NEW r \in Readers PROVE IsCounted(thread[r], Len(delivered[r]))
    BY DEF TailsAreCounted
  <1>1. thread[r] = NewThread(NoRequest, "idle") /\ delivered[r] = << >>
    BY DEF Init
  <1>2. /\ thread[r].pc = "idle" /\ ~thread[r].non_block /\ ~thread[r].request.non_block
        /\ Len(delivered[r]) = 0
    BY <1>1 DEF NewThread, NoRequest
  <1>3. thread[r].non_block = thread[r].request.non_block
    BY <1>1 DEF NewThread
  <1> QED BY <1>2, <1>3 DEF IsCounted

(***************************************************************************)
(* A client that asked for the last N entries and to be closed ("logcat -t  *)
(* N") is sent at most N, whatever is logged, pruned or cleared between the  *)
(* pass that counts and the pass that sends, and while each is written.     *)
(***************************************************************************)
THEOREM TailsStayRespected == Spec => []TailIsRespected
  <1>1. Init => Parts /\ TailsAreCounted
    BY InitIInv, PartsOfIInv, InitTails
  <1>2. IInv /\ TailsAreCounted /\ [Next]_vars => TailsAreCounted'
    BY PartsOfIInv, NextTails
  <1>3. IInv /\ TailsAreCounted => TailIsRespected
    <2> SUFFICES ASSUME IInv, TailsAreCounted, NEW r \in Readers,
                        thread[r].request.non_block, thread[r].request.tail # 0
                 PROVE  Len(delivered[r]) <= thread[r].request.tail
      BY DEF TailIsRespected
    <2>1. /\ thread[r] \in Thread /\ Len(delivered[r]) \in Nat
          /\ IsCounted(thread[r], Len(delivered[r]))
      BY PartsOfIInv, LenProperties DEF Parts, ThreadsOK, HistoryOK, TailsAreCounted
    <2>2. /\ thread[r].index \in Nat /\ thread[r].count \in Nat /\ thread[r].tail \in Nat
          /\ thread[r].non_block \in BOOLEAN
      BY <2>1 DEF Thread
    <2> DEFINE t == thread[r]
               sent == Sent(t, Len(delivered[r]))
    <2>3. sent \in Nat /\ Len(delivered[r]) <= sent
      BY <2>1 DEF Sent
    <2>4. t.non_block /\ t.tail = t.request.tail
      BY <2>1 DEF IsCounted
    <2>5. /\ t.index <= t.count /\ sent <= t.index
          /\ t.count > t.tail => sent = 0 \/ sent <= t.index - (t.count - t.tail)
      BY <2>1, <2>4 DEF IsCounted
    <2> HIDE DEF sent
    <2> QED BY <2>1, <2>2, <2>3, <2>4, <2>5
  <1> QED BY <1>1, <1>2, <1>3, InductiveInvariant, PTL DEF Spec

-----------------------------------------------------------------------------
(***************************************************************************)
(* What the step of a thread leaves alone                                   *)
(***************************************************************************)

\* The chunk d holds what c does, and has room for as much more.
HoldsTheSame(c, d) ==
    /\ d.entries = c.entries
    /\ d.highest_sequence_number = c.highest_sequence_number
    /\ d.writer_active = c.writer_active
    /\ c.writer_active => d.contents = c.contents

\* The chunks have the entries they had.
SameEntries(heap) ==
    /\ DOMAIN heap = DOMAIN chunk
    /\ \A c \in DOMAIN chunk : HoldsTheSame(chunk[c], heap[c])

\* A reference changes nothing that is written.
LEMMA ReferencesHold ==
    ASSUME NEW c \in Chunk
    PROVE  /\ HoldsTheSame(c, IncReaderRefCount(c))
           /\ HoldsTheSame(c, DecReaderRefCount(c))
           /\ HoldsTheSame(c, WithoutReaders(c))
           /\ \A s : HoldsTheSame(c, AttachReader(c, s)) /\ HoldsTheSame(c, DetachReader(c, s))
  <1>1. ASSUME NEW R, NEW n, NEW x, c.writer_active => x = c.contents
        PROVE  HoldsTheSame(c, [c EXCEPT !.readers = R, !.reader_ref_count = n, !.contents = x])
    BY <1>1 DEF HoldsTheSame, Chunk
  <1>2. ASSUME NEW n, NEW x, c.writer_active => x = c.contents
        PROVE  HoldsTheSame(c, [c EXCEPT !.reader_ref_count = n, !.contents = x])
    BY <1>2 DEF HoldsTheSame, Chunk
  <1>3. HoldsTheSame(c, IncReaderRefCount(c)) /\ HoldsTheSame(c, DecReaderRefCount(c))
    BY <1>2 DEF IncReaderRefCount, DecReaderRefCount
  <1>4. HoldsTheSame(c, WithoutReaders(c))
    BY <1>1 DEF WithoutReaders
  <1>5. ASSUME NEW s
        PROVE  HoldsTheSame(c, AttachReader(c, s)) /\ HoldsTheSame(c, DetachReader(c, s))
    <2>1. ASSUME NEW R
          PROVE  LET d == [c EXCEPT !.readers = R]
                 IN  /\ d.reader_ref_count = c.reader_ref_count
                     /\ d.writer_active = c.writer_active
                     /\ d.write_offset = c.write_offset /\ d.contents = c.contents
                     /\ \A n, x : [d EXCEPT !.reader_ref_count = n, !.contents = x]
                           = [c EXCEPT !.readers = R, !.reader_ref_count = n, !.contents = x]
      BY DEF Chunk
    <2> QED BY <1>1, <2>1 DEF AttachReader, DetachReader, IncReaderRefCount, DecReaderRefCount
  <1> QED BY <1>3, <1>4, <1>5

\* The states of the other threads are what they were.
OthersKeepStates(r) ==
    \A q \in Readers \ {r} :
        /\ Main(q) \in DOMAIN state' <=> Main(q) \in DOMAIN state
        /\ Main(q) \in DOMAIN state => state'[Main(q)] = state[Main(q)]

\* The thread's own state is what it was.
KeepsMain(r) ==
    /\ Main(r) \in DOMAIN state' <=> Main(r) \in DOMAIN state
    /\ Main(r) \in DOMAIN state => state'[Main(r)] = state[Main(r)]

\* A new FlushToState is nobody else's.
LEMMA WithStateKeeps ==
    ASSUME NEW r, NEW s \in {Main(r), Temp(r)}, NEW st, state' = WithState(s, st)
    PROVE  /\ OthersKeepStates(r)
           /\ s = Temp(r) => KeepsMain(r)
  <1>1. /\ DOMAIN state' = (DOMAIN state) \cup {s}
        /\ \A p \in (DOMAIN state) \ {s} : state'[p] = state[p]
    BY DEF WithState
  <1>2. \A q \in Readers \ {r} : Main(q) # s
    BY StatesDiffer
  <1>3. s = Temp(r) => Main(r) # s
    BY MainIsNotTemp
  <1> QED BY <1>1, <1>2, <1>3 DEF OthersKeepStates, KeepsMain

\* Nor is one that goes.
LEMMA WithoutStateKeeps ==
    ASSUME NEW r, NEW s \in {Main(r), Temp(r)}, state' = WithoutState(s)
    PROVE  /\ OthersKeepStates(r)
           /\ s = Temp(r) => KeepsMain(r)
  <1>1. /\ DOMAIN state' = (DOMAIN state) \ {s}
        /\ \A p \in (DOMAIN state) \ {s} : state'[p] = state[p]
    BY DEF WithoutState
  <1>2. \A q \in Readers \ {r} : Main(q) # s
    BY StatesDiffer
  <1>3. s = Temp(r) => Main(r) # s
    BY MainIsNotTemp
  <1> QED BY <1>1, <1>2, <1>3 DEF OthersKeepStates, KeepsMain

\* Nor one that changes.
LEMMA ExceptStateKeeps ==
    ASSUME NEW r, NEW s \in {Main(r), Temp(r)}, NEW st, state' = [state EXCEPT ![s] = st]
    PROVE  /\ OthersKeepStates(r)
           /\ s = Temp(r) => KeepsMain(r)
  <1>1. /\ DOMAIN state' = DOMAIN state
        /\ \A p \in (DOMAIN state) \ {s} : state'[p] = state[p]
    OBVIOUS
  <1>2. \A q \in Readers \ {r} : Main(q) # s
    BY StatesDiffer
  <1>3. s = Temp(r) => Main(r) # s
    BY MainIsNotTemp
  <1> QED BY <1>1, <1>2, <1>3 DEF OthersKeepStates, KeepsMain

\* ~SerializedFlushToState() and the moves of a position leave the entries alone.
LEMMA DetachAllKeepsEntries ==
    ASSUME Parts, NEW s, chunk' = DetachAll(s)
    PROVE  SameEntries(chunk')
  <1>1. \A c \in DOMAIN chunk : HoldsTheSame(chunk[c], DetachReader(chunk[c], s))
    BY ReferencesHold DEF Parts, IsHeap
  <1> QED BY <1>1 DEF DetachAll, SameEntries, HoldsTheSame

-----------------------------------------------------------------------------
(***************************************************************************)
(* CheckForNewLogs()                                                        *)
(***************************************************************************)

\* UpdateLogsNeeded() puts the position at pos, or at the front of the next chunk when
\* nothing is left at pos.
Moves(s, i, pos, new) ==
    /\ state' = [state EXCEPT ![s] = new]
    /\ DOMAIN new.log_positions = (DOMAIN state[s].log_positions) \cup {i}
    /\ \A j \in (DOMAIN state[s].log_positions) \ {i} :
          new.log_positions[j] = state[s].log_positions[j]
    /\ new.start = state[s].start
    /\ \/ new.log_positions[i] = pos
       \/ \E k \in 1 .. Len(logs[i]) - 1 :
             /\ pos.buffer_it = logs[i][k]
             /\ new.log_positions[i].buffer_it = logs[i][k + 1]

\* UpdateLogsNeeded(), taken apart.
LEMMA UpdateLogsNeededMoves ==
    ASSUME Parts, NEW s \in DOMAIN state, NEW i \in LogIds, NEW heap, IsHeap(heap),
           SameEntries(heap), NEW pos \in Position,
           UpdateLogsNeeded(s, i, pos, heap)
    PROVE  SameEntries(chunk') /\ \E new : Moves(s, i, pos, new)
  <1> DEFINE st == SetPosition(state[s], i, pos)
             list == logs[i]
  <1>1. IsState(state[s])
    BY DEF Parts, StatesOK
  <1>2. /\ IsState(st)
        /\ DOMAIN st.log_positions = (DOMAIN state[s].log_positions) \cup {i}
        /\ st.log_positions[i] = pos
        /\ \A j \in (DOMAIN state[s].log_positions) \ {i} :
              st.log_positions[j] = state[s].log_positions[j]
    BY <1>1, SetPositionType
  <1>3. st.start = state[s].start
    BY <1>1 DEF SetPosition, IsState, FlushToState
  <1>4. ASSUME NEW needed \in SUBSET LogIds, chunk' = heap,
               state' = [state EXCEPT ![s] = [st EXCEPT !.logs_needed = needed]]
        PROVE  SameEntries(chunk') /\ \E new : Moves(s, i, pos, new)
    <2> DEFINE new == [st EXCEPT !.logs_needed = needed]
    <2> HIDE DEF st
    <2>1. new.log_positions = st.log_positions /\ new.start = st.start
      BY <1>2 DEF IsState, FlushToState
    <2>2. state' = [state EXCEPT ![s] = new]
      BY <1>4
    <2> HIDE DEF new
    <2>3. Moves(s, i, pos, new)
      BY <1>2, <1>3, <2>1, <2>2 DEF Moves
    <2> QED BY <1>4, <2>3
  <1>5. ASSUME NEW k \in 1 .. Len(list) - 1, pos.buffer_it = list[k],
               LET next == [buffer_it |-> list[k + 1], read_offset |-> 0]
               IN  /\ chunk' = [heap EXCEPT ![list[k]] = DetachReader(@, s),
                                            ![list[k + 1]] = AttachReader(@, s)]
                   /\ state' = [state EXCEPT ![s] =
                         [SetPosition(st, i, next) EXCEPT
                             !.logs_needed = IF MoreInChunk(next, heap) THEN @ \ {i}
                                                                        ELSE @ \cup {i}]]
        PROVE  SameEntries(chunk') /\ \E new : Moves(s, i, pos, new)
    <2> DEFINE a == list[k]
               b == list[k + 1]
               next == [buffer_it |-> b, read_offset |-> 0]
               st2 == SetPosition(st, i, next)
               needed == IF MoreInChunk(next, heap) THEN st2.logs_needed \ {i}
                                                    ELSE st2.logs_needed \cup {i}
               new == [st2 EXCEPT !.logs_needed = needed]
    <2>1. /\ a \in Elements(list) /\ b \in Elements(list) /\ a # b
          /\ a \in DOMAIN chunk /\ b \in DOMAIN chunk /\ b \in ChunkIds
      <3>1. /\ list \in Seq(ChunkIds) /\ Len(list) \in Nat /\ Distinct(list)
            /\ Elements(list) \subseteq DOMAIN chunk
        BY LenProperties DEF Parts, LogsOK, ListsAreDisjoint
      <3>2. k \in 1 .. Len(list) /\ k + 1 \in 1 .. Len(list) /\ k # k + 1
        BY <3>1
      <3>3. a \in Elements(list) /\ b \in Elements(list) /\ a # b
        BY <3>1, <3>2 DEF Elements, Distinct
      <3> QED BY <3>1, <3>2, <3>3, ElementOfSeq
    <2>2. chunk' = [heap EXCEPT ![a] = DetachReader(heap[a], s), ![b] = AttachReader(heap[b], s)]
      BY <1>5, <2>1
    <2>3. state' = [state EXCEPT ![s] = new]
      BY <1>5
    <2>4. next \in Position /\ next.buffer_it = b
      BY <2>1 DEF Position
    <2> HIDE DEF a, b, next, st
    <2>5. /\ IsState(st2)
          /\ DOMAIN st2.log_positions = (DOMAIN st.log_positions) \cup {i}
          /\ st2.log_positions[i] = next
          /\ \A j \in (DOMAIN st.log_positions) \ {i} :
                st2.log_positions[j] = st.log_positions[j]
      BY <1>2, <2>4, SetPositionType
    <2>6. st2.start = st.start
      BY <1>2 DEF SetPosition, IsState, FlushToState
    <2> HIDE DEF st2
    <2>7. needed \in SUBSET LogIds
      BY <2>5 DEF IsState, FlushToState
    <2> HIDE DEF needed
    <2>8. new.log_positions = st2.log_positions /\ new.start = st2.start
      BY <2>5, <2>7 DEF IsState, FlushToState
    <2> HIDE DEF new
    <2>9. /\ DOMAIN new.log_positions = (DOMAIN state[s].log_positions) \cup {i}
          /\ \A j \in (DOMAIN state[s].log_positions) \ {i} :
                new.log_positions[j] = state[s].log_positions[j]
          /\ new.start = state[s].start
          /\ new.log_positions[i].buffer_it = b
      BY <1>2, <1>3, <2>4, <2>5, <2>6, <2>8
    <2>10. \E m \in 1 .. Len(logs[i]) - 1 :
              /\ pos.buffer_it = logs[i][m]
              /\ new.log_positions[i].buffer_it = logs[i][m + 1]
      BY <1>5, <2>9 DEF b
    <2>11. Moves(s, i, pos, new)
      BY <2>3, <2>9, <2>10, Zenon DEF Moves
    <2>12. heap[a] \in Chunk /\ IsFiniteSet(heap[a].readers)
           /\ heap[b] \in Chunk /\ IsFiniteSet(heap[b].readers) /\ s \in States
      BY <2>1 DEF IsHeap, SameEntries, Parts, StatesOK
    <2>13. /\ HoldsTheSame(heap[a], DetachReader(heap[a], s))
           /\ HoldsTheSame(heap[b], AttachReader(heap[b], s))
      BY <2>12, ReferencesHold
    <2>14. /\ DOMAIN chunk' = DOMAIN chunk
           /\ \A d \in DOMAIN chunk : \/ d = a /\ chunk'[d] = DetachReader(heap[a], s)
                                      \/ d = b /\ chunk'[d] = AttachReader(heap[b], s)
                                      \/ chunk'[d] = heap[d]
      BY <2>1, <2>2 DEF SameEntries
    <2>15. SameEntries(chunk')
      BY <2>13, <2>14 DEF SameEntries, HoldsTheSame
    <2> QED BY <2>11, <2>15
  <1>6. \/ /\ chunk' = heap
           /\ \/ state' = [state EXCEPT ![s] = [st EXCEPT !.logs_needed = st.logs_needed \ {i}]]
              \/ state' = [state EXCEPT ![s] = [st EXCEPT !.logs_needed = st.logs_needed \cup {i}]]
        \/ \E k \in 1 .. Len(list) - 1 :
              LET next == [buffer_it |-> list[k + 1], read_offset |-> 0]
              IN  /\ pos.buffer_it = list[k]
                  /\ chunk' = [heap EXCEPT ![list[k]] = DetachReader(@, s),
                                           ![list[k + 1]] = AttachReader(@, s)]
                  /\ state' = [state EXCEPT ![s] =
                        [SetPosition(st, i, next) EXCEPT
                            !.logs_needed = IF MoreInChunk(next, heap) THEN @ \ {i}
                                                                       ELSE @ \cup {i}]]
    BY DEF UpdateLogsNeeded
  <1>7. st.logs_needed \ {i} \in SUBSET LogIds /\ st.logs_needed \cup {i} \in SUBSET LogIds
    BY <1>2 DEF IsState, FlushToState
  <1> HIDE DEF st, list
  <1> QED BY <1>4, <1>5, <1>6, <1>7

\* One iteration of CheckForNewLogs() moves a position on, or makes one.
LEMMA CheckForNewLogsMoves ==
    ASSUME Parts, NEW r \in Readers, CheckForNewLogs(r)
    PROVE  /\ SameEntries(chunk')
           /\ \/ state' = state
              \/ \E i, pos, new :
                    /\ i \in LogIds
                    /\ Moves(Current(r), i, pos, new)
                    /\ i \in DOMAIN state[Current(r)].log_positions =>
                          pos = state[Current(r)].log_positions[i]
  <1> DEFINE s == Current(r)
             i == thread[r].log_id
  <1>1. /\ thread[r].pc = "flush" /\ i < LOG_ID_MAX
    BY DEF CheckForNewLogs, Flushing
  <1>2. \/ UNCHANGED <<chunk, state>>
        \/ ~HasPosition(state[s], i) /\ CreateLogPosition(s, i)
        \/ /\ HasPosition(state[s], i)
           /\ UpdateLogsNeeded(s, i, state[s].log_positions[i], chunk)
    BY DEF CheckForNewLogs
  <1>3. s \in DOMAIN state
    BY <1>1, CurrentIsLive
  <1>4. i \in LogIds
    <2>1. i \in 0 .. LOG_ID_MAX
      BY DEF Parts, ThreadsOK, Thread
    <2> QED BY <1>1, <2>1, LogIdAssumption DEF LogIds
  <1>5. IsHeap(chunk) /\ SameEntries(chunk)
    BY DEF Parts, SameEntries, HoldsTheSame
  <1> HIDE DEF s, i
  <1>6. CASE UNCHANGED <<chunk, state>>
    BY <1>5, <1>6
  <1>7. CASE ~HasPosition(state[s], i) /\ CreateLogPosition(s, i)
    <2>1. PICK k \in 1 .. Len(logs[i]) : \E n \in 0 .. Len(chunk[logs[i][k]].entries) :
              UpdateLogsNeeded(s, i, [buffer_it |-> logs[i][k], read_offset |-> n],
                               [chunk EXCEPT ![logs[i][k]] = AttachReader(@, s)])
      BY <1>7 DEF CreateLogPosition
    <2> DEFINE c == logs[i][k]
               heap == [chunk EXCEPT ![c] = AttachReader(@, s)]
    <2>2. PICK n \in 0 .. Len(chunk[c].entries) :
              UpdateLogsNeeded(s, i, [buffer_it |-> c, read_offset |-> n], heap)
      BY <2>1
    <2> DEFINE pos == [buffer_it |-> c, read_offset |-> n]
    <2>3. c \in DOMAIN chunk /\ c \in ChunkIds
      <3>1. c \in Elements(logs[i])
        BY DEF Elements
      <3> QED BY <1>4, <3>1 DEF Parts, ListsAreDisjoint, IsHeap
    <2>4. s \in States /\ chunk[c] \in Chunk /\ IsFiniteSet(chunk[c].readers)
      BY <1>3, <2>3 DEF Parts, StatesOK, IsHeap
    <2>5. /\ AttachReader(chunk[c], s) \in Chunk
          /\ HoldsTheSame(chunk[c], AttachReader(chunk[c], s))
          /\ IsFiniteSet(AttachReader(chunk[c], s).readers)
      BY <2>4, AttachReaderType, ReferencesHold
    <2>6. Len(chunk[c].entries) \in Nat
      BY <2>4, LenProperties DEF Chunk
    <2>7. pos \in Position
      BY <2>3, <2>6 DEF Position
    <2>8. /\ DOMAIN heap = DOMAIN chunk /\ heap[c] = AttachReader(chunk[c], s)
          /\ \A d \in (DOMAIN chunk) \ {c} : heap[d] = chunk[d]
      BY <2>3
    <2>9. UpdateLogsNeeded(s, i, pos, heap)
      BY <2>2
    <2> HIDE DEF c, heap, pos
    <2>10. IsHeap(heap)
      <3>1. \A d \in DOMAIN chunk : chunk[d] \in Chunk /\ IsFiniteSet(chunk[d].readers)
        BY DEF Parts, IsHeap
      <3>2. \A d \in DOMAIN chunk : heap[d] \in Chunk /\ IsFiniteSet(heap[d].readers)
        BY <2>3, <2>5, <2>8, <3>1
      <3> QED BY <2>8, <3>2 DEF Parts, IsHeap
    <2>11. SameEntries(heap)
      BY <2>3, <2>5, <2>8 DEF SameEntries, HoldsTheSame
    <2>12. SameEntries(chunk') /\ \E new : Moves(s, i, pos, new)
      BY <1>3, <1>4, <2>7, <2>9, <2>10, <2>11, UpdateLogsNeededMoves
    <2>13. i \notin DOMAIN state[s].log_positions
      BY <1>7 DEF HasPosition
    <2> QED BY <1>4, <2>12, <2>13, Zenon DEF s
  <1>8. CASE /\ HasPosition(state[s], i)
             /\ UpdateLogsNeeded(s, i, state[s].log_positions[i], chunk)
    <2> DEFINE pos == state[s].log_positions[i]
    <2>1. i \in DOMAIN state[s].log_positions
      BY <1>8 DEF HasPosition
    <2>2. pos \in Position
      BY <1>3, <2>1 DEF Parts, StatesOK, IsState, FlushToState
    <2>3. SameEntries(chunk') /\ \E new : Moves(s, i, pos, new)
      BY <1>3, <1>4, <1>5, <1>8, <2>2, UpdateLogsNeededMoves
    <2> QED BY <1>4, <2>3, Zenon DEF s
  <1> QED BY <1>2, <1>6, <1>7, <1>8

-----------------------------------------------------------------------------
(***************************************************************************)
(* The steps of a thread                                                    *)
(***************************************************************************)
Frame(r) ==
    /\ UNCHANGED <<logs, sequence, pending, commands>>
    /\ ~Clearing => ~Clearing'
    /\ SameEntries(chunk')
    /\ OthersKeepStates(r)
    /\ \E t, d : Becomes(r, t, d)

\* Nothing is sent and no position moves.
Rests(r) ==
    /\ delivered'[r] = delivered[r]
    /\ thread'[r].pc = "write" => /\ thread[r].pc = "write" /\ thread'[r].out = thread[r].out
                                  /\ state'[Main(r)] = state[Main(r)]
    /\ IsUncreated(thread'[r]) => IsUncreated(thread[r])
    /\ Main(r) \in DOMAIN state' =>
          \/ IsUncreated(thread[r])
          \/ /\ Main(r) \in DOMAIN state
             /\ state'[Main(r)].log_positions = state[Main(r)].log_positions
             /\ state[Main(r)].start <= state'[Main(r)].start
             /\ state'[Main(r)].start \in Nat

\* A position of the second pass is made or moves on.
MovesOn(r) ==
    /\ delivered'[r] = delivered[r]
    /\ thread[r].pc = "flush" /\ thread'[r].pc = "flush"
    /\ thread[r].pass = "second" /\ thread'[r].pass = "second"
    /\ \E i, pos, new :
          /\ i \in LogIds
          /\ Moves(Main(r), i, pos, new)
          /\ i \in DOMAIN state[Main(r)].log_positions => pos = state[Main(r)].log_positions[i]

\* The second pass comes to an entry.
Flushes(r) ==
    /\ thread[r].pc = "flush" /\ thread[r].pass = "second"
    /\ \E i, entry, result, u : FlushesEntry(r, i, entry, result, u)

\* A reader, not a command, has the lock.
LEMMA LockOfReader ==
    ASSUME NEW r \in Readers
    PROVE  logd_lock' \in {{}, {r}} => ~Clearing'
  BY ReaderAssumption DEF Clearing

\* Waking a thread, or telling it to end, is no step of its own.
LEMMA TriggerReaderRests ==
    ASSUME NEW t \in Thread, NEW u \in Thread, u = t \/ u = [t EXCEPT !.release = TRUE]
    PROVE  LET w == TriggerReader(u)
           IN  /\ w \in Thread
               /\ w.pc = "write" <=> t.pc = "write"
               /\ w.out = t.out
               /\ IsUncreated(w) <=> IsUncreated(t)
  <1>1. u.pc = t.pc /\ u.pass = t.pass /\ u.out = t.out
    BY DEF Thread
  <1>2. PICK pc : /\ TriggerReader(u) = [u EXCEPT !.pc = pc]
                  /\ \/ pc = u.pc
                     \/ u.pc = "wait" /\ pc = "woken"
                     \/ u.pc = "wait_until" /\ pc = "notified"
    BY TriggerReaderFields
  <1> DEFINE w == [u EXCEPT !.pc = pc]
  <1>3. w \in Thread /\ w.pc = pc /\ w.pass = u.pass /\ w.out = u.out
    BY <1>2 DEF Thread
  <1> HIDE DEF w
  <1> QED BY <1>1, <1>2, <1>3 DEF IsUncreated, w

\* Every step of a thread, and of the listener for it, is one of these.
LEMMA StepEffect ==
    ASSUME Parts, NEW r \in Readers, StepOf(r)
    PROVE  Frame(r) /\ (Rests(r) \/ MovesOn(r) \/ Flushes(r) \/ WriteSucceeds(r))
  <1> DEFINE t == thread[r]
             d == delivered[r]
  <1>1. t \in Thread /\ DOMAIN thread = Readers
    BY DEF Parts, ThreadsOK
  <1>2. delivered' = delivered => delivered' = [delivered EXCEPT ![r] = d]
    BY DEF Parts, HistoryOK
  <1>3. SameEntries(chunk)
    BY DEF SameEntries, HoldsTheSame
  <1>4. state' = state => OthersKeepStates(r) /\ KeepsMain(r)
    BY DEF OthersKeepStates, KeepsMain
  <1>5. Main(r) \in DOMAIN state => state[Main(r)].start \in Nat
    BY DEF Parts, StatesOK, IsState, FlushToState
  <1>6. ASSUME NEW u, thread' = [thread EXCEPT ![r] = u], delivered' = delivered,
               UNCHANGED <<logs, sequence, pending, commands>>,
               ~Clearing => ~Clearing', SameEntries(chunk'), OthersKeepStates(r)
        PROVE  Frame(r) /\ thread'[r] = u /\ delivered'[r] = d
    BY <1>1, <1>2, <1>6 DEF Frame, Becomes
  <1>7. ASSUME NEW u, thread' = [thread EXCEPT ![r] = u], delivered' = delivered,
               UNCHANGED <<logs, sequence, pending, commands>>,
               ~Clearing => ~Clearing', SameEntries(chunk'), OthersKeepStates(r),
               u.pc = "write" => /\ t.pc = "write" /\ u.out = t.out
                                 /\ state'[Main(r)] = state[Main(r)],
               IsUncreated(u) => IsUncreated(t),
               Main(r) \in DOMAIN state' =>
                  \/ IsUncreated(t)
                  \/ /\ Main(r) \in DOMAIN state
                     /\ state'[Main(r)].log_positions = state[Main(r)].log_positions
                     /\ state[Main(r)].start <= state'[Main(r)].start
                     /\ state'[Main(r)].start \in Nat
        PROVE  Frame(r) /\ Rests(r)
    BY <1>6, <1>7 DEF Rests
  <1>24. KeepsMain(r) /\ Main(r) \in DOMAIN state' =>
            /\ Main(r) \in DOMAIN state
            /\ state'[Main(r)].log_positions = state[Main(r)].log_positions
            /\ state[Main(r)].start <= state'[Main(r)].start
            /\ state'[Main(r)].start \in Nat
    <2> SUFFICES ASSUME KeepsMain(r), Main(r) \in DOMAIN state'
                 PROVE  /\ Main(r) \in DOMAIN state
                        /\ state'[Main(r)].log_positions = state[Main(r)].log_positions
                        /\ state[Main(r)].start <= state'[Main(r)].start
                        /\ state'[Main(r)].start \in Nat
      OBVIOUS
    <2>1. Main(r) \in DOMAIN state /\ state'[Main(r)] = state[Main(r)]
      BY DEF KeepsMain
    <2> QED BY <1>5, <2>1
  <1>25. ASSUME NEW u, thread' = [thread EXCEPT ![r] = u], delivered' = delivered,
                UNCHANGED <<logs, sequence, pending, commands>>,
                ~Clearing => ~Clearing', SameEntries(chunk'), OthersKeepStates(r), KeepsMain(r),
                u.pc = "write" => t.pc = "write" /\ u.out = t.out,
                IsUncreated(u) => IsUncreated(t)
         PROVE  Frame(r) /\ Rests(r)
    <2>1. u.pc = "write" => state'[Main(r)] = state[Main(r)]
      BY <1>25, ThreadHas DEF NeedsMain, KeepsMain
    <2> QED BY <1>7, <1>24, <1>25, <2>1
  <1>8. CASE OnDataAvailable(r)
    <2>1. PICK q \in Requests :
            \/ /\ thread' = [thread EXCEPT ![r] = NewThread(q, "found")]
               /\ UNCHANGED <<logd_lock, state>>
            \/ /\ thread' = [thread EXCEPT ![r] = NewThread(q, "flush")]
               /\ logd_lock' = {r}
               /\ state' = WithState(Temp(r), NewFlushToState(1, NewThread(q, "flush").log_mask))
      BY <1>8 DEF OnDataAvailable
    <2>2. /\ delivered' = delivered /\ UNCHANGED bufferVars /\ IsUncreated(t)
      BY <1>8 DEF OnDataAvailable, IsUncreated
    <2>3. OthersKeepStates(r)
      BY <1>4, <2>1, WithStateKeeps
    <2>4. ~Clearing => ~Clearing'
      BY <2>1, LockOfReader DEF Clearing
    <2>5. NewThread(q, "found").pc = "found" /\ NewThread(q, "flush").pc = "flush"
      BY DEF NewThread
    <2> QED BY <1>3, <1>7, <2>1, <2>2, <2>3, <2>4, <2>5 DEF bufferVars
  <1>9. CASE FindReturns(r)
    <2> DEFINE u1 == [t EXCEPT !.pc = "found"]
               u2 == [t EXCEPT !.pc = "gone"]
               u3 == [t EXCEPT !.pc = "found", !.sequence = sequence]
    <2>1. t.pc = "stop" /\ t.pass = "find" /\ sequence \in Nat
      BY <1>9 DEF FindReturns, Parts, WritersOK
    <2>2. u1.pc = "found" /\ u2.pc = "gone" /\ u3.pc = "found"
      BY <1>1 DEF Thread
    <2>3. \E u \in {u1, u2, u3} : thread' = [thread EXCEPT ![r] = u]
      BY <1>9 DEF FindReturns
    <2>4. IsUncreated(t)
      BY <2>1 DEF IsUncreated
    <2>5. SameEntries(chunk') /\ OthersKeepStates(r) /\ ~Clearing'
      BY <1>9, DetachAllKeepsEntries, WithoutStateKeeps, LockOfReader DEF FindReturns
    <2>6. delivered' = delivered /\ UNCHANGED <<logs, sequence, pending, commands>>
      BY <1>9 DEF FindReturns
    <2> HIDE DEF u1, u2, u3
    <2> QED BY <1>7, <2>2, <2>3, <2>4, <2>5, <2>6
  <1>10. CASE CreateThread(r)
    <2> DEFINE u == [t EXCEPT !.pc = "start", !.pass = "second", !.last = 1,
                              !.start_time_set = FALSE]
    <2>1. t.pc = "found"
      BY <1>10 DEF CreateThread
    <2>2. u.pc = "start"
      BY <1>1 DEF Thread
    <2>3. thread' = [thread EXCEPT ![r] = u] /\ delivered' = delivered
          /\ UNCHANGED bufferVars /\ logd_lock' = logd_lock
      BY <1>10 DEF CreateThread
    <2>4. IsUncreated(t) /\ ~IsUncreated(u)
      BY <2>1, <2>2 DEF IsUncreated
    <2>5. OthersKeepStates(r)
      BY <1>10, WithStateKeeps DEF CreateThread
    <2> HIDE DEF u
    <2> QED BY <1>3, <1>7, <2>2, <2>3, <2>4, <2>5 DEF bufferVars, Clearing
  <1>11. CASE DoSocketDelete(r)
    <2> DEFINE u == [t EXCEPT !.release = TRUE]
    <2>1. u \in Thread
      BY <1>1 DEF Thread
    <2>2. thread' = [thread EXCEPT ![r] = TriggerReader(u)] /\ delivered' = delivered
          /\ UNCHANGED bufferVars /\ state' = state /\ logd_lock' = logd_lock
          /\ Main(r) \in DOMAIN state
      BY <1>11 DEF DoSocketDelete, Release, reader_threads
    <2>3. /\ TriggerReader(u).pc = "write" <=> t.pc = "write"
          /\ TriggerReader(u).out = t.out
          /\ IsUncreated(TriggerReader(u)) <=> IsUncreated(t)
      BY <1>1, <2>1, TriggerReaderRests
    <2> HIDE DEF u
    <2> QED BY <1>3, <1>4, <1>25, <2>2, <2>3 DEF bufferVars, Clearing
  <1>12. CASE DeadlinePasses(r)
    <2> DEFINE u == [t EXCEPT !.pc = "timed_out"]
    <2>1. u.pc = "timed_out" /\ ~IsUncreated(u)
      BY <1>1 DEF Thread, IsUncreated
    <2>2. thread' = [thread EXCEPT ![r] = u] /\ delivered' = delivered
          /\ UNCHANGED bufferVars /\ state' = state /\ logd_lock' = logd_lock
      BY <1>12 DEF DeadlinePasses
    <2> HIDE DEF u
    <2> QED BY <1>3, <1>4, <1>25, <2>1, <2>2 DEF bufferVars, Clearing
  <1>13. ASSUME NEW u \in Thread, u.pc # "write", EnterFlushTo(r, u) \/ LeaveLoop(r, u),
                delivered' = delivered, UNCHANGED bufferVars
         PROVE  Frame(r) /\ Rests(r)
    <2>1. PICK w : /\ thread' = [thread EXCEPT ![r] = w]
                   /\ w = BeginFlush(u, "first") \/ w = BeginFlush(u, "second")
                         \/ w = [u EXCEPT !.pc = "exit"]
      BY <1>13 DEF EnterFlushTo, LeaveLoop
    <2>2. \/ state' = state
          \/ state' = WithState(Temp(r), NewFlushToState(state[Main(r)].start,
                                                         state[Main(r)].log_mask))
      BY <1>13 DEF EnterFlushTo, LeaveLoop
    <2>3. ~Clearing'
      BY <1>13, LockOfReader DEF EnterFlushTo, LeaveLoop
    <2>4. w.pc \in {"flush", "exit"} /\ (w.pc = "flush" => w.pass \in {"first", "second"})
      BY <1>13, <2>1, BeginFlushType DEF Thread
    <2>5. ~IsUncreated(w)
      BY <2>4 DEF IsUncreated
    <2>6. OthersKeepStates(r) /\ KeepsMain(r)
      BY <1>4, <2>2, WithStateKeeps
    <2> QED BY <1>3, <1>25, <1>13, <2>1, <2>3, <2>4, <2>5, <2>6 DEF bufferVars
  <1>14. CASE LoopTop(r)
    <2>1. CASE LeaveLoop(r, t) \/ EnterFlushTo(r, t)
      BY <1>1, <1>13, <1>14, <2>1 DEF LoopTop
    <2>2. CASE /\ thread' = [thread EXCEPT ![r] = [t EXCEPT !.pc = "wait_until"]]
               /\ UNCHANGED <<logd_lock, state>>
      <3> DEFINE u == [t EXCEPT !.pc = "wait_until"]
      <3>1. u.pc = "wait_until" /\ ~IsUncreated(u)
        BY <1>1 DEF Thread, IsUncreated
      <3>2. thread' = [thread EXCEPT ![r] = u] /\ delivered' = delivered /\ UNCHANGED bufferVars
        BY <1>14, <2>2 DEF LoopTop
      <3> HIDE DEF u
      <3> QED BY <1>3, <1>4, <1>25, <2>2, <3>1, <3>2 DEF bufferVars, Clearing
    <2> QED BY <1>14, <2>1, <2>2 DEF LoopTop
  <1>15. CASE AfterWaitUntil(r)
    <2> DEFINE u == [t EXCEPT !.deadline = t.deadline /\ t.pc # "timed_out"]
    <2>1. /\ t.pc \in {"notified", "timed_out"} /\ delivered' = delivered /\ UNCHANGED bufferVars
          /\ LeaveLoop(r, u) \/ EnterFlushTo(r, u)
      BY <1>15 DEF AfterWaitUntil
    <2>2. u \in Thread /\ u.pc = t.pc
      BY <1>1 DEF Thread
    <2> HIDE DEF u
    <2> QED BY <1>13, <2>1, <2>2
  <1>16. CASE CheckForNewLogs(r)
    <2> DEFINE u == [t EXCEPT !.log_id = t.log_id + 1]
    <2>1. /\ thread' = [thread EXCEPT ![r] = u] /\ delivered' = delivered
          /\ UNCHANGED <<logs, sequence, pending, commands, logd_lock>> /\ t.pc = "flush"
      BY <1>16 DEF CheckForNewLogs, Flushing
    <2>2. u.pc = "flush" /\ u.pass = t.pass /\ (IsUncreated(u) <=> IsUncreated(t))
      BY <1>1, <2>1 DEF Thread, IsUncreated
    <2> HIDE DEF u
    <2>3. SameEntries(chunk')
      BY <1>16, CheckForNewLogsMoves
    <2>4. CASE state' = state
      BY <1>4, <1>25, <2>1, <2>2, <2>3, <2>4 DEF Clearing
    <2>5. CASE t.pass # "second" /\ state' # state
      <3>1. PICK new : state' = [state EXCEPT ![Temp(r)] = new]
        BY <1>16, <2>5, CheckForNewLogsMoves, Zenon DEF Moves, Current
      <3>2. OthersKeepStates(r) /\ KeepsMain(r)
        BY <3>1, ExceptStateKeeps
      <3> QED BY <1>25, <2>1, <2>2, <2>3, <3>2 DEF Clearing
    <2>6. CASE t.pass = "second" /\ state' # state
      <3>1. Current(r) = Main(r)
        BY <2>6 DEF Current
      <3>2. PICK i, pos, new :
               /\ i \in LogIds
               /\ Moves(Main(r), i, pos, new)
               /\ i \in DOMAIN state[Main(r)].log_positions =>
                     pos = state[Main(r)].log_positions[i]
        BY <1>16, <2>6, <3>1, CheckForNewLogsMoves
      <3>3. OthersKeepStates(r)
        BY <3>2, ExceptStateKeeps DEF Moves
      <3>4. Frame(r) /\ thread'[r] = u /\ delivered'[r] = d
        BY <1>6, <2>1, <2>3, <3>3 DEF Clearing
      <3> QED BY <2>1, <2>2, <2>6, <3>2, <3>4 DEF MovesOn
    <2> QED BY <2>4, <2>5, <2>6
  <1>17. CASE FlushToEntry(r)
    <2>1. PICK i, entry, result, u : FlushesEntry(r, i, entry, result, u)
      BY <1>17, FlushToEntryCases
    <2>2. t.pc = "flush" /\ UNCHANGED bufferVars /\ logd_lock' \in {logd_lock, {}}
          /\ delivered' = delivered
      BY <1>17 DEF FlushToEntry, Flushing
    <2>3. ~Clearing => ~Clearing'
      BY <2>2 DEF Clearing
    <2>4. PICK w : /\ Becomes(r, w, d)
                   /\ \/ w = [u EXCEPT !.log_id = 0]
                      \/ w = [u EXCEPT !.pc = "stop"]
                      \/ /\ result = "kWrite"
                         /\ w = [u EXCEPT !.pc = "write", !.out = entry.sequence]
      BY <2>1, Zenon DEF FlushesEntry
    <2>5. /\ entry \in Entry
          /\ u = Outcome(t, state[Current(r)].start, entry).thread
          /\ result = Outcome(t, state[Current(r)].start, entry).result
          /\ state' = [state EXCEPT ![Current(r)] = SetStart(PopNextUnreadLog(@, i), entry)]
      BY <2>1, Zenon DEF FlushesEntry
    <2>6. u \in Thread /\ u.pc = "flush" /\ u.pass = t.pass
          /\ (result = "kWrite" => t.pass = "second")
      BY <1>1, <2>2, <2>5, OutcomeType DEF FilterOK
    <2>7. OthersKeepStates(r)
      BY <2>5, ExceptStateKeeps DEF Current
    <2>8. Frame(r) /\ thread'[r] = w /\ delivered'[r] = d
      BY <1>3, <1>6, <2>2, <2>3, <2>4, <2>7 DEF bufferVars, Becomes
    <2>9. CASE t.pass = "second"
      BY <2>1, <2>2, <2>8, <2>9 DEF Flushes
    <2>10. CASE t.pass # "second"
      <3>1. KeepsMain(r)
        BY <2>5, <2>10, ExceptStateKeeps DEF Current
      <3>2. w.pc \in {"flush", "stop"} /\ w.pass = t.pass
        BY <2>4, <2>6, <2>10 DEF Thread
      <3>3. IsUncreated(w) => IsUncreated(t)
        BY <2>2, <3>2 DEF IsUncreated
      <3> QED BY <1>24, <2>8, <3>1, <3>2, <3>3 DEF Rests
    <2> QED BY <2>9, <2>10
  <1>18. CASE FlushToNoMore(r)
    <2> DEFINE u == [t EXCEPT !.pc = "stop"]
    <2>1. /\ thread' = [thread EXCEPT ![r] = u] /\ delivered' = delivered /\ t.pc = "flush"
          /\ UNCHANGED bufferVars /\ state' = state /\ logd_lock' = logd_lock
      BY <1>18 DEF FlushToNoMore, Flushing
    <2>2. u.pc = "stop" /\ (IsUncreated(u) => IsUncreated(t))
      BY <1>1, <2>1 DEF Thread, IsUncreated
    <2> HIDE DEF u
    <2> QED BY <1>3, <1>4, <1>25, <2>1, <2>2 DEF bufferVars, Clearing
  <1>19. CASE WriteSucceeds(r)
    <2>1. /\ UNCHANGED bufferVars /\ state' = state /\ ~Clearing'
          /\ \E u, e : Becomes(r, u, e)
      BY <1>19, LockOfReader DEF WriteSucceeds, Becomes
    <2> QED BY <1>3, <1>4, <1>19, <2>1 DEF Frame, bufferVars
  <1>20. CASE WriteFails(r)
    <2> DEFINE u == [t EXCEPT !.pc = "exit", !.start_time = EPOCH, !.out = 0]
    <2>1. thread' = [thread EXCEPT ![r] = u] /\ delivered' = delivered
          /\ UNCHANGED bufferVars /\ state' = state /\ ~Clearing'
      BY <1>20, LockOfReader DEF WriteFails
    <2>2. u.pc = "exit" /\ ~IsUncreated(u)
      BY <1>1 DEF Thread, IsUncreated
    <2> HIDE DEF u
    <2> QED BY <1>3, <1>4, <1>25, <2>1, <2>2 DEF bufferVars
  <1>21. CASE FirstPassReturns(r)
    <2> DEFINE u == BeginFlush(t, "second")
    <2>1. thread' = [thread EXCEPT ![r] = u] /\ delivered' = delivered
          /\ UNCHANGED <<logs, sequence, pending, commands, logd_lock>>
      BY <1>21 DEF FirstPassReturns
    <2>2. SameEntries(chunk')
      BY <1>21, DetachAllKeepsEntries DEF FirstPassReturns
    <2>3. OthersKeepStates(r) /\ KeepsMain(r)
      BY <1>21, WithoutStateKeeps DEF FirstPassReturns
    <2>4. u.pc = "flush" /\ ~IsUncreated(u)
      BY <1>1, BeginFlushType DEF IsUncreated
    <2> HIDE DEF u
    <2> QED BY <1>25, <2>1, <2>2, <2>3, <2>4 DEF Clearing
  <1>22. CASE SecondPassReturns(r)
    <2> DEFINE Ended(pc) == [t EXCEPT !.pc = pc, !.start_time = EPOCH]
               st == state[Main(r)]
               new == [st EXCEPT !.start = st.start + 1]
    <2>1. /\ delivered' = delivered /\ UNCHANGED bufferVars
          /\ logd_lock = {r} /\ logd_lock' \in {logd_lock, {}} /\ t.pc = "stop" /\ t.pass = "second"
          /\ state' = [state EXCEPT ![Main(r)] = new]
          /\ \E pc \in {"exit", "wait_until", "wait"} : thread' = [thread EXCEPT ![r] = Ended(pc)]
      BY <1>22 DEF SecondPassReturns
    <2>2. Main(r) \in DOMAIN state
      BY <2>1, ThreadHas DEF NeedsMain
    <2>3. new.log_positions = st.log_positions /\ new.start = st.start + 1 /\ st.start \in Nat
      BY <2>2 DEF Parts, StatesOK, IsState, FlushToState
    <2>4. OthersKeepStates(r)
      BY <2>1, ExceptStateKeeps
    <2>5. \A pc \in {"exit", "wait_until", "wait"} : Ended(pc).pc = pc
      BY <1>1 DEF Thread
    <2>6. ~Clearing'
      BY <2>1, LockOfReader
    <2> HIDE DEF Ended, new
    <2>7. /\ Main(r) \in DOMAIN state' /\ state'[Main(r)] = new
      BY <2>1, <2>2
    <2>8. PICK pc \in {"exit", "wait_until", "wait"} : thread' = [thread EXCEPT ![r] = Ended(pc)]
      BY <2>1
    <2>9. Ended(pc).pc # "write" /\ ~IsUncreated(Ended(pc))
      BY <2>5 DEF IsUncreated
    <2>10. state[Main(r)].start <= state'[Main(r)].start /\ state'[Main(r)].start \in Nat
           /\ state'[Main(r)].log_positions = state[Main(r)].log_positions
      BY <2>3, <2>7
    <2> QED BY <1>3, <1>7, <2>1, <2>2, <2>4, <2>6, <2>8, <2>9, <2>10 DEF bufferVars
  <1>23. CASE ThreadExits(r)
    <2> DEFINE u == [t EXCEPT !.pc = "gone"]
    <2>1. thread' = [thread EXCEPT ![r] = u] /\ delivered' = delivered
          /\ UNCHANGED <<logs, sequence, pending, commands>> /\ ~Clearing'
          /\ state' = WithoutState(Main(r))
      BY <1>23, LockOfReader DEF ThreadExits
    <2>2. SameEntries(chunk') /\ OthersKeepStates(r)
      BY <1>23, DetachAllKeepsEntries, WithoutStateKeeps DEF ThreadExits
    <2>3. u.pc = "gone" /\ ~IsUncreated(u)
      BY <1>1 DEF Thread, IsUncreated
    <2>4. Main(r) \notin DOMAIN state'
      BY <2>1 DEF WithoutState
    <2> HIDE DEF u
    <2> QED BY <1>7, <2>1, <2>2, <2>3, <2>4
  <1> QED BY <1>8, <1>9, <1>10, <1>11, <1>12, <1>14, <1>15, <1>16, <1>17, <1>18, <1>19,
             <1>20, <1>21, <1>22, <1>23 DEF StepOf, ReaderStep

-----------------------------------------------------------------------------
(***************************************************************************)
(* The start                                                                *)
(***************************************************************************)

\* The sequence numbers sent to a client never go back.
NeverBack(d) == \A k \in 1 .. Len(d) - 1 : d[k] <= d[k + 1]

NoneGoesBack == \A r \in Readers : NeverBack(delivered[r])

\* StartFollows of one thread t, which has been sent d and has the states st
Follows(r, t, d, st) ==
    /\ IsUncreated(t) => d = << >>
    /\ Main(r) \in DOMAIN st /\ d # << >> => LastOf(d) <= st[Main(r)].start
    /\ t.pc = "write" => t.out = st[Main(r)].start

\* StartFollows, one thread at a time.
LEMMA StartFollowsByThread ==
    /\ StartFollows <=> \A r \in Readers : Follows(r, thread[r], delivered[r], state)
    /\ StartFollows' <=> \A r \in Readers : Follows(r, thread'[r], delivered'[r], state')
  <1>1. StartFollows <=> \A r \in Readers : Follows(r, thread[r], delivered[r], state)
    BY DEF StartFollows, Follows
  <1>2. StartFollows' <=> \A r \in Readers : Follows(r, thread'[r], delivered'[r], state')
    BY DEF StartFollows, Follows, IsUncreated, LastOf, Main
  <1> QED BY <1>1, <1>2

\* What one more number does to what a client was sent.
LEMMA AppendOne ==
    ASSUME NEW d \in Seq(Nat), NEW n \in Nat
    PROVE  /\ Append(d, n) # << >> /\ LastOf(Append(d, n)) = n
           /\ NeverBack(d) /\ (d # << >> => LastOf(d) <= n) => NeverBack(Append(d, n))
           /\ (\A k \in 1 .. Len(d) - 1 : d[k] # d[k + 1]) /\ (d # << >> => LastOf(d) # n)
                => \A k \in 1 .. Len(Append(d, n)) - 1 : Append(d, n)[k] # Append(d, n)[k + 1]
  <1>1. /\ Append(d, n) \in Seq(Nat)
        /\ Len(Append(d, n)) = Len(d) + 1
        /\ \A k \in 1 .. Len(d) : Append(d, n)[k] = d[k]
        /\ Append(d, n)[Len(d) + 1] = n
    BY AppendProperties
  <1>2. Len(d) \in Nat /\ (d = << >> <=> Len(d) = 0)
    BY LenProperties, EmptySeq
  <1>3. Append(d, n) # << >> /\ LastOf(Append(d, n)) = n
    BY <1>1, <1>2 DEF LastOf
  <1>4. ASSUME NEW k \in 1 .. Len(Append(d, n)) - 1
        PROVE  \/ k \in 1 .. Len(d) - 1 /\ Append(d, n)[k] = d[k] /\ Append(d, n)[k + 1] = d[k + 1]
               \/ d # << >> /\ Append(d, n)[k] = LastOf(d) /\ Append(d, n)[k + 1] = n
    <2>1. CASE k = Len(d)
      BY <1>1, <1>2, <1>4, <2>1 DEF LastOf
    <2>2. CASE k # Len(d)
      <3>1. k \in 1 .. Len(d) - 1 /\ k \in 1 .. Len(d) /\ k + 1 \in 1 .. Len(d)
        BY <1>1, <1>2, <1>4, <2>2
      <3> QED BY <1>1, <3>1
    <2> QED BY <2>1, <2>2
  <1> QED BY <1>3, <1>4 DEF NeverBack

\* What FlushTo() makes of its state when it comes to an entry.
LEMMA FlushedState ==
    ASSUME Parts, NEW r \in Readers, NEW i, NEW entry, NEW result, NEW u,
           thread[r].pc = "flush", thread[r].pass = "second",
           FlushesEntry(r, i, entry, result, u)
    PROVE  /\ Main(r) \in DOMAIN state /\ Main(r) \in DOMAIN state'
           /\ state[Main(r)].start \in Nat /\ entry.sequence \in Nat
           /\ state'[Main(r)].start = IF entry.sequence < state[Main(r)].start
                                      THEN state[Main(r)].start ELSE entry.sequence
           /\ result = "kWrite" => ~(entry.sequence < state[Main(r)].start)
           /\ delivered'[r] = delivered[r]
           /\ \/ thread'[r].pc # "write" /\ ~IsUncreated(thread'[r])
              \/ result = "kWrite" /\ thread'[r].pc = "write" /\ thread'[r].out = entry.sequence
           /\ DOMAIN state'[Main(r)].log_positions = DOMAIN state[Main(r)].log_positions
           /\ i \in DOMAIN state[Main(r)].log_positions
           /\ LET pos == state[Main(r)].log_positions[i]
                  new == state'[Main(r)].log_positions
              IN  /\ new[i].buffer_it = pos.buffer_it
                  /\ new[i].read_offset = pos.read_offset + 1
                  /\ entry = EntryAt(pos, chunk)
           /\ \A j \in (DOMAIN state[Main(r)].log_positions) \ {i} :
                 state'[Main(r)].log_positions[j] = state[Main(r)].log_positions[j]
  <1> DEFINE s == Current(r)
             st == state[s]
             new == SetStart(PopNextUnreadLog(st, i), entry)
  <1>1. s = Main(r)
    BY DEF Current
  <1>2. s \in DOMAIN state
    BY CurrentIsLive
  <1>3. IsState(st)
    BY <1>2 DEF Parts, StatesOK
  <1>4. /\ i \in UnreadLogs(st) /\ entry = EntryAt(st.log_positions[i], chunk) /\ entry \in Entry
        /\ result = Outcome(thread[r], st.start, entry).result
        /\ u = Outcome(thread[r], st.start, entry).thread
        /\ state' = [state EXCEPT ![s] = new]
    BY Zenon DEF FlushesEntry
  <1>5. /\ Main(r) \in DOMAIN state' /\ state'[Main(r)] = new
    BY <1>1, <1>2, <1>4
  <1>6. PICK w : /\ Becomes(r, w, delivered[r])
                 /\ \/ w = [u EXCEPT !.log_id = 0]
                    \/ w = [u EXCEPT !.pc = "stop"]
                    \/ /\ result = "kWrite"
                       /\ w = [u EXCEPT !.pc = "write", !.out = entry.sequence]
    BY Zenon DEF FlushesEntry
  <1>7. thread'[r] = w /\ delivered'[r] = delivered[r]
    BY <1>6, BecomesOnly
  <1>8. u \in Thread /\ u.pc = "flush" /\ u.pass = "second"
    BY <1>4, OutcomeType DEF FilterOK, Parts, ThreadsOK
  <1>9. \/ w.pc # "write" /\ ~IsUncreated(w)
        \/ result = "kWrite" /\ w.pc = "write" /\ w.out = entry.sequence
    BY <1>6, <1>8 DEF Thread, IsUncreated
  <1>10. i \in DOMAIN st.log_positions
    BY <1>4 DEF UnreadLogs
  <1>11. /\ IsState(new)
         /\ DOMAIN new.log_positions = DOMAIN st.log_positions
         /\ new.log_positions[i].buffer_it = st.log_positions[i].buffer_it
         /\ new.log_positions[i].read_offset = st.log_positions[i].read_offset + 1
         /\ \A j \in (DOMAIN st.log_positions) \ {i} :
               new.log_positions[j] = st.log_positions[j]
    BY <1>3, <1>4, <1>10, PopNextUnreadLogType
  <1>12. st.start \in Nat /\ entry.sequence \in Nat
    BY <1>3, <1>4 DEF IsState, FlushToState, Entry
  <1>13. new.start = IF entry.sequence < st.start THEN st.start ELSE entry.sequence
    <2> DEFINE popped == PopNextUnreadLog(st, i)
    <2>1. popped.start = st.start /\ popped = [popped EXCEPT !.start = popped.start]
      BY <1>3 DEF PopNextUnreadLog, IsState, FlushToState
    <2>2. \A n : [popped EXCEPT !.start = n].start = n
      BY <1>3 DEF PopNextUnreadLog, IsState, FlushToState
    <2> HIDE DEF popped
    <2>3. new = [popped EXCEPT !.start = IF entry.sequence < popped.start THEN popped.start
                                                                          ELSE entry.sequence]
      BY DEF SetStart, popped
    <2> QED BY <2>1, <2>2, <2>3
  <1>14. result = "kWrite" => ~(entry.sequence < st.start)
    <2>1. Filtered(thread[r], "kSkip").result = "kSkip"
      BY FilteredType
    <2> QED BY <1>4, <2>1 DEF Outcome
  <1> HIDE DEF new
  <1> QED BY <1>1, <1>2, <1>4, <1>5, <1>7, <1>9, <1>10, <1>11, <1>12, <1>13, <1>14

\* The steps of a thread keep StartFollows, and send no number below the last.
LEMMA StepFollows ==
    ASSUME Parts, StartFollows, NoneGoesBack, NEW r \in Readers, StepOf(r)
    PROVE  StartFollows' /\ NoneGoesBack'
  <1> DEFINE t == thread[r]
             d == delivered[r]
  <1>1. Frame(r) /\ (Rests(r) \/ MovesOn(r) \/ Flushes(r) \/ WriteSucceeds(r))
    BY StepEffect
  <1>2. /\ t \in Thread /\ d \in Seq(Nat) /\ Follows(r, t, d, state) /\ NeverBack(d)
        /\ Len(d) \in Nat /\ (d # << >> => LastOf(d) \in Nat)
    <2>1. t \in Thread /\ d \in Seq(Nat) /\ Follows(r, t, d, state) /\ NeverBack(d)
      BY StartFollowsByThread DEF Parts, ThreadsOK, HistoryOK, NoneGoesBack
    <2>2. Len(d) \in Nat /\ (d # << >> => Len(d) \in 1 .. Len(d))
      BY <2>1, LenProperties, EmptySeq
    <2>3. d # << >> => LastOf(d) \in Nat
      BY <2>1, <2>2, ElementOfSeq DEF LastOf
    <2> QED BY <2>1, <2>2, <2>3
  <1>3. ASSUME NEW q \in Readers \ {r}
        PROVE  Follows(q, thread'[q], delivered'[q], state') /\ NeverBack(delivered'[q])
    <2>1. thread'[q] = thread[q] /\ delivered'[q] = delivered[q]
      BY <1>1, BecomesOnly DEF Frame
    <2>2. /\ Main(q) \in DOMAIN state' <=> Main(q) \in DOMAIN state
          /\ Main(q) \in DOMAIN state => state'[Main(q)] = state[Main(q)]
      BY <1>1 DEF Frame, OthersKeepStates
    <2>3. Follows(q, thread[q], delivered[q], state) /\ NeverBack(delivered[q])
      BY StartFollowsByThread DEF NoneGoesBack
    <2>4. thread[q].pc = "write" => Main(q) \in DOMAIN state
      BY ThreadHas DEF NeedsMain
    <2> QED BY <2>1, <2>2, <2>3, <2>4 DEF Follows
  <1>4. Main(r) \in DOMAIN state => state[Main(r)].start \in Nat
    BY DEF Parts, StatesOK, IsState, FlushToState
  <1>5. t.pc = "write" => Main(r) \in DOMAIN state /\ t.pass = "second"
    BY ThreadHas DEF NeedsMain
  <1>6. Follows(r, thread'[r], delivered'[r], state') /\ NeverBack(delivered'[r])
    <2>1. CASE Rests(r)
      <3>1. NeverBack(delivered'[r])
        BY <1>2, <2>1 DEF Rests
      <3>2. IsUncreated(thread'[r]) => delivered'[r] = << >>
        BY <1>2, <2>1 DEF Rests, Follows
      <3>3. Main(r) \in DOMAIN state' /\ delivered'[r] # << >>
               => LastOf(delivered'[r]) <= state'[Main(r)].start
        <4> SUFFICES ASSUME Main(r) \in DOMAIN state', d # << >>
                     PROVE  LastOf(d) <= state'[Main(r)].start
          BY <2>1 DEF Rests
        <4>1. /\ Main(r) \in DOMAIN state /\ state[Main(r)].start <= state'[Main(r)].start
              /\ LastOf(d) <= state[Main(r)].start /\ state'[Main(r)].start \in Nat
          BY <1>2, <2>1 DEF Rests, Follows
        <4> QED BY <1>2, <1>4, <4>1
      <3>4. thread'[r].pc = "write" => thread'[r].out = state'[Main(r)].start
        BY <1>2, <2>1 DEF Rests, Follows
      <3> QED BY <3>1, <3>2, <3>3, <3>4 DEF Follows
    <2>2. CASE MovesOn(r)
      <3>1. PICK i, pos, new : i \in LogIds /\ Moves(Main(r), i, pos, new)
        BY <2>2 DEF MovesOn
      <3>2. t.pc = "flush" /\ t.pass = "second" /\ delivered'[r] = d
            /\ thread'[r].pc = "flush" /\ thread'[r].pass = "second"
        BY <2>2 DEF MovesOn
      <3>3. Main(r) \in DOMAIN state
        BY <3>2, ThreadHas DEF NeedsMain
      <3>4. state'[Main(r)].start = state[Main(r)].start
        BY <3>1, <3>3 DEF Moves
      <3> QED BY <1>2, <3>2, <3>3, <3>4 DEF Follows, IsUncreated
    <2>3. CASE Flushes(r)
      <3>1. PICK i, entry, result, u : FlushesEntry(r, i, entry, result, u)
        BY <2>3 DEF Flushes
      <3>2. /\ Main(r) \in DOMAIN state /\ state[Main(r)].start \in Nat /\ entry.sequence \in Nat
            /\ state'[Main(r)].start = IF entry.sequence < state[Main(r)].start
                                       THEN state[Main(r)].start ELSE entry.sequence
            /\ result = "kWrite" => ~(entry.sequence < state[Main(r)].start)
            /\ delivered'[r] = d
            /\ \/ thread'[r].pc # "write" /\ ~IsUncreated(thread'[r])
               \/ result = "kWrite" /\ thread'[r].pc = "write" /\ thread'[r].out = entry.sequence
        BY <2>3, <3>1, FlushedState DEF Flushes
      <3>3. d # << >> => LastOf(d) <= state[Main(r)].start
        BY <1>2, <3>2 DEF Follows
      <3>4. d # << >> => LastOf(d) <= state'[Main(r)].start
        BY <1>2, <3>2, <3>3
      <3>5. ~IsUncreated(thread'[r])
        BY <3>2 DEF IsUncreated
      <3> QED BY <1>2, <3>2, <3>4, <3>5 DEF Follows
    <2>4. CASE WriteSucceeds(r)
      <3> DEFINE u == [t EXCEPT !.pc = "flush", !.log_id = 0, !.out = 0]
      <3>1. t.pc = "write" /\ state' = state /\ Becomes(r, u, Append(d, t.out))
        BY <2>4 DEF WriteSucceeds, Becomes
      <3>2. t.out \in Nat /\ t.out = state[Main(r)].start /\ Main(r) \in DOMAIN state
        BY <1>2, <1>5, <3>1 DEF Thread, Follows
      <3>3. u.pc = "flush" /\ u.pass = "second"
        BY <1>2, <1>5, <3>1 DEF Thread
      <3>4. thread'[r] = u /\ delivered'[r] = Append(d, t.out)
        BY <3>1, BecomesOnly
      <3> HIDE DEF u
      <3>5. d # << >> => LastOf(d) <= t.out
        BY <1>2, <3>2 DEF Follows
      <3>6. NeverBack(Append(d, t.out)) /\ LastOf(Append(d, t.out)) = t.out
        BY <1>2, <3>2, <3>5, AppendOne
      <3> QED BY <3>1, <3>2, <3>3, <3>4, <3>6 DEF Follows, IsUncreated
    <2> QED BY <1>1, <2>1, <2>2, <2>3, <2>4
  <1> QED BY <1>3, <1>6, StartFollowsByThread DEF NoneGoesBack, NeverBack

-----------------------------------------------------------------------------
(***************************************************************************)
(* What writers and commands leave of the threads                           *)
(***************************************************************************)

\* NotifyReadersOfPrune() takes no start back.
LEMMA NotifiedStarts ==
    ASSUME Parts, NEW i, NEW heap, NEW ids, state' = NotifyReadersOfPrune(i, heap, ids)
    PROVE  /\ DOMAIN state' = DOMAIN state
           /\ \A s \in DOMAIN state : state'[s].start = state[s].start
  <1>1. \A s \in DOMAIN state : IsState(state[s])
    BY DEF Parts, StatesOK
  <1>2. \A s \in DOMAIN state : PruneState(state[s], i).start = state[s].start
    BY <1>1 DEF PruneState, ResetPosition, IsState, FlushToState
  <1> QED BY <1>2 DEF NotifyReadersOfPrune

\* Writers and commands change no start, and no FlushToState comes or goes.
LEMMA BufferNextStarts ==
    ASSUME Parts, BufferNext
    PROVE  /\ DOMAIN state' = DOMAIN state
           /\ \A s \in DOMAIN state : state'[s].start = state[s].start
  <1>1. ASSUME NEW w, TakeSequence(w) PROVE state' = state
    BY <1>1 DEF TakeSequence
  <1>2. ASSUME NEW w, Log(w) PROVE \E i, heap, ids : state' = NotifyReadersOfPrune(i, heap, ids)
    <2> DEFINE i == pending[w].log_id
               logged(z) == LogToLogBuffer(chunk, logs[i], max_size[i], pending[w].entry, z)
    <2>1. PICK z, n : state' = NotifyReadersOfPrune(i, logged(z).heap, Pruned(logged(z).list, n))
      BY <1>2 DEF Log
    <2> HIDE DEF logged, i
    <2> QED BY <2>1
  <1>3. ASSUME NEW i, ClearAll(i)
        PROVE  \E j, heap, ids : state' = NotifyReadersOfPrune(j, heap, ids)
    BY <1>3, Zenon DEF ClearAll
  <1>4. ASSUME NEW i, NEW size, SetSize(i, size)
        PROVE  \E j, heap, ids : state' = NotifyReadersOfPrune(j, heap, ids)
    BY <1>4, Zenon DEF SetSize
  <1>5. ASSUME NEW i, NEW uid, UidClear(i, uid) PROVE state' = state
    BY <1>5 DEF UidClear
  <1>6. ASSUME ReinitTrigger PROVE state' = state
    BY <1>6 DEF ReinitTrigger
  <1>7. ASSUME ClearStep
        PROVE  state' = state \/ \E j, heap, ids : state' = NotifyReadersOfPrune(j, heap, ids)
    <2>1. CASE ClearSpliceChunk
      BY <2>1, Zenon DEF ClearSpliceChunk
    <2>2. CASE ClearOpenChunk
      BY <2>2, Zenon DEF ClearOpenChunk
    <2> QED BY <1>7, <2>1, <2>2 DEF ClearStep, ClearEntry, ClearEraseChunk, ClearSwap
  <1>8. state' = state \/ \E i, heap, ids : state' = NotifyReadersOfPrune(i, heap, ids)
    BY <1>1, <1>2, <1>3, <1>4, <1>5, <1>6, <1>7 DEF BufferNext
  <1> QED BY <1>8, NotifiedStarts

\* Nor do they change what a thread is writing.
LEMMA BufferNextWrites ==
    ASSUME Parts, BufferNext, NEW r \in Readers
    PROVE  /\ thread'[r].pc = "write" <=> thread[r].pc = "write"
           /\ thread'[r].out = thread[r].out
           /\ IsUncreated(thread'[r]) <=> IsUncreated(thread[r])
  <1>1. thread[r] \in Thread
    BY DEF Parts, ThreadsOK
  <1>2. thread'[r] = thread[r] \/ thread'[r] = TriggerReader(thread[r])
    BY BufferNextThreads
  <1> QED BY <1>1, <1>2, TriggerReaderRests

\* Writers and commands keep StartFollows.
LEMMA BufferNextFollows ==
    ASSUME Parts, StartFollows, BufferNext, delivered' = delivered
    PROVE  StartFollows'
  <1> SUFFICES ASSUME NEW r \in Readers
               PROVE  Follows(r, thread'[r], delivered'[r], state')
    BY StartFollowsByThread
  <1>1. Follows(r, thread[r], delivered[r], state)
    BY StartFollowsByThread
  <1>2. thread[r].pc = "write" => Main(r) \in DOMAIN state
    BY ThreadHas DEF NeedsMain
  <1> QED BY <1>1, <1>2, BufferNextStarts, BufferNextWrites DEF Follows

\* Every step of logd keeps StartFollows, and sends no number below the last.
LEMMA NextFollows ==
    Parts /\ StartFollows /\ NoneGoesBack /\ [Next]_vars => StartFollows' /\ NoneGoesBack'
  <1> SUFFICES ASSUME Parts, StartFollows, NoneGoesBack, [Next]_vars
               PROVE  StartFollows' /\ NoneGoesBack'
    OBVIOUS
  <1>1. CASE BufferNext /\ UNCHANGED delivered
    BY <1>1, BufferNextFollows DEF NoneGoesBack, NeverBack
  <1>2. CASE UNCHANGED vars
    BY <1>2 DEF vars, StartFollows, NoneGoesBack, NeverBack
  <1> QED BY <1>1, <1>2, StepFollows DEF Next, StepOf

\* No client was sent anything.
LEMMA InitFollows == Init => StartFollows /\ NoneGoesBack
  <1> SUFFICES ASSUME Init, NEW r \in Readers
               PROVE  Follows(r, thread[r], delivered[r], state) /\ NeverBack(delivered[r])
    BY StartFollowsByThread DEF NoneGoesBack
  <1>1. thread[r] = NewThread(NoRequest, "idle") /\ delivered[r] = << >>
    BY DEF Init
  <1>2. thread[r].pc = "idle"
    BY <1>1 DEF NewThread
  <1>3. NeverBack(delivered[r])
    BY <1>1 DEF NeverBack
  <1> QED BY <1>1, <1>2, <1>3 DEF Follows

-----------------------------------------------------------------------------
(***************************************************************************)
(* The order of the chunks in a list                                        *)
(***************************************************************************)

\* What precedes or is preceded is in the list, and nothing precedes itself.
LEMMA PrecedesElements ==
    ASSUME NEW list, NEW c, NEW d, Precedes(list, c, d)
    PROVE  /\ c \in Elements(list) /\ d \in Elements(list)
           /\ Distinct(list) => c # d
  <1>1. PICK a, b \in 1 .. Len(list) : a < b /\ list[a] = c /\ list[b] = d
    BY DEF Precedes
  <1>2. c \in Elements(list) /\ d \in Elements(list)
    BY <1>1, Zenon DEF Elements
  <1>3. a # b
    BY <1>1
  <1> QED BY <1>1, <1>2, <1>3 DEF Distinct

\* Pushing a chunk leaves the order alone.
LEMMA PrecedesAppend ==
    ASSUME NEW S, NEW list \in Seq(S), NEW x \in S, NEW c, NEW d, Precedes(list, c, d)
    PROVE  Precedes(Append(list, x), c, d)
  <1>1. PICK a, b \in 1 .. Len(list) : a < b /\ list[a] = c /\ list[b] = d
    BY DEF Precedes
  <1>2. /\ Len(Append(list, x)) = Len(list) + 1 /\ Len(list) \in Nat
        /\ \A k \in 1 .. Len(list) : Append(list, x)[k] = list[k]
    BY AppendProperties, LenProperties
  <1>3. a \in 1 .. Len(Append(list, x)) /\ b \in 1 .. Len(Append(list, x))
    BY <1>1, <1>2
  <1> QED BY <1>1, <1>2, <1>3 DEF Precedes

\* Pruning leaves the order of what remains alone: what follows it remains too.
LEMMA PrecedesUnpruned ==
    ASSUME NEW S, NEW list \in Seq(S), Distinct(list), NEW n \in 0 .. Len(list),
           NEW c \in Elements(Unpruned(list, n)), NEW d, Precedes(list, c, d)
    PROVE  Precedes(Unpruned(list, n), c, d)
  <1> DEFINE rest == Unpruned(list, n)
  <1>1. PICK a, b \in 1 .. Len(list) : a < b /\ list[a] = c /\ list[b] = d
    BY DEF Precedes
  <1>2. Len(list) \in Nat
    BY LenProperties
  <1>3. /\ Len(rest) = Len(list) - n
        /\ \A k \in 1 .. Len(rest) : rest[k] = list[k + n]
    <2>1. n + 1 \in 1 .. Len(list) + 1 /\ Len(list) \in (n + 1) - 1 .. Len(list)
      BY <1>2
    <2> QED BY <1>2, <2>1, SubSeqProperties DEF Unpruned
  <1>4. PICK k \in 1 .. Len(rest) : c = rest[k]
    BY DEF Elements
  <1>5. k + n = a
    BY <1>1, <1>2, <1>3, <1>4 DEF Distinct
  <1> HIDE DEF rest
  <1>6. b - n \in 1 .. Len(rest) /\ k < b - n /\ (b - n) + n = b
    <2>1. /\ Len(rest) = Len(list) - n
          /\ a \in Int /\ b \in Int /\ k \in Int /\ n \in Int /\ 1 <= k
          /\ a < b /\ b <= Len(list)
      BY <1>1, <1>2, <1>3, <1>4
    <2>2. k < b - n /\ b - n <= Len(rest)
      BY <1>2, <1>5, <2>1
    <2> QED BY <1>2, <2>1, <2>2
  <1>7. rest[b - n] = list[b]
    BY <1>3, <1>6
  <1> QED BY <1>1, <1>4, <1>6, <1>7 DEF Precedes, rest

\* A chunk precedes the next one, and so does what precedes it.
LEMMA PrecedesNext ==
    ASSUME NEW S, NEW list \in Seq(S), Distinct(list), NEW k \in 1 .. Len(list) - 1
    PROVE  /\ Precedes(list, list[k], list[k + 1])
           /\ \A c : Precedes(list, c, list[k]) => Precedes(list, c, list[k + 1])
  <1>1. Len(list) \in Nat
    BY LenProperties
  <1>2. k \in 1 .. Len(list) /\ k + 1 \in 1 .. Len(list) /\ k < k + 1
    BY <1>1
  <1>3. Precedes(list, list[k], list[k + 1])
    BY <1>2 DEF Precedes
  <1>4. ASSUME NEW c, Precedes(list, c, list[k])
        PROVE  Precedes(list, c, list[k + 1])
    <2>1. PICK a, b \in 1 .. Len(list) : a < b /\ list[a] = c /\ list[b] = list[k]
      BY <1>4 DEF Precedes
    <2>2. b = k
      BY <1>2, <2>1 DEF Distinct
    <2>3. a < k + 1
      BY <1>2, <2>1, <2>2
    <2> QED BY <1>2, <2>1, <2>3 DEF Precedes
  <1> QED BY <1>3, <1>4

-----------------------------------------------------------------------------
(***************************************************************************)
(* The entries a thread came to last                                        *)
(***************************************************************************)

\* LastReadIsPassed in the next state
LEMMA PassedPrimed ==
    ASSUME \A r \in Readers : Main(r) \in DOMAIN state' =>
              Passed(CameTo(thread'[r], delivered'[r]), state'[Main(r)].log_positions,
                     logs', chunk')
    PROVE  LastReadIsPassed'
  BY DEF LastReadIsPassed, LastRead, Main

\* The entries of heap are old, but perhaps for one, in E, which is entry b of chunk a.
OldOrNew(heap, E, a, b) ==
    \A c \in DOMAIN heap : \A k \in 1 .. Len(heap[c].entries) :
        \/ /\ c \in DOMAIN chunk /\ k \in 1 .. Len(chunk[c].entries)
           /\ heap[c].entries[k] = chunk[c].entries[k]
        \/ c = a /\ k = b /\ heap[c].entries[k] \in E

\* NumbersAreUnique in the next state
LEMMA NumbersPrimed ==
    ASSUME ~Clearing', PendingDiffer(pending', sequence'),
           \A r \in Readers : AreTaken(CameTo(thread'[r], delivered'[r]), pending', sequence'),
           AreTaken(NumbersIn(chunk'), pending', sequence'), EntriesDiffer(chunk')
    PROVE  NumbersAreUnique'
  BY DEF NumbersAreUnique, LastRead

\* When one entry a writer had is logged, all numbers are still different.
LEMMA NumbersStayUnique ==
    ASSUME NumbersAreUnique, ~Clearing', sequence' = sequence,
           DOMAIN pending' \subseteq DOMAIN pending,
           \A w \in DOMAIN pending' : pending'[w] = pending[w],
           NEW E, NEW a, NEW b, OldOrNew(chunk', E, a, b),
           \A e \in E : \E w \in (DOMAIN pending) \ DOMAIN pending' : e = pending[w].entry,
           \A r \in Readers : CameTo(thread'[r], delivered'[r]) = LastRead(r)
    PROVE  NumbersAreUnique'
  <1>1. PendingDiffer(pending', sequence')
    BY DEF NumbersAreUnique, PendingDiffer
  <1>2. \A N : AreTaken(N, pending, sequence) => AreTaken(N, pending', sequence')
    BY DEF AreTaken
  <1>3. \A e \in E : AreTaken({e.sequence}, pending', sequence')
    BY DEF NumbersAreUnique, PendingDiffer, AreTaken
  <1>4. \A c \in DOMAIN chunk' : \A k \in 1 .. Len(chunk'[c].entries) :
           \/ chunk'[c].entries[k].sequence \in NumbersIn(chunk)
           \/ chunk'[c].entries[k] \in E
    BY DEF OldOrNew, NumbersIn
  <1>5. AreTaken(NumbersIn(chunk'), pending', sequence')
    <2> SUFFICES ASSUME NEW c \in DOMAIN chunk', NEW k \in 1 .. Len(chunk'[c].entries)
                 PROVE  AreTaken({chunk'[c].entries[k].sequence}, pending', sequence')
      BY DEF NumbersIn, AreTaken
    <2>1. AreTaken(NumbersIn(chunk), pending', sequence')
      BY <1>2 DEF NumbersAreUnique
    <2>2. CASE chunk'[c].entries[k].sequence \in NumbersIn(chunk)
      BY <2>1, <2>2 DEF AreTaken
    <2> QED BY <1>3, <1>4, <2>2
  <1>6. EntriesDiffer(chunk')
    <2> SUFFICES ASSUME NEW c \in DOMAIN chunk', NEW k \in 1 .. Len(chunk'[c].entries),
                        NEW d \in DOMAIN chunk', NEW m \in 1 .. Len(chunk'[d].entries),
                        chunk'[c].entries[k].sequence = chunk'[d].entries[m].sequence
                 PROVE  c = d /\ k = m
      BY DEF EntriesDiffer
    <2> DEFINE IsOld(x, n) == /\ x \in DOMAIN chunk /\ n \in 1 .. Len(chunk[x].entries)
                              /\ chunk'[x].entries[n] = chunk[x].entries[n]
               IsNew(x, n) == x = a /\ n = b /\ chunk'[x].entries[n] \in E
    <2>1. /\ IsOld(c, k) \/ IsNew(c, k)
          /\ IsOld(d, m) \/ IsNew(d, m)
      BY DEF OldOrNew
    <2>2. CASE IsOld(c, k) /\ IsOld(d, m)
      BY <2>2 DEF NumbersAreUnique, EntriesDiffer
    <2>3. ASSUME NEW x, NEW n, IsOld(x, n)
          PROVE  \A e \in E : e.sequence # chunk'[x].entries[n].sequence
      <3>1. chunk'[x].entries[n].sequence \in NumbersIn(chunk)
        BY <2>3 DEF NumbersIn
      <3> QED BY <3>1 DEF NumbersAreUnique, AreTaken
    <2>4. CASE IsNew(c, k) /\ IsNew(d, m)
      BY <2>4
    <2> HIDE DEF IsOld
    <2> QED BY <2>1, <2>2, <2>3, <2>4
  <1>7. \A r \in Readers : AreTaken(CameTo(thread'[r], delivered'[r]), pending', sequence')
    BY <1>2 DEF NumbersAreUnique
  <1> QED BY <1>1, <1>5, <1>6, <1>7, NumbersPrimed

\* Whatever is logged and pruned, a position that remains is where it was in the list.
LEMMA PruneKeepsPassed ==
    ASSUME Parts, ChunkInv, ~Clearing, LastReadIsPassed, NEW i \in LogIds,
           NEW logged, SoundlyLogged(i, logged),
           NEW P, NEW list, PruneTo(i, logged, P, list),
           \A c \in Elements(list) : \A d :
              Precedes(logs[i], c, d) => Precedes(list, c, d),
           NEW E, NEW a, NEW b, OldOrNew(chunk', E, a, b),
           \A r \in Readers : /\ CameTo(thread'[r], delivered'[r]) = LastRead(r)
                              /\ \A e \in E : e.sequence \notin LastRead(r)
    PROVE  LastReadIsPassed'
  <1>1. /\ chunk' = Free(logged.heap, P) /\ state' = NotifyReadersOfPrune(i, logged.heap, P)
        /\ logs' = [logs EXCEPT ![i] = list] /\ Elements(list) = Elements(logged.list) \ P
        /\ P \subseteq Elements(logged.list)
    BY DEF PruneTo
  <1>2. /\ logs'[i] = list /\ \A j \in LogIds \ {i} : logs'[j] = logs[j]
    BY <1>1 DEF Parts, LogsOK
  <1>3. /\ Elements(logged.list) \subseteq Elements(logs[i]) \cup ((DOMAIN logged.heap) \ DOMAIN chunk)
        /\ Elements(logs[i]) \subseteq DOMAIN chunk
        /\ \A c \in DOMAIN chunk : c \in DOMAIN logged.heap
                                   /\ logged.heap[c].readers = chunk[c].readers
        /\ \A c \in (DOMAIN logged.heap) \ DOMAIN chunk : logged.heap[c].readers = {}
    BY ListOfLog DEF SoundlyLogged, Extends
  <1> SUFFICES ASSUME NEW r \in Readers, Main(r) \in DOMAIN state'
               PROVE  Passed(LastRead(r), state'[Main(r)].log_positions, logs', chunk')
    BY PassedPrimed
  <1> DEFINE s == Main(r)
             old == state[s].log_positions
             new == state'[s].log_positions
  <1>4. s \in DOMAIN state /\ IsState(state[s])
    BY <1>1 DEF NotifyReadersOfPrune, Parts, StatesOK
  <1>5. Passed(LastRead(r), old, logs, chunk)
    BY <1>4 DEF LastReadIsPassed
  <1>6. \A j \in LogIds \ {i} : j \in DOMAIN old => j \in DOMAIN new /\ new[j] = old[j]
    <2>1. state'[s] = state[s] \/ state'[s] = PruneState(state[s], i)
      BY <1>1, <1>4 DEF NotifyReadersOfPrune
    <2> QED BY <1>4, <2>1, PruneStateType
  <1>7. i \in DOMAIN old => \/ i \in DOMAIN new /\ new[i] = old[i]
                            \/ old[i].buffer_it \in P
    <2>1. CASE \E c \in P : s \in logged.heap[c].readers
      <3>1. PICK c \in P : s \in logged.heap[c].readers
        BY <2>1
      <3>2. c \in Elements(logs[i]) /\ c \in DOMAIN chunk /\ s \in chunk[c].readers
        BY <1>1, <1>3, <3>1
      <3>3. PICK j \in DOMAIN old : old[j].buffer_it = c
        BY <3>2 DEF ChunkInv, ReadersArePositioned
      <3>4. j = i
        BY <1>4, <3>2, <3>3, OnePositionPerChunk
      <3> QED BY <3>1, <3>3, <3>4
    <2>2. CASE ~\E c \in P : s \in logged.heap[c].readers
      <3>1. state'[s] = state[s]
        BY <1>1, <1>4, <2>2 DEF NotifyReadersOfPrune
      <3> QED BY <3>1
    <2> QED BY <2>1, <2>2
  <1> HIDE DEF s, old, new
  <1> SUFFICES ASSUME NEW j \in LogIds, NEW c \in Elements(logs'[j]),
                      NEW k \in 1 .. Len(chunk'[c].entries),
                      chunk'[c].entries[k].sequence \in LastRead(r)
               PROVE  j \in DOMAIN new /\ HasPassed(new[j], logs'[j], c, k)
    BY DEF Passed, new, s
  <1>8. c \in DOMAIN chunk'
    <2>1. \A d \in Elements(logged.list) : d \in DOMAIN logged.heap
      BY <1>3
    <2>2. CASE j = i
      BY <1>1, <1>2, <2>1, <2>2 DEF Free
    <2>3. CASE j # i
      <3>1. c \in Elements(logs[j])
        BY <1>2, <2>3
      <3>2. c \in DOMAIN chunk /\ c \notin Elements(logs[i])
        BY <2>3, <3>1 DEF Parts, ListsAreDisjoint
      <3>3. c \notin P
        BY <1>1, <1>3, <3>2
      <3> QED BY <1>1, <1>3, <3>2, <3>3 DEF Free
    <2> QED BY <2>2, <2>3
  <1>9. /\ c \in DOMAIN chunk /\ k \in 1 .. Len(chunk[c].entries)
        /\ chunk[c].entries[k].sequence \in LastRead(r)
    BY <1>8 DEF OldOrNew
  <1>10. CASE j = i
    <2>1. c \in Elements(list) /\ c \in Elements(logs[i]) /\ c \notin P
      BY <1>1, <1>2, <1>3, <1>9, <1>10
    <2>2. i \in DOMAIN old /\ HasPassed(old[i], logs[i], c, k)
      BY <1>5, <1>9, <2>1 DEF Passed
    <2>3. HasPassed(old[i], list, c, k)
      BY <2>1, <2>2 DEF HasPassed
    <2>4. old[i].buffer_it \notin P
      <3>1. c = old[i].buffer_it \/ Precedes(list, c, old[i].buffer_it)
        BY <2>3 DEF HasPassed
      <3>2. old[i].buffer_it \in Elements(list)
        BY <2>1, <3>1, PrecedesElements
      <3> QED BY <1>1, <3>2
    <2> QED BY <1>2, <1>7, <1>10, <2>2, <2>3, <2>4
  <1>11. CASE j # i
    <2>1. c \in Elements(logs[j]) /\ logs'[j] = logs[j]
      BY <1>2, <1>11
    <2>2. j \in DOMAIN old /\ HasPassed(old[j], logs[j], c, k)
      BY <1>5, <1>9, <2>1 DEF Passed
    <2> QED BY <1>6, <1>11, <2>1, <2>2
  <1> QED BY <1>10, <1>11

\* Freeing chunks adds no entry.
LEMMA FreeOldOrNew ==
    ASSUME NEW heap, NEW P, NEW E, NEW a, NEW b, OldOrNew(heap, E, a, b)
    PROVE  OldOrNew(Free(heap, P), E, a, b)
  BY DEF OldOrNew, Free

\* LogToLogBuffer() adds the entry, and leaves the order of the chunks alone.
LEMMA LogAddsOne ==
    ASSUME Parts, NEW i \in LogIds, NEW entry \in Entry,
           NEW zsize \in ZSizes(chunk, logs[i], entry),
           NeedsChunk(chunk, logs[i], entry) => CanAllocate(chunk)
    PROVE  LET logged == LogToLogBuffer(chunk, logs[i], max_size[i], entry, zsize)
           IN  /\ \E a, b : OldOrNew(logged.heap, {entry}, a, b)
               /\ \A c, d : Precedes(logs[i], c, d) => Precedes(logged.list, c, d)
  <1> DEFINE list == logs[i]
             size == max_size[i]
             logged == LogToLogBuffer(chunk, list, size, entry, zsize)
             last == list[Len(list)]
  <1>1. /\ IsHeap(chunk) /\ list \in Seq(ChunkIds) /\ Elements(list) \subseteq DOMAIN chunk
    BY ListOfLog
  <1>2. \/ LogsIntoLast(chunk, list, entry, logged)
        \/ LogsIntoNew(chunk, list, size, entry, zsize, logged, FreshChunk(chunk))
    BY <1>1, LogToLogBufferCases
  <1>3. size \div kChunkSizeDivisor \in Nat
    BY ChunkHasRoom
  <1>4. \A c \in DOMAIN chunk : chunk[c] \in Chunk /\ chunk[c].entries \in Seq(Entry)
    BY <1>1 DEF IsHeap, Chunk
  <1>5. list # << >> => last \in DOMAIN chunk
    BY <1>1, LastElement
  <1> HIDE DEF logged, list, size
  <1>6. ASSUME NEW c \in Chunk
        PROVE  /\ LogEntry(c, entry).entries = Append(c.entries, entry)
               /\ c.entries \in Seq(Entry)
    BY DEF LogEntry, Chunk
  <1>7. ASSUME NEW entries \in Seq(Entry), NEW k \in 1 .. Len(Append(entries, entry))
        PROVE  \/ k \in 1 .. Len(entries) /\ Append(entries, entry)[k] = entries[k]
               \/ k = Len(entries) + 1 /\ Append(entries, entry)[k] = entry
    <2>1. /\ Len(Append(entries, entry)) = Len(entries) + 1 /\ Len(entries) \in Nat
          /\ \A m \in 1 .. Len(entries) : Append(entries, entry)[m] = entries[m]
          /\ Append(entries, entry)[Len(entries) + 1] = entry
      BY AppendProperties, LenProperties
    <2> QED BY <2>1
  <1>8. CASE LogsIntoLast(chunk, list, entry, logged)
    <2>1. /\ list # << >> /\ logged.list = list /\ DOMAIN logged.heap = DOMAIN chunk
          /\ logged.heap[last] = LogEntry(chunk[last], entry)
          /\ \A c \in (DOMAIN chunk) \ {last} : logged.heap[c] = chunk[c]
      BY <1>8 DEF LogsIntoLast
    <2> HIDE DEF last
    <2>2. OldOrNew(logged.heap, {entry}, last, Len(chunk[last].entries) + 1)
      <3> SUFFICES ASSUME NEW c \in DOMAIN chunk, NEW k \in 1 .. Len(logged.heap[c].entries)
                   PROVE  \/ /\ k \in 1 .. Len(chunk[c].entries)
                             /\ logged.heap[c].entries[k] = chunk[c].entries[k]
                          \/ /\ c = last /\ k = Len(chunk[last].entries) + 1
                             /\ logged.heap[c].entries[k] = entry
        BY <2>1 DEF OldOrNew
      <3>1. CASE c = last
        BY <1>4, <1>6, <1>7, <2>1, <3>1
      <3> QED BY <2>1, <3>1
    <2> QED BY <2>1, <2>2 DEF list, logged, size
  <1>9. CASE LogsIntoNew(chunk, list, size, entry, zsize, logged, FreshChunk(chunk))
    <2> DEFINE new == FreshChunk(chunk)
               chunk0 == NewChunk(size \div kChunkSizeDivisor)
    <2>1. /\ new \in ChunkIds \ DOMAIN chunk /\ logged.list = Append(list, new)
          /\ DOMAIN logged.heap = (DOMAIN chunk) \cup {new}
          /\ logged.heap[new] = LogEntry(chunk0, entry)
          /\ list # << >> => /\ logged.heap[last] = FinishWriting(chunk[last], zsize)
                             /\ zsize \in CompressedSizes
          /\ \A c \in DOMAIN chunk : list = << >> \/ c # last => logged.heap[c] = chunk[c]
      BY <1>9 DEF LogsIntoNew
    <2> HIDE DEF new, last
    <2>2. chunk0 \in Chunk /\ chunk0.entries = << >>
      BY <1>3, NewChunkType
    <2> HIDE DEF chunk0
    <2>3. logged.heap[new].entries = Append(<< >>, entry) /\ << >> \in Seq(Entry)
      BY <1>6, <2>1, <2>2
    <2>4. \A c \in DOMAIN chunk : logged.heap[c].entries = chunk[c].entries
      <3>1. list # << >> => FinishWriting(chunk[last], zsize).entries = chunk[last].entries
        BY <1>4, <1>5, <2>1, SizeAssumption, FinishWritingType
      <3> QED BY <2>1, <3>1
    <2>5. OldOrNew(logged.heap, {entry}, new, 1)
      <3> SUFFICES ASSUME NEW c \in DOMAIN logged.heap, NEW k \in 1 .. Len(logged.heap[c].entries)
                   PROVE  \/ /\ c \in DOMAIN chunk /\ k \in 1 .. Len(chunk[c].entries)
                             /\ logged.heap[c].entries[k] = chunk[c].entries[k]
                          \/ /\ c = new /\ k = 1
                             /\ logged.heap[c].entries[k] = entry
        BY DEF OldOrNew
      <3>1. CASE c = new
        <4>1. Len(<< >>) = 0
          OBVIOUS
        <4> QED BY <1>7, <2>3, <3>1, <4>1
      <3> QED BY <2>1, <2>4, <3>1
    <2>6. \A c, d : Precedes(list, c, d) => Precedes(logged.list, c, d)
      BY <1>1, <2>1, PrecedesAppend DEF list
    <2> QED BY <2>5, <2>6 DEF list, logged, size
  <1> QED BY <1>2, <1>8, <1>9

\* Writers and commands do not change what a thread came to last.
LEMMA BufferNextCameTo ==
    ASSUME Parts, BufferNext, delivered' = delivered
    PROVE  \A r \in Readers : CameTo(thread'[r], delivered'[r]) = LastRead(r)
  BY BufferNextWrites DEF LastRead, CameTo

\* Log() of the entry of writer w into log i: logged is what LogToLogBuffer() makes of
\* the log, of which MaybePrune() erases the n oldest chunks.
LogsEntry(w, i, entry, zsize, logged, n) ==
    /\ w \in DOMAIN pending /\ i = pending[w].log_id /\ entry = pending[w].entry
    /\ zsize \in ZSizes(chunk, logs[i], entry)
    /\ NeedsChunk(chunk, logs[i], entry) => CanAllocate(chunk)
    /\ logged = LogToLogBuffer(chunk, logs[i], max_size[i], entry, zsize)
    /\ n \in 0 .. Len(logged.list)
    /\ IsMaybePruneCount(n, logged.heap, logged.list, max_size[i])
    /\ chunk' = Free(logged.heap, Pruned(logged.list, n))
    /\ logs' = [logs EXCEPT ![i] = Unpruned(logged.list, n)]
    /\ state' = NotifyReadersOfPrune(i, logged.heap, Pruned(logged.list, n))
    /\ stats' = [stats EXCEPT ![i] =
          [RemoveChunksFromStats(AddToStats(@, entry), logged.heap, logged.list, n)
              EXCEPT !.overhead = SizeUsed(chunk', logs'[i], Len(logs'[i]))]]
    /\ pending' = [v \in (DOMAIN pending) \ {w} |-> pending[v]]

\* Log(), with its locals named.
LEMMA LogCases ==
    ASSUME NEW w, Log(w)
    PROVE  \E i, entry, zsize, logged, n : LogsEntry(w, i, entry, zsize, logged, n)
  BY Zenon DEF Log, LogsEntry

\* Log() and its MaybePrune().
LEMMA LogReadsOnce ==
    ASSUME Parts, ChunkInv, NumbersAreUnique, LastReadIsPassed,
           NEW w \in Writers, Log(w), delivered' = delivered
    PROVE  NumbersAreUnique' /\ LastReadIsPassed'
  <1>1. PICK i, entry, zsize, logged, n : LogsEntry(w, i, entry, zsize, logged, n)
    BY LogCases
  <1>2. /\ w \in DOMAIN pending /\ i = pending[w].log_id /\ entry = pending[w].entry
        /\ zsize \in ZSizes(chunk, logs[i], entry)
        /\ NeedsChunk(chunk, logs[i], entry) => CanAllocate(chunk)
        /\ logged = LogToLogBuffer(chunk, logs[i], max_size[i], entry, zsize)
    BY <1>1, Zenon DEF LogsEntry
  <1>3. i \in LogIds /\ entry \in Entry /\ w \in DOMAIN pending /\ entry = pending[w].entry
    BY <1>2 DEF Parts, WritersOK
  <1>4. /\ chunk' = Free(logged.heap, Pruned(logged.list, n))
        /\ logs' = [logs EXCEPT ![i] = Unpruned(logged.list, n)]
        /\ state' = NotifyReadersOfPrune(i, logged.heap, Pruned(logged.list, n))
        /\ pending' = [v \in (DOMAIN pending) \ {w} |-> pending[v]]
        /\ n \in 0 .. Len(logged.list)
    BY <1>1, Zenon DEF LogsEntry
  <1>5. ~Clearing /\ ~Clearing' /\ sequence' = sequence
    BY DEF Log, LockFree, Clearing
  <1>6. SoundlyLogged(i, logged)
    BY <1>3, <1>5, <1>2, LogIsSound DEF ChunkInv, PendingAreCut
  <1>7. PICK a, b : OldOrNew(logged.heap, {entry}, a, b)
    BY <1>3, <1>2, LogAddsOne
  <1>8. \A c, d : Precedes(logs[i], c, d) => Precedes(logged.list, c, d)
    BY <1>3, <1>2, LogAddsOne
  <1>9. BufferNext
    BY DEF BufferNext
  <1>10. \A r \in Readers : CameTo(thread'[r], delivered'[r]) = LastRead(r)
    BY <1>9, BufferNextCameTo
  <1> DEFINE P == Pruned(logged.list, n)
             list == Unpruned(logged.list, n)
  <1>11. PruneTo(i, logged, P, list)
    BY <1>4, <1>6, UnprunedElements DEF PruneTo, SoundlyLogged, Extends
  <1>12. \A c \in Elements(list) : \A d : Precedes(logs[i], c, d) => Precedes(list, c, d)
    BY <1>4, <1>6, <1>8, PrecedesUnpruned DEF SoundlyLogged, Extends
  <1>13. OldOrNew(chunk', {entry}, a, b)
    BY <1>4, <1>7, FreeOldOrNew
  <1>14. \A r \in Readers : \A e \in {entry} : e.sequence \notin LastRead(r)
    BY <1>3 DEF NumbersAreUnique, AreTaken
  <1> HIDE DEF P, list
  <1>15. LastReadIsPassed'
    BY <1>3, <1>5, <1>6, <1>10, <1>11, <1>12, <1>13, <1>14, PruneKeepsPassed
  <1>16. \A e \in {entry} : \E v \in (DOMAIN pending) \ DOMAIN pending' : e = pending[v].entry
    BY <1>3, <1>4
  <1>17. NumbersAreUnique'
    BY <1>4, <1>5, <1>10, <1>13, <1>16, NumbersStayUnique
  <1> QED BY <1>15, <1>17

\* A command that prunes.
LEMMA PruneReadsOnce ==
    ASSUME Parts, ChunkInv, NumbersAreUnique, LastReadIsPassed, ~Clearing',
           NEW i \in LogIds, NEW n \in 0 .. Len(logs[i]),
           chunk' = Free(chunk, Pruned(logs[i], n)),
           logs' = [logs EXCEPT ![i] = Unpruned(logs[i], n)],
           state' = NotifyReadersOfPrune(i, chunk, Pruned(logs[i], n)),
           BufferNext, UNCHANGED <<sequence, pending, delivered>>
    PROVE  NumbersAreUnique' /\ LastReadIsPassed'
  <1> DEFINE logged == [heap |-> chunk, list |-> logs[i]]
             P == Pruned(logs[i], n)
             list == Unpruned(logs[i], n)
  <1>1. ~Clearing
    BY DEF NumbersAreUnique
  <1>2. SoundlyLogged(i, logged)
    BY <1>1, NothingIsSound
  <1>3. logs[i] \in Seq(ChunkIds) /\ Distinct(logs[i])
    BY ListOfLog
  <1>4. PruneTo(i, logged, P, list)
    BY <1>3, UnprunedElements DEF PruneTo
  <1>5. \A c \in Elements(list) : \A d : Precedes(logs[i], c, d) => Precedes(list, c, d)
    BY <1>3, PrecedesUnpruned
  <1>6. OldOrNew(chunk', {}, 0, 0)
    <2>1. OldOrNew(chunk, {}, 0, 0)
      BY DEF OldOrNew
    <2> QED BY <2>1, FreeOldOrNew
  <1>7. \A r \in Readers : CameTo(thread'[r], delivered'[r]) = LastRead(r)
    BY BufferNextCameTo
  <1> HIDE DEF P, list, logged
  <1>8. LastReadIsPassed'
    BY <1>1, <1>2, <1>4, <1>5, <1>6, <1>7, PruneKeepsPassed
  <1>9. NumbersAreUnique'
    BY <1>6, <1>7, NumbersStayUnique
  <1> QED BY <1>8, <1>9

\* Writers and commands keep ReadOnce.
LEMMA BufferNextReadsOnce ==
    ASSUME Parts, ChunkInv, ReadOnce, BufferNext, delivered' = delivered
    PROVE  ReadOnce'
  <1> SUFFICES ASSUME commands'.uid_clears = 0
               PROVE  NumbersAreUnique' /\ LastReadIsPassed' /\ NotWrittenTwice'
    BY DEF ReadOnce
  <1>1. \A i, uid : ~UidClear(i, uid)
    <2> SUFFICES ASSUME NEW i, NEW uid, UidClear(i, uid) PROVE FALSE
      OBVIOUS
    <2>1. commands' = [commands EXCEPT !.uid_clears = @ + 1] /\ commands.uid_clears \in Nat
      BY DEF UidClear, Parts, CommandsOK
    <2> QED BY <2>1 DEF Parts, CommandsOK
  <1>2. ASSUME commands.uid_clears = 0
        PROVE  /\ ~Clearing /\ NumbersAreUnique /\ LastReadIsPassed /\ NotWrittenTwice
    BY <1>2 DEF ReadOnce, NumbersAreUnique
  <1>3. \A r \in Readers : CameTo(thread'[r], delivered'[r]) = LastRead(r)
    BY BufferNextCameTo
  <1>4. NotWrittenTwice => NotWrittenTwice'
    BY BufferNextWrites DEF NotWrittenTwice, LastOf
  <1>5. ASSUME NEW w \in Writers, TakeSequence(w)
        PROVE  NumbersAreUnique' /\ LastReadIsPassed' /\ NotWrittenTwice'
    <2>1. /\ UNCHANGED <<logd_lock, chunk, logs, commands, thread, state>>
          /\ sequence' = sequence + 1 /\ sequence \in Nat
          /\ commands.uid_clears = 0
      BY <1>5 DEF TakeSequence, Parts, WritersOK
    <2>2. NumbersAreUnique /\ LastReadIsPassed /\ NotWrittenTwice /\ ~Clearing'
      BY <1>2, <2>1 DEF Clearing
    <2>3. LastReadIsPassed'
      BY <1>3, <2>1, <2>2, PassedPrimed DEF LastReadIsPassed
    <2>4. PICK new : /\ new.entry.sequence = sequence
                     /\ pending' = [v \in (DOMAIN pending) \cup {w} |->
                                       IF v = w THEN new ELSE pending[v]]
      BY <1>5 DEF TakeSequence
    <2>5. ASSUME NEW N \in SUBSET Nat, AreTaken(N, pending, sequence)
          PROVE  AreTaken(N, pending', sequence')
      BY <2>1, <2>4, <2>5 DEF AreTaken
    <2>6. NumbersIn(chunk') = NumbersIn(chunk) /\ NumbersIn(chunk) \in SUBSET Nat
      <3>1. \A c \in DOMAIN chunk : chunk[c].entries \in Seq(Entry)
        BY DEF Parts, IsHeap, Chunk
      <3>2. ASSUME NEW c \in DOMAIN chunk, NEW k \in 1 .. Len(chunk[c].entries)
            PROVE  chunk[c].entries[k].sequence \in Nat
        <4>1. chunk[c].entries[k] \in Entry
          BY <3>1, ElementOfSeq
        <4> QED BY <4>1 DEF Entry
      <3> QED BY <2>1, <3>2 DEF NumbersIn
    <2>7. \A r \in Readers : LastRead(r) \in SUBSET Nat
      <3> SUFFICES ASSUME NEW r \in Readers PROVE LastRead(r) \in SUBSET Nat
        OBVIOUS
      <3>1. thread[r] \in Thread /\ delivered[r] \in Seq(Nat)
        BY DEF Parts, ThreadsOK, HistoryOK
      <3>2. thread[r].out \in Nat
        BY <3>1 DEF Thread
      <3>3. delivered[r] # << >> => Len(delivered[r]) \in 1 .. Len(delivered[r])
        BY <3>1, LenProperties, EmptySeq
      <3>4. delivered[r] # << >> => LastOf(delivered[r]) \in Nat
        BY <3>1, <3>3, ElementOfSeq DEF LastOf
      <3> QED BY <3>2, <3>4 DEF LastRead, CameTo
    <2>8. PendingDiffer(pending', sequence')
      <3>1. \A v \in DOMAIN pending : pending[v].entry.sequence \in Nat
        BY DEF Parts, WritersOK, Entry
      <3> QED BY <2>1, <2>2, <2>4, <3>1 DEF NumbersAreUnique, PendingDiffer
    <2>9. NumbersAreUnique'
      <3>1. AreTaken(NumbersIn(chunk'), pending', sequence')
        BY <2>2, <2>5, <2>6 DEF NumbersAreUnique
      <3>2. \A r \in Readers : AreTaken(CameTo(thread'[r], delivered'[r]), pending', sequence')
        BY <1>3, <2>2, <2>5, <2>7 DEF NumbersAreUnique
      <3>3. EntriesDiffer(chunk')
        BY <2>1, <2>2 DEF NumbersAreUnique
      <3> QED BY <2>2, <2>8, <3>1, <3>2, <3>3, NumbersPrimed
    <2> QED BY <1>4, <2>2, <2>3, <2>9
  <1>6. ASSUME NEW w \in Writers, Log(w)
        PROVE  NumbersAreUnique' /\ LastReadIsPassed' /\ NotWrittenTwice'
    <2>1. commands' = commands
      BY <1>6 DEF Log
    <2> QED BY <1>2, <1>4, <1>6, <2>1, LogReadsOnce
  <1>7. ASSUME NEW i \in LogIds, ClearAll(i)
        PROVE  NumbersAreUnique' /\ LastReadIsPassed' /\ NotWrittenTwice'
    <2>1. commands.uid_clears = 0 /\ ~Clearing'
      BY <1>7 DEF ClearAll, Parts, CommandsOK, LockFree, Clearing
    <2>2. /\ Len(logs[i]) \in 0 .. Len(logs[i])
          /\ Pruned(logs[i], Len(logs[i])) = Elements(logs[i])
          /\ Unpruned(logs[i], Len(logs[i])) = << >>
      <3>1. logs[i] \in Seq(ChunkIds) /\ Len(logs[i]) \in Nat
        BY ListOfLog, LenProperties
      <3>2. SubSeq(logs[i], Len(logs[i]) + 1, Len(logs[i])) = << >>
        BY <3>1
      <3> QED BY <3>1, <3>2 DEF Pruned, Unpruned, Elements
    <2>3. UNCHANGED <<sequence, pending>> /\ chunk' = Free(chunk, Elements(logs[i]))
          /\ logs' = [logs EXCEPT ![i] = << >>]
          /\ state' = NotifyReadersOfPrune(i, chunk, Elements(logs[i]))
      BY <1>7 DEF ClearAll
    <2> QED BY <1>2, <1>4, <2>1, <2>2, <2>3, PruneReadsOnce
  <1>8. ASSUME NEW i \in LogIds, NEW size \in Sizes, SetSize(i, size)
        PROVE  NumbersAreUnique' /\ LastReadIsPassed' /\ NotWrittenTwice'
    <2>1. commands.uid_clears = 0 /\ ~Clearing'
      BY <1>8 DEF SetSize, Parts, CommandsOK, LockFree, Clearing
    <2>2. PICK n \in 0 .. Len(logs[i]) :
              /\ chunk' = Free(chunk, Pruned(logs[i], n))
              /\ logs' = [logs EXCEPT ![i] = Unpruned(logs[i], n)]
              /\ state' = NotifyReadersOfPrune(i, chunk, Pruned(logs[i], n))
      BY <1>8 DEF SetSize
    <2>3. UNCHANGED <<sequence, pending>>
      BY <1>8 DEF SetSize
    <2> QED BY <1>2, <1>4, <2>1, <2>2, <2>3, PruneReadsOnce
  <1>9. CASE ReinitTrigger
    <2>1. /\ commands.uid_clears = 0
          /\ UNCHANGED <<logd_lock, chunk, logs, sequence, pending, state>>
      BY <1>9 DEF ReinitTrigger, Parts, CommandsOK
    <2>2. NumbersAreUnique /\ LastReadIsPassed /\ NotWrittenTwice /\ ~Clearing'
      BY <1>2, <2>1 DEF Clearing
    <2>3. LastReadIsPassed'
      BY <1>3, <2>1, <2>2, PassedPrimed DEF LastReadIsPassed
    <2>4. NumbersAreUnique'
      BY <1>3, <2>1, <2>2, NumbersPrimed DEF NumbersAreUnique
    <2> QED BY <1>4, <2>2, <2>3, <2>4
  <1>10. ~ClearStep
    <2> SUFFICES ASSUME ClearStep PROVE FALSE
      OBVIOUS
    <2>1. CASE ClearSpliceChunk \/ ClearOpenChunk \/ ClearEraseChunk \/ ClearSwap
      BY <1>2, <2>1 DEF ClearSpliceChunk, ClearOpenChunk, ClearEraseChunk, ClearSwap, Clearing
    <2>2. CASE ClearEntry
      <3>1. commands' = commands /\ logd_lock = {"command"}
        BY <2>2, Zenon DEF ClearEntry
      <3> QED BY <1>2, <3>1 DEF Clearing
    <2> QED BY <2>1, <2>2 DEF ClearStep
  <1> QED BY <1>1, <1>5, <1>6, <1>7, <1>8, <1>9, <1>10 DEF BufferNext

\* The steps of a thread leave the numbers alone: what it comes to is in the buffer.
LEMMA StepKeepsNumbers ==
    ASSUME NumbersAreUnique, NEW r \in Readers, Frame(r), Parts,
           NEW N, N \subseteq NumbersIn(chunk),
           CameTo(thread'[r], delivered'[r]) \subseteq LastRead(r) \cup N
    PROVE  NumbersAreUnique'
  <1>1. /\ ~Clearing' /\ sequence' = sequence /\ pending' = pending
        /\ DOMAIN chunk' = DOMAIN chunk
        /\ \A c \in DOMAIN chunk : chunk'[c].entries = chunk[c].entries
    BY DEF Frame, NumbersAreUnique, SameEntries, HoldsTheSame
  <1>2. NumbersIn(chunk') = NumbersIn(chunk)
    BY <1>1 DEF NumbersIn
  <1>3. EntriesDiffer(chunk')
    BY <1>1 DEF EntriesDiffer, NumbersAreUnique
  <1>4. ASSUME NEW q \in Readers
        PROVE  AreTaken(CameTo(thread'[q], delivered'[q]), pending', sequence')
    <2>1. CASE q = r
      BY <1>1, <2>1 DEF NumbersAreUnique, AreTaken
    <2>2. CASE q # r
      <3>1. thread'[q] = thread[q] /\ delivered'[q] = delivered[q]
        BY <2>2, BecomesOnly DEF Frame
      <3> QED BY <1>1, <3>1 DEF NumbersAreUnique, LastRead
    <2> QED BY <2>1, <2>2
  <1>5. PendingDiffer(pending', sequence') /\ AreTaken(NumbersIn(chunk'), pending', sequence')
    BY <1>1, <1>2 DEF NumbersAreUnique
  <1> QED BY <1>1, <1>3, <1>4, <1>5, NumbersPrimed

\* Nor do they unpass an entry for another thread.
LEMMA StepKeepsPassed ==
    ASSUME Parts, LastReadIsPassed, NEW r \in Readers, Frame(r),
           Main(r) \in DOMAIN state' =>
              Passed(CameTo(thread'[r], delivered'[r]), state'[Main(r)].log_positions, logs, chunk)
    PROVE  LastReadIsPassed'
  <1>1. /\ logs' = logs /\ DOMAIN chunk' = DOMAIN chunk
        /\ \A c \in DOMAIN chunk : chunk'[c].entries = chunk[c].entries
    BY DEF Frame, SameEntries, HoldsTheSame
  <1>2. \A i \in LogIds : Elements(logs[i]) \subseteq DOMAIN chunk
    BY DEF Parts, ListsAreDisjoint
  <1>3. \A L, P : Passed(L, P, logs, chunk) => Passed(L, P, logs', chunk')
    BY <1>1, <1>2 DEF Passed
  <1>4. ASSUME NEW q \in Readers, Main(q) \in DOMAIN state'
        PROVE  Passed(CameTo(thread'[q], delivered'[q]), state'[Main(q)].log_positions, logs, chunk)
    <2>1. CASE q = r
      BY <1>4, <2>1
    <2>2. CASE q # r
      <3>1. thread'[q] = thread[q] /\ delivered'[q] = delivered[q]
        BY <2>2, BecomesOnly DEF Frame
      <3>2. Main(q) \in DOMAIN state /\ state'[Main(q)] = state[Main(q)]
        BY <1>4, <2>2 DEF Frame, OthersKeepStates
      <3> QED BY <3>1, <3>2 DEF LastReadIsPassed, LastRead
    <2> QED BY <2>1, <2>2
  <1> QED BY <1>3, <1>4, PassedPrimed

\* A position that moves on is still behind what it was behind.
LEMMA MovesOnPasses ==
    ASSUME Parts, NEW r \in Readers, MovesOn(r), Main(r) \in DOMAIN state,
           NEW L, Passed(L, state[Main(r)].log_positions, logs, chunk)
    PROVE  Passed(L, state'[Main(r)].log_positions, logs, chunk)
  <1> DEFINE s == Main(r)
             old == state[s].log_positions
  <1>1. PICK i, pos, new :
            i \in LogIds /\ Moves(s, i, pos, new) /\ (i \in DOMAIN old => pos = old[i])
    BY DEF MovesOn
  <1>2. state'[s] = new
    BY <1>1 DEF Moves
  <1>3. /\ DOMAIN new.log_positions = (DOMAIN old) \cup {i}
        /\ \A j \in (DOMAIN old) \ {i} : new.log_positions[j] = old[j]
        /\ \/ new.log_positions[i] = pos
           \/ \E k \in 1 .. Len(logs[i]) - 1 :
                 /\ pos.buffer_it = logs[i][k]
                 /\ new.log_positions[i].buffer_it = logs[i][k + 1]
    BY <1>1 DEF Moves
  <1>4. logs[i] \in Seq(ChunkIds) /\ Distinct(logs[i])
    BY <1>1, ListOfLog
  <1> HIDE DEF s, old
  <1> SUFFICES ASSUME NEW j \in LogIds, NEW c \in Elements(logs[j]),
                      NEW k \in 1 .. Len(chunk[c].entries), chunk[c].entries[k].sequence \in L
               PROVE  /\ j \in DOMAIN new.log_positions
                      /\ HasPassed(new.log_positions[j], logs[j], c, k)
    BY <1>2 DEF Passed, s
  <1>5. j \in DOMAIN old /\ HasPassed(old[j], logs[j], c, k)
    BY DEF Passed, old, s
  <1>6. CASE j = i
    <2>1. pos = old[i]
      BY <1>1, <1>5, <1>6
    <2>2. CASE new.log_positions[i] = pos
      BY <1>3, <1>5, <1>6, <2>1, <2>2
    <2>3. ASSUME NEW m \in 1 .. Len(logs[i]) - 1, pos.buffer_it = logs[i][m],
                 new.log_positions[i].buffer_it = logs[i][m + 1]
          PROVE  Precedes(logs[i], c, new.log_positions[i].buffer_it)
      <3>1. c = logs[i][m] \/ Precedes(logs[i], c, logs[i][m])
        BY <1>5, <1>6, <2>1, <2>3 DEF HasPassed
      <3> QED BY <1>4, <2>3, <3>1, PrecedesNext
    <2> QED BY <1>3, <1>6, <2>2, <2>3 DEF HasPassed
  <1>7. CASE j # i
    BY <1>3, <1>5, <1>7
  <1> QED BY <1>6, <1>7

\* What FlushTo() comes to is behind it then, and it has not come to it before.
LEMMA FlushPasses ==
    ASSUME Parts, NumbersAreUnique, LastReadIsPassed, NEW r \in Readers, Flushes(r)
    PROVE  /\ \E n \in NumbersIn(chunk) :
                 /\ n \notin LastRead(r)
                 /\ delivered'[r] = delivered[r]
                 /\ thread'[r].pc = "write" => thread'[r].out = n
                 /\ Passed(LastRead(r) \cup {n}, state'[Main(r)].log_positions, logs, chunk)
           /\ thread[r].pc # "write"
  <1> DEFINE s == Main(r)
             old == state[s].log_positions
             new == state'[s].log_positions
  <1>1. /\ thread[r].pc = "flush" /\ thread[r].pass = "second"
        /\ \E i, entry, result, u : FlushesEntry(r, i, entry, result, u)
    BY DEF Flushes
  <1>2. PICK i, entry, result, u : FlushesEntry(r, i, entry, result, u)
    BY <1>1
  <1> DEFINE pos == old[i]
  <1>3. /\ s \in DOMAIN state /\ delivered'[r] = delivered[r]
        /\ thread'[r].pc = "write" => thread'[r].out = entry.sequence
        /\ DOMAIN new = DOMAIN old /\ i \in DOMAIN old
        /\ new[i].buffer_it = pos.buffer_it /\ new[i].read_offset = pos.read_offset + 1
        /\ entry = EntryAt(pos, chunk)
        /\ \A j \in (DOMAIN old) \ {i} : new[j] = old[j]
    BY <1>1, <1>2, FlushedState
  <1>4. i \in UnreadLogs(state[Current(r)]) /\ Current(r) = s
    <2>1. i \in UnreadLogs(state[Current(r)])
      BY <1>2, Zenon DEF FlushesEntry
    <2> QED BY <1>1, <2>1 DEF Current
  <1> DEFINE c == pos.buffer_it
             k == pos.read_offset + 1
  <1>5. /\ i \in LogIds /\ pos \in Position /\ c \in Elements(logs[i]) /\ c \in DOMAIN chunk
        /\ k \in 1 .. Len(chunk[c].entries)
    BY <1>1, <1>4, UnreadEntry
  <1>6. pos.read_offset \in Nat
    BY <1>5 DEF Position
  <1>7. entry = chunk[c].entries[k]
    <2>1. EntryAt(pos, chunk) = chunk[c].entries[k]
      BY Zenon DEF EntryAt
    <2> HIDE DEF pos, c, k
    <2> QED BY <1>3, <2>1
  <1>8. logs[i] \in Seq(ChunkIds) /\ Distinct(logs[i])
    BY <1>5, ListOfLog
  <1>9. Passed(LastRead(r), old, logs, chunk)
    BY <1>3 DEF LastReadIsPassed
  <1>10. \A d \in DOMAIN chunk : \A m \in 1 .. Len(chunk[d].entries) :
            chunk[d].entries[m].sequence = entry.sequence => d = c /\ m = k
    <2> HIDE DEF pos, c, k
    <2> QED BY <1>5, <1>7 DEF NumbersAreUnique, EntriesDiffer
  <1>11. entry.sequence \in NumbersIn(chunk)
    <2> HIDE DEF pos, c, k
    <2> QED BY <1>5, <1>7 DEF NumbersIn
  <1> HIDE DEF s, old, new, pos, c, k
  <1>12. entry.sequence \notin LastRead(r)
    <2> SUFFICES ASSUME entry.sequence \in LastRead(r) PROVE FALSE
      OBVIOUS
    <2>1. HasPassed(pos, logs[i], c, k)
      BY <1>5, <1>7, <1>9 DEF Passed, pos
    <2>2. k <= pos.read_offset \/ Precedes(logs[i], c, c)
      BY <2>1 DEF HasPassed, c
    <2>3. ~(k <= pos.read_offset)
      BY <1>6 DEF k
    <2> QED BY <1>8, <2>2, <2>3, PrecedesElements
  <1>13. Passed(LastRead(r) \cup {entry.sequence}, new, logs, chunk)
    <2> SUFFICES ASSUME NEW j \in LogIds, NEW d \in Elements(logs[j]),
                        NEW m \in 1 .. Len(chunk[d].entries),
                        chunk[d].entries[m].sequence \in LastRead(r) \cup {entry.sequence}
                 PROVE  j \in DOMAIN new /\ HasPassed(new[j], logs[j], d, m)
      BY DEF Passed
    <2>1. d \in DOMAIN chunk
      BY DEF Parts, ListsAreDisjoint
    <2>2. CASE chunk[d].entries[m].sequence = entry.sequence
      <3>1. d = c /\ m = k
        BY <1>10, <2>1, <2>2
      <3>2. j = i
        BY <1>5, <3>1 DEF Parts, ListsAreDisjoint
      <3>3. k <= new[i].read_offset
        BY <1>3, <1>6 DEF k
      <3> QED BY <1>3, <3>1, <3>2, <3>3 DEF HasPassed, c
    <2>3. CASE chunk[d].entries[m].sequence \in LastRead(r)
      <3>1. j \in DOMAIN old /\ HasPassed(old[j], logs[j], d, m)
        BY <1>9, <2>3 DEF Passed
      <3>2. CASE j = i
        <4>1. m <= pos.read_offset => m <= new[i].read_offset
          BY <1>3, <1>6
        <4> QED BY <1>3, <3>1, <3>2, <4>1 DEF HasPassed, pos
      <3>3. CASE j # i
        BY <1>3, <3>1, <3>3
      <3> QED BY <3>2, <3>3
    <2> QED BY <2>2, <2>3
  <1>14. thread[r].pc # "write"
    BY <1>1
  <1> QED BY <1>3, <1>11, <1>12, <1>13, <1>14 DEF new, s

\* The steps of a thread keep ReadOnce.
LEMMA StepReadsOnce ==
    ASSUME Parts, StartFollows, ReadOnce, NEW r \in Readers, StepOf(r)
    PROVE  ReadOnce'
  <1>1. Frame(r) /\ (Rests(r) \/ MovesOn(r) \/ Flushes(r) \/ WriteSucceeds(r))
    BY StepEffect
  <1> SUFFICES ASSUME NumbersAreUnique, LastReadIsPassed, NotWrittenTwice
               PROVE  NumbersAreUnique' /\ LastReadIsPassed' /\ NotWrittenTwice'
    BY <1>1 DEF ReadOnce, Frame
  <1> DEFINE L == CameTo(thread'[r], delivered'[r])
  <1>2. LastRead(r) = CameTo(thread[r], delivered[r])
    BY DEF LastRead
  <1>3. Main(r) \in DOMAIN state => Passed(LastRead(r), state[Main(r)].log_positions, logs, chunk)
    BY DEF LastReadIsPassed
  <1>4. \A N, M, P : N \subseteq M /\ Passed(M, P, logs, chunk) => Passed(N, P, logs, chunk)
    BY DEF Passed
  <1>5. \A q \in Readers \ {r} : thread'[q] = thread[q] /\ delivered'[q] = delivered[q]
    BY <1>1, BecomesOnly DEF Frame
  <1>6. ASSUME thread'[r].pc = "write" /\ delivered'[r] # << >> =>
                   thread'[r].out # LastOf(delivered'[r])
        PROVE  NotWrittenTwice'
    BY <1>5, <1>6 DEF NotWrittenTwice, LastOf
  <1>7. ASSUME L \subseteq LastRead(r)
        PROVE  NumbersAreUnique'
    BY <1>1, <1>7, StepKeepsNumbers
  <1>8. ASSUME Main(r) \in DOMAIN state' => Passed(L, state'[Main(r)].log_positions, logs, chunk)
        PROVE  LastReadIsPassed'
    BY <1>1, <1>8, StepKeepsPassed
  <1>9. CASE Rests(r)
    <2>1. L \subseteq LastRead(r)
      BY <1>2, <1>9 DEF CameTo, Rests
    <2>2. ASSUME Main(r) \in DOMAIN state'
          PROVE  Passed(L, state'[Main(r)].log_positions, logs, chunk)
      <3>1. CASE IsUncreated(thread[r])
        <4>1. delivered[r] = << >> /\ thread[r].pc # "write"
          BY <3>1 DEF StartFollows, IsUncreated
        <4>2. L = {}
          BY <1>9, <4>1 DEF CameTo, Rests
        <4> QED BY <4>2 DEF Passed
      <3>2. CASE ~IsUncreated(thread[r])
        <4>1. /\ Main(r) \in DOMAIN state
              /\ state'[Main(r)].log_positions = state[Main(r)].log_positions
          BY <1>9, <2>2, <3>2 DEF Rests
        <4> QED BY <1>3, <1>4, <2>1, <4>1
      <3> QED BY <3>1, <3>2
    <2>3. NotWrittenTwice'
      BY <1>6, <1>9 DEF Rests, NotWrittenTwice
    <2> QED BY <1>7, <1>8, <2>1, <2>2, <2>3
  <1>10. CASE MovesOn(r)
    <2>1. /\ delivered'[r] = delivered[r]
          /\ thread[r].pc = "flush" /\ thread'[r].pc = "flush" /\ thread[r].pass = "second"
      BY <1>10 DEF MovesOn
    <2>2. Main(r) \in DOMAIN state
      BY <2>1, ThreadHas DEF NeedsMain
    <2>3. L = LastRead(r)
      BY <1>2, <2>1 DEF CameTo
    <2>4. Passed(L, state'[Main(r)].log_positions, logs, chunk)
      BY <1>3, <1>10, <2>2, <2>3, MovesOnPasses
    <2> QED BY <1>6, <1>7, <1>8, <2>1, <2>3, <2>4
  <1>11. CASE Flushes(r)
    <2>1. PICK n \in NumbersIn(chunk) :
              /\ n \notin LastRead(r)
              /\ delivered'[r] = delivered[r]
              /\ thread'[r].pc = "write" => thread'[r].out = n
              /\ Passed(LastRead(r) \cup {n}, state'[Main(r)].log_positions, logs, chunk)
      BY <1>11, FlushPasses
    <2>2. L \subseteq LastRead(r) \cup {n}
      BY <1>2, <2>1 DEF CameTo
    <2>3. NumbersAreUnique'
      BY <1>1, <2>2, StepKeepsNumbers
    <2>4. LastReadIsPassed'
      BY <1>4, <1>8, <2>1, <2>2
    <2>5. NotWrittenTwice'
      BY <1>2, <1>6, <2>1 DEF CameTo
    <2> QED BY <2>3, <2>4, <2>5
  <1>12. CASE WriteSucceeds(r)
    <2> DEFINE t == thread[r]
               d == delivered[r]
               u == [t EXCEPT !.pc = "flush", !.log_id = 0, !.out = 0]
    <2>1. t.pc = "write" /\ state' = state /\ Becomes(r, u, Append(d, t.out))
      BY <1>12 DEF WriteSucceeds, Becomes
    <2>2. t \in Thread /\ d \in Seq(Nat)
      BY DEF Parts, ThreadsOK, HistoryOK
    <2>3. u.pc = "flush" /\ t.out \in Nat
      BY <2>2 DEF Thread
    <2> HIDE DEF u
    <2>4. thread'[r] = u /\ delivered'[r] = Append(d, t.out)
      BY <2>1, BecomesOnly
    <2>5. Append(d, t.out) # << >> /\ LastOf(Append(d, t.out)) = t.out
      BY <2>2, <2>3, AppendOne
    <2>6. L = {t.out} /\ L \subseteq LastRead(r)
      BY <1>2, <2>1, <2>3, <2>4, <2>5 DEF CameTo
    <2>7. Main(r) \in DOMAIN state' => Passed(L, state'[Main(r)].log_positions, logs, chunk)
      BY <1>3, <1>4, <2>1, <2>6
    <2> QED BY <1>6, <1>7, <1>8, <2>3, <2>4, <2>6, <2>7
  <1> QED BY <1>1, <1>9, <1>10, <1>11, <1>12

\* No entry is sent twice in a row.
NeverRepeats(d) == \A k \in 1 .. Len(d) - 1 : d[k] # d[k + 1]

NoneRepeats == commands.uid_clears = 0 => \A r \in Readers : NeverRepeats(delivered[r])

\* What is not written twice is not delivered twice.
LEMMA StepNeverRepeats ==
    ASSUME Parts, ReadOnce, NoneRepeats, NEW r \in Readers, StepOf(r)
    PROVE  NoneRepeats'
  <1>1. Frame(r) /\ (Rests(r) \/ MovesOn(r) \/ Flushes(r) \/ WriteSucceeds(r))
    BY StepEffect
  <1> SUFFICES ASSUME NotWrittenTwice, \A q \in Readers : NeverRepeats(delivered[q]),
                      NEW q \in Readers
               PROVE  NeverRepeats(delivered'[q])
    BY <1>1 DEF ReadOnce, Frame, NoneRepeats, NeverRepeats
  <1>2. CASE q # r
    BY <1>1, <1>2, BecomesOnly DEF Frame
  <1>3. CASE q = r /\ (Rests(r) \/ MovesOn(r))
    BY <1>3 DEF Rests, MovesOn
  <1>4. CASE q = r /\ Flushes(r)
    <2>1. delivered'[r] = delivered[r]
      BY <1>4, FlushedState DEF Flushes
    <2> QED BY <1>4, <2>1
  <1>5. CASE q = r /\ WriteSucceeds(r)
    <2> DEFINE t == thread[r]
               d == delivered[r]
    <2>1. t.pc = "write" /\ delivered' = [delivered EXCEPT ![r] = Append(d, t.out)]
      BY <1>5 DEF WriteSucceeds
    <2>2. t.out \in Nat /\ d \in Seq(Nat) /\ delivered \in [Readers -> Seq(Nat)]
      BY DEF Parts, ThreadsOK, HistoryOK, Thread
    <2>3. d # << >> => LastOf(d) # t.out
      BY <2>1 DEF NotWrittenTwice
    <2>4. NeverRepeats(d) /\ delivered'[r] = Append(d, t.out)
      BY <2>1, <2>2
    <2>5. NeverRepeats(Append(d, t.out))
      BY <2>2, <2>3, <2>4, AppendOne DEF NeverRepeats
    <2> QED BY <1>5, <2>4, <2>5
  <1> QED BY <1>1, <1>2, <1>3, <1>4, <1>5

-----------------------------------------------------------------------------
(***************************************************************************)
(* Every step                                                               *)
(***************************************************************************)
OrderInv == StartFollows /\ ReadOnce /\ NoneGoesBack /\ NoneRepeats

\* Every step of logd keeps the order in which the clients receive.
LEMMA NextOrder ==
    ASSUME BufferInv, OrderInv, [Next]_vars
    PROVE  OrderInv'
  <1>1. Parts /\ ChunkInv
    BY PartsOfIInv DEF BufferInv
  <1>2. StartFollows' /\ NoneGoesBack'
    BY <1>1, NextFollows DEF OrderInv
  <1>3. CASE BufferNext /\ UNCHANGED delivered
    <2>1. ReadOnce'
      BY <1>1, <1>3, BufferNextReadsOnce DEF OrderInv
    <2>2. commands'.uid_clears = 0 => commands.uid_clears = 0
      <3>1. \/ commands' = commands
            \/ \E n : commands' = [commands EXCEPT !.set_sizes = n]
            \/ \E n : commands' = [commands EXCEPT !.reinits = n]
            \/ \E n : commands' = [commands EXCEPT !.clears = n]
            \/ commands' = [commands EXCEPT !.uid_clears = @ + 1]
        <4>1. CASE ClearStep
          <5>1. CASE ClearEntry
            BY <5>1, Zenon DEF ClearEntry
          <5> QED BY <4>1, <5>1 DEF ClearStep, ClearSpliceChunk, ClearOpenChunk,
                                    ClearEraseChunk, ClearSwap
        <4>2. ASSUME NEW w, Log(w) PROVE commands' = commands
          BY <4>2, Zenon DEF Log
        <4>3. ASSUME NEW w, TakeSequence(w) PROVE commands' = commands
          BY <4>3, Zenon DEF TakeSequence
        <4>4. ASSUME NEW i, ClearAll(i)
              PROVE  \E n : commands' = [commands EXCEPT !.clears = n]
          BY <4>4, Zenon DEF ClearAll
        <4>5. ASSUME NEW i, NEW size, SetSize(i, size)
              PROVE  \E n : commands' = [commands EXCEPT !.set_sizes = n]
          BY <4>5, Zenon DEF SetSize
        <4>6. ASSUME NEW i, NEW uid, UidClear(i, uid)
              PROVE  commands' = [commands EXCEPT !.uid_clears = @ + 1]
          BY <4>6, Zenon DEF UidClear
        <4>7. ASSUME ReinitTrigger
              PROVE  \E n : commands' = [commands EXCEPT !.reinits = n]
          BY <4>7, Zenon DEF ReinitTrigger
        <4> QED BY <1>3, <4>1, <4>2, <4>3, <4>4, <4>5, <4>6, <4>7 DEF BufferNext
      <3>2. commands \in [set_sizes : Nat, reinits : Nat, clears : Nat, uid_clears : Nat]
        BY <1>1 DEF Parts, CommandsOK
      <3>3. commands.uid_clears + 1 # 0
        BY <3>2
      <3> QED BY <3>1, <3>2, <3>3
    <2>3. NoneRepeats'
      BY <1>3, <2>2 DEF OrderInv, NoneRepeats, NeverRepeats
    <2> QED BY <1>2, <2>1, <2>3 DEF OrderInv
  <1>4. ASSUME NEW r \in Readers, StepOf(r)
        PROVE  ReadOnce' /\ NoneRepeats'
    BY <1>1, <1>4, StepReadsOnce, StepNeverRepeats DEF OrderInv
  <1>5. CASE UNCHANGED vars
    <2>1. ReadOnce'
      <3>1. /\ UNCHANGED <<thread, state, logd_lock, chunk, logs>>
            /\ UNCHANGED <<sequence, pending, commands, delivered>>
        BY <1>5 DEF vars
      <3>2. \A r \in Readers : CameTo(thread'[r], delivered'[r]) = LastRead(r)
        BY <3>1 DEF LastRead
      <3> SUFFICES ASSUME NumbersAreUnique, LastReadIsPassed, NotWrittenTwice
                   PROVE  NumbersAreUnique' /\ LastReadIsPassed' /\ NotWrittenTwice'
        BY <3>1 DEF OrderInv, ReadOnce
      <3>3. ~Clearing'
        BY <3>1 DEF NumbersAreUnique, Clearing
      <3>4. NumbersAreUnique'
        BY <3>1, <3>2, <3>3, NumbersPrimed DEF NumbersAreUnique
      <3>5. LastReadIsPassed'
        BY <3>1, <3>2, PassedPrimed DEF LastReadIsPassed
      <3>6. NotWrittenTwice'
        BY <3>1 DEF NotWrittenTwice, LastOf
      <3> QED BY <3>4, <3>5, <3>6
    <2>2. NoneRepeats'
      BY <1>5 DEF vars, OrderInv, NoneRepeats, NeverRepeats
    <2> QED BY <1>2, <2>1, <2>2 DEF OrderInv
  <1> QED BY <1>2, <1>3, <1>4, <1>5 DEF Next, StepOf, OrderInv

\* No client was sent anything, and nothing is logged.
LEMMA InitOrder == Init => OrderInv
  <1> SUFFICES ASSUME Init PROVE OrderInv
    OBVIOUS
  <1>1. /\ logd_lock = {} /\ DOMAIN chunk = {} /\ DOMAIN pending = {} /\ DOMAIN state = {}
        /\ sequence = 1
    BY DEF Init, BufferInit
  <1>2. ASSUME NEW r \in Readers
        PROVE  LastRead(r) = {} /\ delivered[r] = << >> /\ thread[r].pc = "idle"
    <2>1. thread[r] = NewThread(NoRequest, "idle") /\ delivered[r] = << >>
      BY <1>2 DEF Init
    <2>2. thread[r].pc = "idle"
      BY <2>1 DEF NewThread
    <2> QED BY <2>1, <2>2 DEF LastRead, CameTo
  <1>3. NumbersAreUnique
    BY <1>1, <1>2 DEF NumbersAreUnique, Clearing, PendingDiffer, AreTaken, NumbersIn, EntriesDiffer
  <1>4. LastReadIsPassed /\ NotWrittenTwice
    BY <1>1, <1>2 DEF LastReadIsPassed, NotWrittenTwice
  <1>5. NoneRepeats
    BY <1>2 DEF NoneRepeats, NeverRepeats
  <1> QED BY <1>3, <1>4, <1>5, InitFollows DEF OrderInv, ReadOnce

(***************************************************************************)
(* BufferInv, the counts of the tails, the starts and the positions of the  *)
(* readers hold in every state of logd: together with the order of what     *)
(* was sent they are inductive.                                             *)
(***************************************************************************)
THEOREM LogdInvariant == Spec => []LogdInv
  <1>1. Init => LogdInv
    BY InitBufferInv, InitTails, InitOrder DEF LogdInv, OrderInv
  <1> DEFINE Inv == LogdInv /\ NoneGoesBack /\ NoneRepeats
  <1>2. Init => Inv
    BY <1>1, InitOrder DEF OrderInv
  <1>3. Inv /\ [Next]_vars => Inv'
    BY NextBufferInv, NextTails, NextOrder, PartsOfIInv DEF LogdInv, OrderInv, BufferInv
  <1>4. Inv => LogdInv
    OBVIOUS
  <1> HIDE DEF Inv
  <1> QED BY <1>2, <1>3, <1>4, PTL DEF Spec

(***************************************************************************)
(* A client receives the entries in the order of their numbers, and none    *)
(* twice in a row unless the log of a uid was cleared.                      *)
(***************************************************************************)
THEOREM DeliveredStayInOrder == Spec => []DeliveredInOrder
  <1> DEFINE Inv == BufferInv /\ OrderInv
  <1>1. Init => Inv
    BY InitBufferInv, InitOrder
  <1>2. Inv /\ [Next]_vars => Inv'
    BY NextBufferInv, NextOrder
  <1>3. Inv => DeliveredInOrder
    BY DEF OrderInv, NoneGoesBack, NoneRepeats, NeverBack, NeverRepeats, DeliveredInOrder
  <1> HIDE DEF Inv
  <1> QED BY <1>1, <1>2, <1>3, PTL DEF Spec

-----------------------------------------------------------------------------
(***************************************************************************)
(* The order of the entries in a log                                        *)
(***************************************************************************)

\* The step logs no entry below one that its log already has: nobody overtakes a
\* writer between its fetch_add on sequence_ and logd_lock, on the way to the same log.
LogsInOrder ==
    \A w \in DOMAIN pending : w \notin DOMAIN pending' =>
        \A entry \in EntriesOf(pending[w].log_id) : entry.sequence < pending[w].entry.sequence

\* The numbers in the chunk c ascend, to its highest_sequence_number.
IsAscending(c) ==
    /\ \A k \in 1 .. Len(c.entries) : c.entries[k].sequence <= c.highest_sequence_number
    /\ \A k, m \in 1 .. Len(c.entries) : k < m => c.entries[k].sequence < c.entries[m].sequence

\* A chunk that is written takes any entry as its first.
IsRoomy(c) ==
    /\ c.entries = << >> => c.write_offset = 0
    /\ c.writer_active => SIZEOF_ENTRY + LOGGER_ENTRY_MAX_PAYLOAD <= c.contents

AreRoomy(heap) == \A c \in DOMAIN heap : IsRoomy(heap[c])

IsBelow(c, d) ==
    \A k \in 1 .. Len(c.entries), m \in 1 .. Len(d.entries) :
        c.entries[k].sequence < d.entries[m].sequence

\* The numbers in the list ascend, and only its last chunk may be empty.
Sorted(list, heap) ==
    /\ \A c \in Elements(list) : IsAscending(heap[c])
    /\ \A c, d : Precedes(list, c, d) => heap[c].entries # << >> /\ IsBelow(heap[c], heap[d])

\* ClearLogsByUid(), at entry n of the first chunk of the list: what it has copied is
\* sorted, and below what it has not visited.
CopiesAreSorted(heap, list, copied, started, n) ==
    /\ Sorted(copied, heap)
    /\ list # << >> /\ ~started => \A c \in Elements(copied) : heap[c].entries # << >>
    /\ \A c \in Elements(copied), d \in Elements(list) :
          \A k \in 1 .. Len(heap[c].entries), m \in 1 .. Len(heap[d].entries) :
             (n # 0 /\ d = Head(list) => n <= m) =>
                heap[c].entries[k].sequence < heap[d].entries[m].sequence

SortedInv ==
    /\ AreRoomy(chunk)
    /\ \A i \in LogIds : Sorted(logs[i], chunk)
    /\ Clearing => CopiesAreSorted(chunk, logs[clear.log_id], clear.new_logs,
                                   clear.contains_uid_logs, clear.entry)

\* The order is that of the entries, whatever else changes in the chunks.
LEMMA SortedAlike ==
    ASSUME NEW list, NEW heap, Sorted(list, heap), NEW list2, NEW heap2,
           Elements(list2) \subseteq Elements(list),
           \A c, d : Precedes(list2, c, d) => Precedes(list, c, d),
           \A c \in Elements(list2) :
              /\ heap2[c].entries = heap[c].entries
              /\ heap2[c].highest_sequence_number = heap[c].highest_sequence_number
    PROVE  Sorted(list2, heap2)
  <1>1. ASSUME NEW c \in Elements(list2)
        PROVE  IsAscending(heap2[c])
    <2>1. /\ IsAscending(heap[c]) /\ heap2[c].entries = heap[c].entries
          /\ heap2[c].highest_sequence_number = heap[c].highest_sequence_number
      BY DEF Sorted
    <2> QED BY <2>1 DEF IsAscending
  <1>2. ASSUME NEW c, NEW d, Precedes(list2, c, d)
        PROVE  heap2[c].entries # << >> /\ IsBelow(heap2[c], heap2[d])
    <2>1. c \in Elements(list2) /\ d \in Elements(list2)
      BY <1>2, PrecedesElements
    <2>2. heap[c].entries # << >> /\ IsBelow(heap[c], heap[d])
      BY <1>2 DEF Sorted
    <2>3. heap2[c].entries = heap[c].entries /\ heap2[d].entries = heap[d].entries
      BY <2>1
    <2> QED BY <2>2, <2>3 DEF IsBelow
  <1> QED BY <1>1, <1>2 DEF Sorted

LEMMA EmptyIsSorted ==
    ASSUME NEW heap
    PROVE  Sorted(<< >>, heap)
  <1>1. Elements(<< >>) = {} /\ \A c, d : ~Precedes(<< >>, c, d)
    BY DEF Elements, Precedes
  <1> QED BY <1>1 DEF Sorted

\* What precedes what in the end of a list, and in a list with one chunk more
LEMMA PrecedesInUnpruned ==
    ASSUME NEW S, NEW list \in Seq(S), NEW n \in 0 .. Len(list), NEW c, NEW d,
           Precedes(Unpruned(list, n), c, d)
    PROVE  Precedes(list, c, d)
  <1> DEFINE rest == Unpruned(list, n)
  <1>1. PICK a, b \in 1 .. Len(rest) : a < b /\ rest[a] = c /\ rest[b] = d
    BY DEF Precedes
  <1>2. Len(list) \in Nat
    BY LenProperties
  <1>3. /\ Len(rest) = Len(list) - n
        /\ \A k \in 1 .. Len(rest) : rest[k] = list[k + n]
    <2>1. n + 1 \in 1 .. Len(list) + 1 /\ Len(list) \in (n + 1) - 1 .. Len(list)
      BY <1>2
    <2> QED BY <1>2, <2>1, SubSeqProperties DEF Unpruned
  <1> HIDE DEF rest
  <1>4. a + n \in 1 .. Len(list) /\ b + n \in 1 .. Len(list) /\ a + n < b + n
    BY <1>1, <1>2, <1>3
  <1>5. list[a + n] = c /\ list[b + n] = d
    BY <1>1, <1>3
  <1> QED BY <1>4, <1>5 DEF Precedes

LEMMA PrecedesInTail ==
    ASSUME NEW S, NEW list \in Seq(S), list # << >>, Distinct(list)
    PROVE  /\ \A c, d : Precedes(Tail(list), c, d) => Precedes(list, c, d)
           /\ \A d \in Elements(Tail(list)) : Precedes(list, Head(list), d)
  <1>1. /\ Tail(list) \in Seq(S) /\ Len(Tail(list)) = Len(list) - 1 /\ Len(list) \in Nat \ {0}
        /\ \A k \in 1 .. Len(Tail(list)) : Tail(list)[k] = list[k + 1]
        /\ Head(list) = list[1]
    BY HeadTailProperties, LenProperties, EmptySeq
  <1> DEFINE rest == Tail(list)
  <1> HIDE DEF rest
  <1>2. ASSUME NEW c, NEW d, Precedes(rest, c, d)
        PROVE  Precedes(list, c, d)
    <2>1. PICK a, b \in 1 .. Len(rest) : a < b /\ rest[a] = c /\ rest[b] = d
      BY <1>2 DEF Precedes
    <2>2. a + 1 \in 1 .. Len(list) /\ b + 1 \in 1 .. Len(list) /\ a + 1 < b + 1
      BY <1>1, <2>1 DEF rest
    <2>3. list[a + 1] = c /\ list[b + 1] = d
      BY <1>1, <2>1 DEF rest
    <2> QED BY <2>2, <2>3 DEF Precedes
  <1>3. ASSUME NEW d \in Elements(rest)
        PROVE  Precedes(list, Head(list), d)
    <2>1. PICK k \in 1 .. Len(rest) : d = rest[k]
      BY DEF Elements
    <2>2. 1 \in 1 .. Len(list) /\ k + 1 \in 1 .. Len(list) /\ 1 < k + 1
      BY <1>1, <2>1 DEF rest
    <2>3. list[1] = Head(list) /\ list[k + 1] = d
      BY <1>1, <2>1 DEF rest
    <2> QED BY <2>2, <2>3 DEF Precedes
  <1> QED BY <1>2, <1>3 DEF rest

LEMMA PrecedesInAppend ==
    ASSUME NEW S, NEW list \in Seq(S), NEW x \in S, NEW c, NEW d, Precedes(Append(list, x), c, d)
    PROVE  Precedes(list, c, d) \/ (c \in Elements(list) /\ d = x)
  <1>1. PICK a, b \in 1 .. Len(Append(list, x)) :
               a < b /\ Append(list, x)[a] = c /\ Append(list, x)[b] = d
    BY DEF Precedes
  <1>2. /\ Len(Append(list, x)) = Len(list) + 1 /\ Len(list) \in Nat
        /\ \A k \in 1 .. Len(list) : Append(list, x)[k] = list[k]
        /\ Append(list, x)[Len(list) + 1] = x
    BY AppendProperties, LenProperties
  <1>3. a \in 1 .. Len(list) /\ list[a] = c
    BY <1>1, <1>2
  <1>4. CASE b = Len(list) + 1
    BY <1>1, <1>2, <1>3, <1>4 DEF Elements
  <1>5. CASE b # Len(list) + 1
    <2>1. b \in 1 .. Len(list) /\ list[b] = d
      BY <1>1, <1>2, <1>5
    <2> QED BY <1>1, <1>3, <2>1 DEF Precedes
  <1> QED BY <1>4, <1>5

\* In a list without repetitions nothing precedes what it follows.
LEMMA PrecedesIsOrder ==
    ASSUME NEW S, NEW list \in Seq(S), Distinct(list)
    PROVE  /\ \A c, d : Precedes(list, c, d) => ~Precedes(list, d, c) /\ c # d
           /\ \A c, d \in Elements(list) : c = d \/ Precedes(list, c, d) \/ Precedes(list, d, c)
           /\ \A c : ~Precedes(list, list[Len(list)], c)
           /\ \A c \in Elements(list) : c = list[Len(list)] \/ Precedes(list, c, list[Len(list)])
  <1>0. Len(list) \in Nat
    BY LenProperties
  <1>1. ASSUME NEW c, NEW d, Precedes(list, c, d)
        PROVE  ~Precedes(list, d, c) /\ c # d
    <2>1. PICK a, b \in 1 .. Len(list) : a < b /\ list[a] = c /\ list[b] = d
      BY <1>1 DEF Precedes
    <2>2. c # d
      BY <2>1, <1>0 DEF Distinct
    <2>3. ASSUME Precedes(list, d, c)
          PROVE  FALSE
      <3>1. PICK x, y \in 1 .. Len(list) : x < y /\ list[x] = d /\ list[y] = c
        BY <2>3 DEF Precedes
      <3>2. x = b /\ y = a
        BY <2>1, <3>1 DEF Distinct
      <3> QED BY <1>0, <2>1, <3>1, <3>2
    <2> QED BY <2>2, <2>3
  <1>2. ASSUME NEW c \in Elements(list), NEW d \in Elements(list), c # d
        PROVE  Precedes(list, c, d) \/ Precedes(list, d, c)
    <2>1. PICK a, b \in 1 .. Len(list) : list[a] = c /\ list[b] = d
      BY DEF Elements
    <2>2. a < b \/ b < a
      BY <1>0, <1>2, <2>1
    <2> QED BY <2>1, <2>2 DEF Precedes
  <1>3. ASSUME NEW c, Precedes(list, list[Len(list)], c)
        PROVE  FALSE
    <2>1. PICK a, b \in 1 .. Len(list) : a < b /\ list[a] = list[Len(list)] /\ list[b] = c
      BY <1>3 DEF Precedes
    <2>2. a = Len(list)
      BY <1>0, <2>1 DEF Distinct
    <2> QED BY <1>0, <2>1, <2>2
  <1>4. ASSUME NEW c \in Elements(list), c # list[Len(list)]
        PROVE  Precedes(list, c, list[Len(list)])
    <2>1. list[Len(list)] \in Elements(list)
      <3>1. list # << >>
        BY DEF Elements
      <3> QED BY <3>1, LastElement
    <2> QED BY <1>2, <1>3, <1>4, <2>1
  <1> QED BY <1>1, <1>2, <1>3, <1>4
\* One entry more in the chunk c, above all that it had
LEMMA LogEntrySorts ==
    ASSUME NEW c \in Chunk, IsAscending(c), NEW entry \in Entry,
           \A k \in 1 .. Len(c.entries) : c.entries[k].sequence < entry.sequence
    PROVE  LET d == LogEntry(c, entry)
           IN  /\ IsAscending(d) /\ d.entries # << >>
               /\ Len(d.entries) = Len(c.entries) + 1 /\ Len(c.entries) \in Nat
               /\ \A k \in 1 .. Len(c.entries) : d.entries[k] = c.entries[k]
               /\ d.entries[Len(c.entries) + 1] = entry
               /\ d.writer_active = c.writer_active /\ d.contents = c.contents
               /\ IsRoomy(c) => IsRoomy(d)
  <1> DEFINE d == LogEntry(c, entry)
             n == Len(c.entries)
  <1>1. /\ c.entries \in Seq(Entry) /\ d.entries = Append(c.entries, entry)
        /\ d.highest_sequence_number = entry.sequence
        /\ d.writer_active = c.writer_active /\ d.contents = c.contents
        /\ entry.sequence \in Nat
    BY DEF LogEntry, Chunk, Entry
  <1>2. /\ Len(d.entries) = n + 1 /\ n \in Nat
        /\ \A k \in 1 .. n : d.entries[k] = c.entries[k]
        /\ d.entries[n + 1] = entry
    BY <1>1, AppendProperties, LenProperties
  <1>3. \A k \in 1 .. n : c.entries[k].sequence \in Nat
    <2>1. \A k \in 1 .. n : c.entries[k] \in Entry
      BY <1>1, <1>2, ElementOfSeq
    <2> QED BY <2>1 DEF Entry
  <1>4. d.entries # << >>
    BY <1>1, AppendProperties
  <1> HIDE DEF d, n
  <1>5. ASSUME NEW k \in 1 .. n + 1
        PROVE  d.entries[k].sequence <= entry.sequence
    <2>1. CASE k = n + 1
      BY <1>1, <1>2, <2>1
    <2>2. CASE k \in 1 .. n
      BY <1>1, <1>2, <1>3, <2>2 DEF n
    <2> QED BY <1>2, <2>1, <2>2
  <1>6. ASSUME NEW k \in 1 .. n + 1, NEW m \in 1 .. n + 1, k < m
        PROVE  d.entries[k].sequence < d.entries[m].sequence
    <2>1. k \in 1 .. n
      BY <1>2, <1>6
    <2>2. CASE m = n + 1
      BY <1>2, <2>1, <2>2 DEF n
    <2>3. CASE m \in 1 .. n
      BY <1>2, <1>6, <2>1, <2>3 DEF n, IsAscending
    <2> QED BY <1>2, <2>2, <2>3
  <1>7. IsAscending(d)
    BY <1>1, <1>2, <1>5, <1>6 DEF IsAscending
  <1>8. IsRoomy(c) => IsRoomy(d)
    BY <1>1, <1>4 DEF IsRoomy
  <1> QED BY <1>1, <1>2, <1>4, <1>7, <1>8 DEF d, n

\* What LogToLogBuffer() adds to the list is the entry, behind all that is there.
Written(heap, list, entry, logged) ==
    /\ DOMAIN heap \subseteq DOMAIN logged.heap
    /\ \A c \in (DOMAIN heap) \ Elements(list) : logged.heap[c] = heap[c]
    /\ \A c \in Elements(list) :
          /\ c \in Elements(logged.list)
          /\ \A k \in 1 .. Len(heap[c].entries) :
                /\ k \in 1 .. Len(logged.heap[c].entries)
                /\ logged.heap[c].entries[k] = heap[c].entries[k]
    /\ \A c \in Elements(logged.list) : \A k \in 1 .. Len(logged.heap[c].entries) :
          \/ /\ c \in Elements(list) /\ k \in 1 .. Len(heap[c].entries)
             /\ logged.heap[c].entries[k] = heap[c].entries[k]
          \/ /\ c = logged.list[Len(logged.list)]
             /\ c \in Elements(list) => k > Len(heap[c].entries)
             /\ logged.heap[c].entries[k] = entry
    /\ \A c, d : Precedes(logged.list, c, d) => \/ Precedes(list, c, d)
                                                \/ c \in Elements(list) /\ d \notin Elements(list)

LEMMA LogSorts ==
    ASSUME NEW heap, IsHeap(heap), AreRoomy(heap),
           NEW list \in Seq(ChunkIds), Distinct(list), Elements(list) \subseteq DOMAIN heap,
           NewestIsWritable(list, heap), Sorted(list, heap),
           NEW size, size \div kChunkSizeDivisor \in Nat,
           SIZEOF_ENTRY + LOGGER_ENTRY_MAX_PAYLOAD <= size \div kChunkSizeDivisor,
           NEW entry \in Entry, entry.msg_len <= LOGGER_ENTRY_MAX_PAYLOAD,
           \A c \in Elements(list) : \A k \in 1 .. Len(heap[c].entries) :
              heap[c].entries[k].sequence < entry.sequence,
           NEW zsize \in ZSizes(heap, list, entry),
           NeedsChunk(heap, list, entry) => CanAllocate(heap),
           NEW logged, logged = LogToLogBuffer(heap, list, size, entry, zsize)
    PROVE  /\ Sorted(logged.list, logged.heap) /\ AreRoomy(logged.heap)
           /\ Written(heap, list, entry, logged)
  <1> DEFINE last == list[Len(list)]
             new == FreshChunk(heap)
             chunk0 == NewChunk(size \div kChunkSizeDivisor)
  <1>1. \/ LogsIntoLast(heap, list, entry, logged)
        \/ LogsIntoNew(heap, list, size, entry, zsize, logged, new)
    BY LogToLogBufferCases
  <1>2. \A c \in DOMAIN heap : heap[c] \in Chunk /\ IsRoomy(heap[c])
    BY DEF IsHeap, AreRoomy
  <1>3. list # << >> => last \in Elements(list) /\ last \in DOMAIN heap
    BY LastElement
  <1>4. \A c \in Elements(list) : c \in DOMAIN heap /\ IsAscending(heap[c])
    BY DEF Sorted
  <1>5. /\ \A c : ~Precedes(list, last, c)
        /\ \A c \in Elements(list) : c = last \/ Precedes(list, c, last)
    BY PrecedesIsOrder
  <1>6. \A c, d : Precedes(list, c, d) =>
           /\ c \in Elements(list) /\ d \in Elements(list) /\ c # d
           /\ heap[c].entries # << >> /\ IsBelow(heap[c], heap[d])
    BY PrecedesElements DEF Sorted
  <1>7. CASE LogsIntoLast(heap, list, entry, logged)
    <2> DEFINE wide == LogEntry(heap[last], entry)
    <2>1. /\ list # << >> /\ logged.list = list /\ DOMAIN logged.heap = DOMAIN heap
          /\ logged.heap[last] = wide
          /\ \A c \in (DOMAIN heap) \ {last} : logged.heap[c] = heap[c]
      BY <1>7 DEF LogsIntoLast
    <2>2. /\ IsAscending(wide) /\ wide.entries # << >> /\ IsRoomy(wide)
          /\ Len(wide.entries) = Len(heap[last].entries) + 1 /\ Len(heap[last].entries) \in Nat
          /\ \A k \in 1 .. Len(heap[last].entries) : wide.entries[k] = heap[last].entries[k]
          /\ wide.entries[Len(heap[last].entries) + 1] = entry
      BY <1>2, <1>3, <1>4, <2>1, LogEntrySorts
    <2> HIDE DEF wide, last
    <2>3. AreRoomy(logged.heap)
      BY <1>2, <2>1, <2>2 DEF AreRoomy
    <2>4. \A c \in Elements(list) : IsAscending(logged.heap[c])
      BY <1>4, <2>1, <2>2
    <2>5. ASSUME NEW c, NEW d, Precedes(list, c, d)
          PROVE  logged.heap[c].entries # << >> /\ IsBelow(logged.heap[c], logged.heap[d])
      <3>1. /\ c \in DOMAIN heap /\ c # last /\ logged.heap[c] = heap[c]
            /\ c \in Elements(list) /\ d \in Elements(list)
            /\ heap[c].entries # << >> /\ IsBelow(heap[c], heap[d])
        BY <1>4, <1>5, <1>6, <2>1, <2>5
      <3>2. CASE d = last
        <4>1. ASSUME NEW k \in 1 .. Len(heap[c].entries), NEW m \in 1 .. Len(wide.entries)
              PROVE  heap[c].entries[k].sequence < wide.entries[m].sequence
          <5>1. CASE m = Len(heap[last].entries) + 1
            BY <2>2, <3>1, <5>1
          <5>2. CASE m \in 1 .. Len(heap[last].entries)
            BY <2>2, <3>1, <3>2, <5>2 DEF IsBelow
          <5>3. PICK n \in Nat : n = Len(heap[last].entries) /\ Len(wide.entries) = n + 1
            BY <2>2
          <5>4. m = n + 1 \/ m \in 1 .. n
            BY <5>3
          <5> QED BY <5>1, <5>2, <5>3, <5>4
        <4> QED BY <2>1, <3>1, <3>2, <4>1 DEF IsBelow
      <3>3. CASE d # last
        BY <1>4, <2>1, <3>1, <3>3
      <3> QED BY <3>2, <3>3
    <2>6. ASSUME NEW c \in Elements(list), NEW k \in 1 .. Len(heap[c].entries)
          PROVE  /\ k \in 1 .. Len(logged.heap[c].entries)
                 /\ logged.heap[c].entries[k] = heap[c].entries[k]
      <3>1. CASE c = last
        BY <2>1, <2>2, <3>1
      <3> QED BY <1>4, <2>1, <3>1
    <2>7. ASSUME NEW c \in Elements(list), NEW k \in 1 .. Len(logged.heap[c].entries)
          PROVE  \/ /\ k \in 1 .. Len(heap[c].entries)
                    /\ logged.heap[c].entries[k] = heap[c].entries[k]
                 \/ /\ c = last /\ k > Len(heap[c].entries)
                    /\ logged.heap[c].entries[k] = entry
      <3>1. CASE c = last
        BY <2>1, <2>2, <3>1
      <3> QED BY <1>4, <2>1, <3>1
    <2>8. Written(heap, list, entry, logged)
      BY <1>3, <2>1, <2>6, <2>7 DEF Written, last
    <2> QED BY <2>1, <2>3, <2>4, <2>5, <2>8 DEF Sorted
  <1>8. CASE LogsIntoNew(heap, list, size, entry, zsize, logged, new)
    <2> DEFINE wide == LogEntry(chunk0, entry)
               closed == FinishWriting(heap[last], zsize)
    <2>1. /\ new \in ChunkIds \ DOMAIN heap /\ logged.list = Append(list, new)
          /\ DOMAIN logged.heap = (DOMAIN heap) \cup {new}
          /\ logged.heap[new] = wide
          /\ list # << >> => logged.heap[last] = closed /\ zsize \in CompressedSizes
          /\ \A c \in DOMAIN heap : list = << >> \/ c # last => logged.heap[c] = heap[c]
      BY <1>8 DEF LogsIntoNew
    <2>2. /\ wide.entries = <<entry>> /\ wide.highest_sequence_number = entry.sequence
          /\ wide.contents = size \div kChunkSizeDivisor
      BY NewChunkCanLog
    <2>3. IsRoomy(wide) /\ IsAscending(wide) /\ Len(wide.entries) = 1 /\ wide.entries[1] = entry
      <3>1. Len(<<entry>>) = 1 /\ <<entry>>[1] = entry /\ <<entry>> # << >>
        OBVIOUS
      <3>2. entry.sequence \in Nat
        BY DEF Entry
      <3>3. Len(wide.entries) = 1 /\ wide.entries[1] = entry /\ wide.entries # << >>
        BY <2>2, <3>1
      <3> HIDE DEF wide
      <3>4. \A k \in 1 .. Len(wide.entries) : k = 1
        BY <3>3
      <3>5. IsAscending(wide)
        BY <2>2, <3>2, <3>3, <3>4 DEF IsAscending
      <3>6. IsRoomy(wide)
        BY <2>2, <3>3 DEF IsRoomy
      <3> QED BY <3>3, <3>5, <3>6
    <2>4. ASSUME list # << >>
          PROVE  /\ closed.entries = heap[last].entries
                 /\ closed.highest_sequence_number = heap[last].highest_sequence_number
                 /\ closed.write_offset = heap[last].write_offset
                 /\ ~closed.writer_active
      <3>1. heap[last] \in Chunk
        BY <1>2, <1>3, <2>4
      <3> HIDE DEF last
      <3> QED BY <3>1 DEF FinishWriting, Chunk
    <2>5. list # << >> => heap[last].entries # << >>
      <3> SUFFICES ASSUME list # << >>, heap[last].entries = << >>
                   PROVE  FALSE
        OBVIOUS
      <3>1. ~CanLog(heap[last], total_len(entry))
        <4>1. CASE ~NeedsChunk(heap, list, entry)
          <5>1. logged.list = list
            BY <4>1 DEF LogToLogBuffer
          <5>2. Len(Append(list, new)) = Len(list) + 1 /\ Len(list) \in Nat
            BY <2>1, AppendProperties, LenProperties
          <5> QED BY <2>1, <5>1, <5>2
        <4> QED BY <4>1 DEF NeedsChunk
      <3>2. heap[last].writer_active /\ heap[last] \in Chunk /\ IsRoomy(heap[last])
        BY <1>2, <1>3 DEF NewestIsWritable
      <3>3. /\ heap[last].write_offset = 0
            /\ SIZEOF_ENTRY + LOGGER_ENTRY_MAX_PAYLOAD <= heap[last].contents
            /\ heap[last].contents \in Nat
        BY <3>2, ChunkFields DEF IsRoomy
      <3>4. total_len(entry) <= SIZEOF_ENTRY + LOGGER_ENTRY_MAX_PAYLOAD
            /\ total_len(entry) \in Nat /\ SIZEOF_ENTRY \in Nat /\ LOGGER_ENTRY_MAX_PAYLOAD \in Nat
        BY SizeofAssumption, SizeAssumption DEF total_len, Entry
      <3> HIDE DEF last
      <3> QED BY <3>1, <3>3, <3>4 DEF CanLog
    <2> HIDE DEF wide, closed, last, new
    <2>6. \A c \in DOMAIN heap : /\ logged.heap[c].entries = heap[c].entries
                                 /\ logged.heap[c].highest_sequence_number
                                       = heap[c].highest_sequence_number
                                 /\ IsRoomy(logged.heap[c])
      <3>1. ASSUME NEW c \in DOMAIN heap, list # << >>, c = last
            PROVE  IsRoomy(logged.heap[c])
        BY <1>2, <2>1, <2>4, <3>1 DEF IsRoomy
      <3> QED BY <1>2, <2>1, <2>4, <3>1
    <2>7. AreRoomy(logged.heap)
      BY <2>1, <2>3, <2>6 DEF AreRoomy
    <2>8. /\ new \notin Elements(list)
          /\ Elements(logged.list) = Elements(list) \cup {new}
          /\ logged.list[Len(logged.list)] = new
      <3>1. new \in ChunkIds /\ new \notin Elements(list)
        BY <2>1
      <3>2. Elements(Append(list, new)) = Elements(list) \cup {new}
        BY <3>1, AppendElements
      <3>3. Append(list, new)[Len(Append(list, new))] = new
        BY <3>1, AppendProperties
      <3> QED BY <2>1, <3>1, <3>2, <3>3
    <2>9. \A c \in Elements(logged.list) : IsAscending(logged.heap[c])
      <3>1. ASSUME NEW c \in Elements(list)
            PROVE  IsAscending(logged.heap[c])
        <4>1. /\ IsAscending(heap[c]) /\ logged.heap[c].entries = heap[c].entries
              /\ logged.heap[c].highest_sequence_number = heap[c].highest_sequence_number
          BY <1>4, <2>6
        <4> QED BY <4>1 DEF IsAscending
      <3> QED BY <2>1, <2>3, <2>8, <3>1
    <2>10. \A c, d : Precedes(logged.list, c, d) => \/ Precedes(list, c, d)
                                                    \/ c \in Elements(list) /\ d = new
      BY <2>1, PrecedesInAppend
    <2>11. ASSUME NEW c, NEW d, Precedes(logged.list, c, d)
           PROVE  logged.heap[c].entries # << >> /\ IsBelow(logged.heap[c], logged.heap[d])
      <3>1. CASE Precedes(list, c, d)
        <4>1. /\ c \in DOMAIN heap /\ d \in DOMAIN heap
              /\ heap[c].entries # << >> /\ IsBelow(heap[c], heap[d])
          BY <1>4, <1>6, <3>1
        <4>2. logged.heap[c].entries = heap[c].entries /\ logged.heap[d].entries = heap[d].entries
          BY <2>6, <4>1
        <4> QED BY <4>1, <4>2 DEF IsBelow
      <3>2. CASE c \in Elements(list) /\ d = new
        <4>1. c \in DOMAIN heap /\ logged.heap[c].entries = heap[c].entries
          BY <1>4, <2>6, <3>2
        <4>2. heap[c].entries # << >>
          <5>1. list # << >>
            BY <3>2 DEF Elements
          <5> QED BY <1>5, <1>6, <2>5, <3>2, <5>1
        <4>3. ASSUME NEW k \in 1 .. Len(heap[c].entries), NEW m \in 1 .. Len(wide.entries)
              PROVE  heap[c].entries[k].sequence < wide.entries[m].sequence
          <5>1. m = 1
            BY <2>3
          <5> QED BY <2>3, <3>2, <5>1
        <4> QED BY <2>1, <3>2, <4>1, <4>2, <4>3 DEF IsBelow
      <3> QED BY <2>10, <2>11, <3>1, <3>2
    <2>12. ASSUME NEW c \in Elements(logged.list), NEW k \in 1 .. Len(logged.heap[c].entries)
           PROVE  \/ /\ c \in Elements(list) /\ k \in 1 .. Len(heap[c].entries)
                     /\ logged.heap[c].entries[k] = heap[c].entries[k]
                  \/ /\ c = new
                     /\ logged.heap[c].entries[k] = entry
      <3>1. CASE c = new
        <4>0. Len(logged.heap[c].entries) = 1
          BY <2>1, <2>3, <3>1
        <4>1. k = 1
          BY <4>0
        <4> QED BY <2>1, <2>3, <3>1, <4>1
      <3>2. CASE c \in Elements(list)
        BY <1>4, <2>6, <3>2
      <3> QED BY <2>8, <3>1, <3>2
    <2>13. \A c \in (DOMAIN heap) \ Elements(list) : logged.heap[c] = heap[c]
      BY <1>3, <2>1
    <2>14. \A c \in Elements(list) : /\ c \in Elements(logged.list)
                                     /\ logged.heap[c].entries = heap[c].entries
      BY <1>4, <2>6, <2>8
    <2>15. Written(heap, list, entry, logged)
      BY <2>1, <2>8, <2>10, <2>12, <2>13, <2>14 DEF Written
    <2> QED BY <2>7, <2>9, <2>11, <2>15 DEF Sorted
  <1> QED BY <1>1, <1>7, <1>8

-----------------------------------------------------------------------------
(***************************************************************************)
(* What writers and commands do to the entries, and to what was read         *)
(***************************************************************************)

\* The chunks of log i: ClearLogsByUid() has some of them in its new_logs.
ChunksOf(i) ==
    Elements(logs[i]) \cup (IF Clearing /\ clear.log_id = i THEN Elements(clear.new_logs) ELSE {})

\* The entry e is in log i.
IsHeld(i, e) ==
    \E c \in ChunksOf(i) : \E k \in 1 .. Len(chunk[c].entries) : e = chunk[c].entries[k]

\* The entry e is in log i, behind the position that the FlushToState s has there.
HasRead(s, i, e) ==
    /\ i \in DOMAIN state[s].log_positions
    /\ \E c \in Elements(logs[i]) : \E k \in 1 .. Len(chunk[c].entries) :
          /\ e = chunk[c].entries[k]
          /\ HasPassed(state[s].log_positions[i], logs[i], c, k)

\* The step logs the entry e in log i.
Logs(i, e) ==
    \E w \in DOMAIN pending : w \notin DOMAIN pending' /\ i = pending[w].log_id /\ e = pending[w].entry

\* Nothing but what is logged comes into log i.
HoldsNoOther(i) == \A e : IsHeld(i, e)' => IsHeld(i, e) \/ Logs(i, e)

\* Nothing comes behind a position in log i.
NothingBehind(i) ==
    \A d \in Elements(logs[i]), c \in Elements(logs'[i]) : \A k \in 1 .. Len(chunk'[c].entries) :
        \/ /\ c \in Elements(logs[i]) /\ k \in 1 .. Len(chunk[c].entries)
           /\ chunk'[c].entries[k] = chunk[c].entries[k]
           /\ Precedes(logs'[i], c, d) => Precedes(logs[i], c, d)
        \/ /\ ~Precedes(logs'[i], c, d)
           /\ c \in Elements(logs[i]) => k > Len(chunk[c].entries)

BufferEffect == SortedInv' /\ \A i \in LogIds : HoldsNoOther(i) /\ NothingBehind(i)

\* Log i only loses chunks.
LEMMA LosesBehind ==
    ASSUME NEW i \in LogIds, Elements(logs'[i]) \subseteq Elements(logs[i]),
           \A c, d : Precedes(logs'[i], c, d) => Precedes(logs[i], c, d),
           \A c \in Elements(logs'[i]) : chunk'[c].entries = chunk[c].entries
    PROVE  NothingBehind(i)
  BY DEF NothingBehind

LEMMA LosesChunks ==
    ASSUME NEW i \in LogIds,
           \A c \in ChunksOf(i)' : c \in ChunksOf(i) /\ chunk'[c].entries = chunk[c].entries
    PROVE  HoldsNoOther(i)
  BY DEF HoldsNoOther, IsHeld

\* A step that leaves the chunks and the lists alone
LEMMA SameEffect ==
    ASSUME SortedInv, UNCHANGED <<chunk, logs>>,
           \/ clear' = clear /\ (Clearing' <=> Clearing)
           \/ ~Clearing'
    PROVE  BufferEffect
  <1>1. SortedInv'
    BY DEF SortedInv
  <1>2. ASSUME NEW i \in LogIds
        PROVE  HoldsNoOther(i) /\ NothingBehind(i)
    <2>1. ChunksOf(i)' \subseteq ChunksOf(i)
      BY DEF ChunksOf
    <2> QED BY <2>1, LosesChunks, LosesBehind
  <1> QED BY <1>1, <1>2 DEF BufferEffect

\* What is logged is pruned: Log(), and SetSize() and Clear(), which log nothing.
LEMMA PruneEffect ==
    ASSUME Parts, SortedInv, ~Clearing, ~Clearing', NEW i \in LogIds,
           NEW logged, logged.list \in Seq(ChunkIds), Distinct(logged.list),
           Elements(logged.list) \subseteq DOMAIN logged.heap,
           Sorted(logged.list, logged.heap), AreRoomy(logged.heap),
           NEW entry, Written(chunk, logs[i], entry, logged),
           Elements(logged.list) \cap DOMAIN chunk \subseteq Elements(logs[i]),
           Logs(i, entry) \/ (logged.heap = chunk /\ logged.list = logs[i]),
           NEW n \in 0 .. Len(logged.list),
           chunk' = Free(logged.heap, Pruned(logged.list, n)),
           logs' = [logs EXCEPT ![i] = Unpruned(logged.list, n)]
    PROVE  BufferEffect
  <1> DEFINE P == Pruned(logged.list, n)
             list == Unpruned(logged.list, n)
  <1>1. /\ list \in Seq(ChunkIds) /\ P \subseteq Elements(logged.list)
        /\ Elements(list) = Elements(logged.list) \ P
    BY UnprunedElements
  <1>2. \A c, d : Precedes(list, c, d) => Precedes(logged.list, c, d)
    BY PrecedesInUnpruned
  <1>3. /\ logs'[i] = list /\ \A j \in LogIds \ {i} : logs'[j] = logs[j]
        /\ DOMAIN chunk' = (DOMAIN logged.heap) \ P
        /\ \A c \in DOMAIN chunk' : chunk'[c] = logged.heap[c]
    BY DEF Parts, LogsOK, Free
  <1> HIDE DEF P, list
  <1>4. AreRoomy(chunk')
    BY <1>3 DEF AreRoomy
  <1>5. \A c \in Elements(list) : c \in Elements(logged.list) /\ chunk'[c] = logged.heap[c]
    BY <1>1, <1>3
  <1>6. Sorted(list, chunk')
    BY <1>1, <1>2, <1>5, SortedAlike
  <1>7. ASSUME NEW j \in LogIds \ {i}
        PROVE  /\ Sorted(logs'[j], chunk')
               /\ \A c \in Elements(logs[j]) : chunk'[c] = chunk[c]
    <2>1. \A c \in Elements(logs[j]) : /\ c \in DOMAIN chunk /\ c \notin Elements(logs[i])
                                       /\ c \notin Elements(logged.list)
      BY DEF Parts, ListsAreDisjoint
    <2>2. \A c \in Elements(logs[j]) : c \in DOMAIN logged.heap /\ c \notin P
                                       /\ logged.heap[c] = chunk[c]
      BY <1>1, <2>1 DEF Written
    <2>3. \A c \in Elements(logs[j]) : chunk'[c] = chunk[c]
      BY <1>3, <2>2
    <2>4. Sorted(logs[j], chunk)
      BY DEF SortedInv
    <2> QED BY <1>3, <2>3, <2>4, SortedAlike
  <1>8. SortedInv'
    BY <1>3, <1>4, <1>6, <1>7 DEF SortedInv
  <1>9. ASSUME NEW j \in LogIds
        PROVE  ChunksOf(j)' = Elements(logs'[j]) /\ ChunksOf(j) = Elements(logs[j])
    BY DEF ChunksOf
  <1>10. ASSUME NEW j \in LogIds \ {i}
         PROVE  HoldsNoOther(j) /\ NothingBehind(j)
    BY <1>3, <1>7, <1>9, LosesChunks, LosesBehind
  <1>11. ASSUME NEW c \in Elements(list), NEW k \in 1 .. Len(chunk'[c].entries)
         PROVE  \/ /\ c \in Elements(logs[i]) /\ k \in 1 .. Len(chunk[c].entries)
                   /\ chunk'[c].entries[k] = chunk[c].entries[k]
                \/ /\ c = logged.list[Len(logged.list)]
                   /\ c \in Elements(logs[i]) => k > Len(chunk[c].entries)
                   /\ chunk'[c].entries[k] = entry /\ Logs(i, entry)
    <2>1. c \in Elements(logged.list) /\ k \in 1 .. Len(logged.heap[c].entries)
          /\ chunk'[c] = logged.heap[c]
      BY <1>5
    <2> QED BY <2>1 DEF Written
  <1>12. HoldsNoOther(i)
    <2> SUFFICES ASSUME NEW e, IsHeld(i, e)'
                 PROVE  IsHeld(i, e) \/ Logs(i, e)
      BY DEF HoldsNoOther
    <2>1. PICK c \in Elements(list) : \E k \in 1 .. Len(chunk'[c].entries) :
                 e = chunk'[c].entries[k]
      BY <1>3, <1>9 DEF IsHeld
    <2>2. PICK k \in 1 .. Len(chunk'[c].entries) : e = chunk'[c].entries[k]
      BY <2>1
    <2> QED BY <1>9, <1>11, <2>2 DEF IsHeld
  <1>13. NothingBehind(i)
    <2>1. ASSUME NEW d \in Elements(logs[i]), NEW c \in Elements(list)
          PROVE  /\ Precedes(list, c, d) => Precedes(logs[i], c, d)
                 /\ Precedes(list, c, d) => c # logged.list[Len(logged.list)]
      BY <1>2, PrecedesIsOrder DEF Written
    <2> QED BY <1>3, <1>11, <2>1 DEF NothingBehind
  <1> QED BY <1>8, <1>10, <1>12, <1>13 DEF BufferEffect

\* A log that loses its first n chunks and gets no entry
LEMMA PrunesOnly ==
    ASSUME Parts, SortedInv, ~Clearing, ~Clearing', NEW i \in LogIds, NEW n \in 0 .. Len(logs[i]),
           chunk' = Free(chunk, Pruned(logs[i], n)),
           logs' = [logs EXCEPT ![i] = Unpruned(logs[i], n)]
    PROVE  BufferEffect
  <1> DEFINE logged == [heap |-> chunk, list |-> logs[i]]
  <1>1. /\ logs[i] \in Seq(ChunkIds) /\ Distinct(logs[i])
        /\ Elements(logs[i]) \subseteq DOMAIN chunk
    BY ListOfLog
  <1>2. logged.heap = chunk /\ logged.list = logs[i]
    OBVIOUS
  <1>3. Sorted(logs[i], chunk) /\ AreRoomy(chunk)
    BY DEF SortedInv
  <1> HIDE DEF logged
  <1>4. Written(chunk, logs[i], 0, logged)
    BY <1>2 DEF Written
  <1> QED BY <1>1, <1>2, <1>3, <1>4, PruneEffect

LEMMA LogEffect ==
    ASSUME Parts, ChunkInv, SortedInv, LogsInOrder, NEW w \in Writers, Log(w)
    PROVE  BufferEffect
  <1>1. PICK i, entry, zsize, logged, n : LogsEntry(w, i, entry, zsize, logged, n)
    BY LogCases
  <1>2. /\ w \in DOMAIN pending /\ i = pending[w].log_id /\ entry = pending[w].entry
        /\ zsize \in ZSizes(chunk, logs[i], entry)
        /\ NeedsChunk(chunk, logs[i], entry) => CanAllocate(chunk)
        /\ logged = LogToLogBuffer(chunk, logs[i], max_size[i], entry, zsize)
    BY <1>1, Zenon DEF LogsEntry
  <1>3. i \in LogIds /\ entry \in Entry
    BY <1>2 DEF Parts, WritersOK
  <1>4. /\ chunk' = Free(logged.heap, Pruned(logged.list, n))
        /\ logs' = [logs EXCEPT ![i] = Unpruned(logged.list, n)]
        /\ pending' = [v \in (DOMAIN pending) \ {w} |-> pending[v]]
        /\ n \in 0 .. Len(logged.list)
    BY <1>1, Zenon DEF LogsEntry
  <1>5. ~Clearing /\ ~Clearing'
    BY DEF Log, LockFree, Clearing
  <1>6. entry.msg_len <= LOGGER_ENTRY_MAX_PAYLOAD
    BY <1>2 DEF ChunkInv, PendingAreCut
  <1>7. SoundlyLogged(i, logged)
    BY <1>2, <1>3, <1>5, <1>6, LogIsSound
  <1>8. Logs(i, entry)
    BY <1>2, <1>4 DEF Logs
  <1>9. /\ IsHeap(chunk) /\ logs[i] \in Seq(ChunkIds) /\ Distinct(logs[i])
        /\ Elements(logs[i]) \subseteq DOMAIN chunk
    BY <1>3, ListOfLog
  <1>10. /\ AreRoomy(chunk) /\ Sorted(logs[i], chunk) /\ NewestIsWritable(logs[i], chunk)
    BY <1>3 DEF SortedInv, ChunkInv, NewestAreWritable
  <1>11. \A c \in Elements(logs[i]) : \A k \in 1 .. Len(chunk[c].entries) :
            chunk[c].entries[k].sequence < entry.sequence
    <2>1. w \notin DOMAIN pending'
      BY <1>4
    <2> QED BY <1>2, <2>1 DEF LogsInOrder, EntriesOf
  <1>12. /\ max_size[i] \div kChunkSizeDivisor \in Nat
         /\ SIZEOF_ENTRY + LOGGER_ENTRY_MAX_PAYLOAD <= max_size[i] \div kChunkSizeDivisor
    BY <1>3, ChunkHasRoom
  <1>13. /\ Sorted(logged.list, logged.heap) /\ AreRoomy(logged.heap)
         /\ Written(chunk, logs[i], entry, logged)
    BY <1>2, <1>3, <1>6, <1>9, <1>10, <1>11, <1>12, LogSorts
  <1>14. /\ logged.list \in Seq(ChunkIds) /\ Distinct(logged.list)
         /\ Elements(logged.list) \subseteq DOMAIN logged.heap
         /\ Elements(logged.list) \cap DOMAIN chunk \subseteq Elements(logs[i])
    BY <1>7, <1>9 DEF SoundlyLogged, Extends
  <1> QED BY <1>3, <1>4, <1>5, <1>8, <1>13, <1>14, PruneEffect

LEMMA SetSizeEffect ==
    ASSUME Parts, SortedInv, NEW i \in LogIds, NEW size \in Sizes, SetSize(i, size)
    PROVE  BufferEffect
  <1>1. PICK n \in 0 .. Len(logs[i]) :
            /\ chunk' = Free(chunk, Pruned(logs[i], n))
            /\ logs' = [logs EXCEPT ![i] = Unpruned(logs[i], n)]
    BY DEF SetSize
  <1>2. ~Clearing /\ ~Clearing'
    BY DEF SetSize, LockFree, Clearing
  <1> QED BY <1>1, <1>2, PrunesOnly

LEMMA ClearAllEffect ==
    ASSUME Parts, SortedInv, NEW i \in LogIds, ClearAll(i)
    PROVE  BufferEffect
  <1>1. ~Clearing /\ ~Clearing'
    BY DEF ClearAll, LockFree, Clearing
  <1>2. logs[i] \in Seq(ChunkIds) /\ Len(logs[i]) \in Nat
    BY ListOfLog, LenProperties
  <1>3. Pruned(logs[i], Len(logs[i])) = Elements(logs[i])
    BY DEF Pruned, Elements
  <1>4. Unpruned(logs[i], Len(logs[i])) = << >>
    BY <1>2 DEF Unpruned
  <1>5. /\ chunk' = Free(chunk, Elements(logs[i]))
        /\ logs' = [logs EXCEPT ![i] = << >>]
    BY DEF ClearAll
  <1>6. /\ chunk' = Free(chunk, Pruned(logs[i], Len(logs[i])))
        /\ logs' = [logs EXCEPT ![i] = Unpruned(logs[i], Len(logs[i]))]
    BY <1>3, <1>4, <1>5
  <1>7. Len(logs[i]) \in 0 .. Len(logs[i])
    BY <1>2
  <1> DEFINE n == Len(logs[i])
  <1> HIDE DEF n
  <1> QED BY <1>1, <1>6, <1>7, PrunesOnly DEF n

LEMMA UidClearEffect ==
    ASSUME Parts, SortedInv, NEW i \in LogIds, NEW uid \in Nat, UidClear(i, uid)
    PROVE  BufferEffect
  <1>1. /\ UNCHANGED <<chunk, logs>> /\ Clearing'
        /\ clear' = [NoClear EXCEPT !.log_id = i, !.uid = uid]
    BY DEF UidClear, Clearing
  <1>2. /\ clear'.new_logs = << >> /\ clear'.log_id = i
        /\ ~clear'.contains_uid_logs /\ clear'.entry = 0
    BY <1>1 DEF NoClear
  <1>3. Elements(<< >>) = {}
    BY DEF Elements
  <1>4. CopiesAreSorted(chunk', logs'[clear'.log_id], clear'.new_logs,
                        clear'.contains_uid_logs, clear'.entry)
    BY <1>2, <1>3, EmptyIsSorted DEF CopiesAreSorted
  <1>5. SortedInv'
    BY <1>1, <1>4 DEF SortedInv
  <1>6. ASSUME NEW j \in LogIds
        PROVE  HoldsNoOther(j) /\ NothingBehind(j)
    <2>1. ChunksOf(j)' \subseteq ChunksOf(j)
      BY <1>1, <1>2, <1>3 DEF ChunksOf
    <2> QED BY <1>1, <2>1, LosesChunks, LosesBehind
  <1> QED BY <1>5, <1>6 DEF BufferEffect

\* Readers and ClearLogsByUid() come to chunks and leave them: what is written stays.
IsAlike(c, d) == HoldsTheSame(c, d) /\ d.write_offset = c.write_offset

LEMMA ReferencesAreAlike ==
    ASSUME NEW c \in Chunk
    PROVE  /\ IsAlike(c, IncReaderRefCount(c)) /\ IsAlike(c, DecReaderRefCount(c))
           /\ IsAlike(c, WithoutReaders(c))
           /\ \A s : IsAlike(c, AttachReader(c, s)) /\ IsAlike(c, DetachReader(c, s))
  <1>1. /\ IncReaderRefCount(c).write_offset = c.write_offset
        /\ DecReaderRefCount(c).write_offset = c.write_offset
        /\ WithoutReaders(c).write_offset = c.write_offset
    BY DEF IncReaderRefCount, DecReaderRefCount, WithoutReaders, Chunk
  <1>2. ASSUME NEW s
        PROVE  /\ AttachReader(c, s).write_offset = c.write_offset
               /\ DetachReader(c, s).write_offset = c.write_offset
    BY DEF AttachReader, DetachReader, IncReaderRefCount, DecReaderRefCount, Chunk
  <1> QED BY <1>1, <1>2, ReferencesHold DEF IsAlike

LEMMA AlikeIsRoomy ==
    ASSUME NEW c, NEW d, IsAlike(c, d), IsRoomy(c)
    PROVE  IsRoomy(d)
  BY DEF IsAlike, HoldsTheSame, IsRoomy

\* ClearLogsByUid() is in log i, whose first chunk is c.
ClearIsIn(i, c) ==
    /\ Clearing /\ i = clear.log_id /\ logs[i] # << >> /\ c = Head(logs[i])
    /\ i \in LogIds /\ logs[i] \in Seq(ChunkIds) /\ Distinct(logs[i])
    /\ c \in Elements(logs[i]) /\ c \in DOMAIN chunk /\ c \in ChunkIds
    /\ Elements(Tail(logs[i])) = Elements(logs[i]) \ {c}
    /\ chunk[c] \in Chunk /\ IsFiniteSet(chunk[c].readers)
    /\ c \notin Elements(clear.new_logs)
    /\ \A j \in LogIds : j # i => c \notin Elements(logs[j])
    /\ clear.new_logs \in Seq(ChunkIds) /\ Distinct(clear.new_logs)
    /\ Elements(clear.new_logs) \subseteq DOMAIN chunk
    /\ \A d \in Elements(Tail(logs[i])) : Precedes(logs[i], c, d)
    /\ \A d, e : Precedes(Tail(logs[i]), d, e) => Precedes(logs[i], d, e)

LEMMA ClearIsSomewhere ==
    ASSUME Parts, Clearing, logs[clear.log_id] # << >>
    PROVE  \E i, c : ClearIsIn(i, c)
  <1> DEFINE i == clear.log_id
             c == Head(logs[i])
  <1>1. /\ i \in LogIds /\ logs[i] \in Seq(ChunkIds) /\ Distinct(logs[i])
        /\ c \in Elements(logs[i]) /\ c \in DOMAIN chunk /\ c \in ChunkIds
        /\ Elements(Tail(logs[i])) = Elements(logs[i]) \ {c}
        /\ chunk[c] \in Chunk /\ IsFiniteSet(chunk[c].readers)
        /\ c \notin Elements(clear.new_logs)
        /\ \A j \in LogIds : j # i => c \notin Elements(logs[j])
    BY HeadOfClear
  <1>2. /\ clear.new_logs \in Seq(ChunkIds) /\ Distinct(clear.new_logs)
        /\ Elements(clear.new_logs) \subseteq DOMAIN chunk
    BY DEF Parts, CommandsOK, ListsAreDisjoint
  <1>3. /\ \A d \in Elements(Tail(logs[i])) : Precedes(logs[i], c, d)
        /\ \A d, e : Precedes(Tail(logs[i]), d, e) => Precedes(logs[i], d, e)
    BY <1>1, PrecedesInTail
  <1>4. ClearIsIn(i, c)
    BY <1>1, <1>2, <1>3 DEF ClearIsIn
  <1> QED BY <1>4

\* The chunks of the logs hold the same, and log i has a shorter list.
LEMMA ShorterListsSorted ==
    ASSUME SortedInv, AreRoomy(chunk'),
           \A j \in LogIds : \A c \in Elements(logs'[j]) :
              /\ c \in Elements(logs[j])
              /\ chunk'[c].entries = chunk[c].entries
              /\ chunk'[c].highest_sequence_number = chunk[c].highest_sequence_number,
           \A j \in LogIds : \A c, d : Precedes(logs'[j], c, d) => Precedes(logs[j], c, d),
           Clearing' => CopiesAreSorted(chunk', logs'[clear'.log_id], clear'.new_logs,
                                        clear'.contains_uid_logs, clear'.entry)
    PROVE  SortedInv' /\ \A j \in LogIds : NothingBehind(j)
  <1>1. ASSUME NEW j \in LogIds
        PROVE  Sorted(logs'[j], chunk') /\ NothingBehind(j)
    <2>1. Sorted(logs[j], chunk)
      BY DEF SortedInv
    <2>2. Sorted(logs'[j], chunk')
      BY <2>1, SortedAlike
    <2> QED BY <2>2, LosesBehind
  <1> QED BY <1>1 DEF SortedInv

\* The chunk c was visited, and holds what it held.
VisitedIs(c, visited) ==
    /\ IsAlike(chunk[c], visited)
    /\ c \in DOMAIN chunk'
    /\ chunk'[c] = visited
    /\ \A d \in DOMAIN chunk : d # c => d \in DOMAIN chunk' /\ chunk'[d] = chunk[d]

LEMMA VisitedIsAlike ==
    ASSUME NEW c \in DOMAIN chunk, NEW visited, VisitedIs(c, visited)
    PROVE  \A d \in DOMAIN chunk : /\ d \in DOMAIN chunk'
                                   /\ chunk'[d].entries = chunk[d].entries
                                   /\ chunk'[d].highest_sequence_number
                                         = chunk[d].highest_sequence_number
                                   /\ IsRoomy(chunk[d]) => IsRoomy(chunk'[d])
  <1>1. \A d \in DOMAIN chunk : /\ d \in DOMAIN chunk'
                                /\ chunk'[d] = chunk[d] \/ IsAlike(chunk[d], chunk'[d])
    BY DEF VisitedIs
  <1> QED BY <1>1, AlikeIsRoomy DEF IsAlike, HoldsTheSame

LEMMA ClearSpliceChunkEffect ==
    ASSUME Parts, ChunkInv, SortedInv, ClearSpliceChunk
    PROVE  BufferEffect
  <1>1. /\ Clearing /\ Clearing' /\ clear.entry = 0 /\ logs[clear.log_id] # << >>
        /\ ~clear.contains_uid_logs
    BY DEF ClearSpliceChunk, Clearing
  <1>0. clear.contains_uid_logs = FALSE
    <2>1. clear.contains_uid_logs \in BOOLEAN
      BY DEF Parts, CommandsOK
    <2> QED BY <1>1, <2>1
  <1>2. PICK i, c : ClearIsIn(i, c)
    BY <1>1, ClearIsSomewhere
  <1> DEFINE visited == DecReaderRefCount(IncReaderRefCount(WithoutReaders(chunk[c])))
             new_logs == Append(clear.new_logs, c)
  <1>3. /\ i = clear.log_id /\ c = Head(logs[i])
        /\ i \in LogIds /\ logs[i] \in Seq(ChunkIds) /\ Distinct(logs[i])
        /\ c \in Elements(logs[i]) /\ c \in DOMAIN chunk /\ c \in ChunkIds
        /\ Elements(Tail(logs[i])) = Elements(logs[i]) \ {c}
        /\ chunk[c] \in Chunk /\ IsFiniteSet(chunk[c].readers)
        /\ c \notin Elements(clear.new_logs)
        /\ \A j \in LogIds : j # i => c \notin Elements(logs[j])
    BY <1>2 DEF ClearIsIn
  <1>4. /\ clear.new_logs \in Seq(ChunkIds) /\ Distinct(clear.new_logs)
        /\ Elements(clear.new_logs) \subseteq DOMAIN chunk
        /\ \A d \in Elements(Tail(logs[i])) : Precedes(logs[i], c, d)
        /\ \A d, e : Precedes(Tail(logs[i]), d, e) => Precedes(logs[i], d, e)
    BY <1>2 DEF ClearIsIn
  <1>5. /\ chunk' = [chunk EXCEPT ![c] = visited]
        /\ logs' = [logs EXCEPT ![i] = Tail(logs[i])]
        /\ clear' = [clear EXCEPT !.new_logs = new_logs]
    BY <1>3 DEF ClearSpliceChunk
  <1>6. IsAlike(chunk[c], visited)
    <2> DEFINE c1 == WithoutReaders(chunk[c])
               c2 == IncReaderRefCount(c1)
    <2>1. c1 \in Chunk /\ IsAlike(chunk[c], c1)
      BY <1>3, WithoutReadersType, ReferencesAreAlike
    <2> HIDE DEF c1
    <2>2. c2 \in Chunk /\ IsAlike(c1, c2)
      BY <2>1, RefCountType, ReferencesAreAlike
    <2> HIDE DEF c2
    <2>3. IsAlike(c2, DecReaderRefCount(c2))
      BY <2>2, ReferencesAreAlike
    <2> QED BY <2>1, <2>2, <2>3 DEF IsAlike, HoldsTheSame, c1, c2
  <1> HIDE DEF visited, new_logs
  <1>7. VisitedIs(c, visited) /\ DOMAIN chunk' = DOMAIN chunk
    BY <1>3, <1>5, <1>6 DEF VisitedIs
  <1>8. \A d \in DOMAIN chunk : /\ d \in DOMAIN chunk'
                                /\ chunk'[d].entries = chunk[d].entries
                                /\ chunk'[d].highest_sequence_number
                                      = chunk[d].highest_sequence_number
                                /\ IsRoomy(chunk'[d])
    BY <1>3, <1>7, VisitedIsAlike DEF SortedInv, AreRoomy
  <1>9. logs'[i] = Tail(logs[i]) /\ \A j \in LogIds : j # i => logs'[j] = logs[j]
    BY <1>3, <1>5 DEF Parts, LogsOK
  <1>10. /\ clear'.new_logs = new_logs /\ clear'.entry = 0
         /\ clear'.contains_uid_logs = FALSE /\ clear'.log_id = i
    BY <1>0, <1>1, <1>3, <1>5 DEF Parts, CommandsOK
  <1>11. /\ Elements(new_logs) = Elements(clear.new_logs) \cup {c}
         /\ \A d, e : Precedes(new_logs, d, e) => \/ Precedes(clear.new_logs, d, e)
                                                  \/ d \in Elements(clear.new_logs) /\ e = c
    BY <1>3, <1>4, AppendElements, PrecedesInAppend DEF new_logs
  <1>12. AreRoomy(chunk')
    BY <1>7, <1>8 DEF AreRoomy
  <1>13. /\ Sorted(logs[i], chunk)
         /\ CopiesAreSorted(chunk, logs[i], clear.new_logs, FALSE, 0)
    BY <1>0, <1>1, <1>3 DEF SortedInv
  <1>14. \A d \in Elements(logs[i]) : d \in DOMAIN chunk
    BY <1>3, ListOfLog
  <1>15. \A d \in Elements(clear.new_logs), e \in Elements(logs[i]) : IsBelow(chunk[d], chunk[e])
    BY <1>13 DEF CopiesAreSorted, IsBelow
  <1>16. \A d \in Elements(clear.new_logs) : chunk[d].entries # << >> /\ IsAscending(chunk[d])
    BY <1>1, <1>3, <1>13 DEF CopiesAreSorted, Sorted
  <1>17. Sorted(new_logs, chunk)
    <2>1. \A d, e : Precedes(clear.new_logs, d, e) => chunk[d].entries # << >>
                                                      /\ IsBelow(chunk[d], chunk[e])
      BY <1>13 DEF CopiesAreSorted, Sorted
    <2>2. IsAscending(chunk[c])
      BY <1>3, <1>13 DEF Sorted
    <2> QED BY <1>3, <1>11, <1>15, <1>16, <2>1, <2>2 DEF Sorted
  <1>18. Sorted(new_logs, chunk')
    BY <1>3, <1>4, <1>8, <1>11, <1>17, SortedAlike
  <1>19. ASSUME NEW d \in Elements(new_logs), NEW e \in Elements(Tail(logs[i]))
         PROVE  chunk[d].entries # << >> /\ IsBelow(chunk[d], chunk[e])
    <2>1. CASE d = c
      BY <1>4, <1>13, <2>1 DEF Sorted
    <2> QED BY <1>3, <1>11, <1>15, <1>16, <2>1
  <1>20. CopiesAreSorted(chunk', Tail(logs[i]), new_logs, FALSE, 0)
    <2>1. ASSUME NEW d \in Elements(new_logs), NEW e \in Elements(Tail(logs[i]))
          PROVE  chunk'[d].entries # << >> /\ IsBelow(chunk'[d], chunk'[e])
      <3>1. d \in DOMAIN chunk /\ e \in DOMAIN chunk
        BY <1>3, <1>4, <1>11, <1>14
      <3> QED BY <1>8, <1>19, <3>1 DEF IsBelow
    <2>2. Tail(logs[i]) # << >> => \E e : e \in Elements(Tail(logs[i]))
      <3>1. Tail(logs[i]) \in Seq(ChunkIds) /\ logs[i] # << >>
        BY <1>2, TailElements DEF ClearIsIn
      <3> QED BY <3>1, LastElement
    <2> QED BY <1>18, <2>1, <2>2 DEF CopiesAreSorted, IsBelow
  <1>21. SortedInv' /\ \A j \in LogIds : NothingBehind(j)
    <2>1. ASSUME NEW j \in LogIds
          PROVE  /\ \A d \in Elements(logs'[j]) : d \in Elements(logs[j]) /\ d \in DOMAIN chunk
                 /\ \A d, e : Precedes(logs'[j], d, e) => Precedes(logs[j], d, e)
      <3>1. Elements(logs[j]) \subseteq DOMAIN chunk
        BY ListOfLog
      <3> QED BY <1>3, <1>4, <1>9, <3>1
    <2>2. CopiesAreSorted(chunk', logs'[clear'.log_id], clear'.new_logs,
                          clear'.contains_uid_logs, clear'.entry)
      BY <1>9, <1>10, <1>20
    <2> QED BY <1>8, <1>12, <2>1, <2>2, ShorterListsSorted
  <1>22. ASSUME NEW j \in LogIds
         PROVE  HoldsNoOther(j)
    <2>1. \A d \in ChunksOf(j)' : d \in ChunksOf(j) /\ d \in DOMAIN chunk
      <3>1. Elements(logs[j]) \subseteq DOMAIN chunk
        BY ListOfLog
      <3> QED BY <1>1, <1>3, <1>4, <1>9, <1>10, <1>11, <3>1 DEF ChunksOf
    <2> QED BY <1>8, <2>1, LosesChunks
  <1> QED BY <1>21, <1>22 DEF BufferEffect

LEMMA ClearOpenChunkEffect ==
    ASSUME Parts, ChunkInv, SortedInv, ClearOpenChunk
    PROVE  BufferEffect
  <1>1. Clearing /\ Clearing' /\ clear.entry = 0 /\ logs[clear.log_id] # << >> /\ logs' = logs
    BY DEF ClearOpenChunk, Clearing
  <1>2. PICK i, c : ClearIsIn(i, c)
    BY <1>1, ClearIsSomewhere
  <1> DEFINE visited == IncReaderRefCount(WithoutReaders(chunk[c]))
             opened == [chunk EXCEPT ![c] = visited]
             new == FreshChunk(chunk)
             empty == NewChunk(max_size[i] \div kChunkSizeDivisor)
  <1>3. /\ i = clear.log_id /\ c = Head(logs[i]) /\ i \in LogIds
        /\ c \in Elements(logs[i]) /\ c \in DOMAIN chunk
        /\ chunk[c] \in Chunk /\ IsFiniteSet(chunk[c].readers)
        /\ clear.new_logs \in Seq(ChunkIds) /\ Distinct(clear.new_logs)
        /\ Elements(clear.new_logs) \subseteq DOMAIN chunk
    BY <1>2 DEF ClearIsIn
  <1>4. IsAlike(chunk[c], visited)
    <2> DEFINE c1 == WithoutReaders(chunk[c])
    <2>1. c1 \in Chunk /\ IsAlike(chunk[c], c1)
      BY <1>3, WithoutReadersType, ReferencesAreAlike
    <2> HIDE DEF c1
    <2>2. IsAlike(c1, IncReaderRefCount(c1))
      BY <2>1, ReferencesAreAlike
    <2> QED BY <2>1, <2>2 DEF IsAlike, HoldsTheSame, c1
  <1>5. /\ empty.entries = << >> /\ IsRoomy(empty) /\ IsAscending(empty)
    <2>1. /\ max_size[i] \div kChunkSizeDivisor \in Nat
          /\ SIZEOF_ENTRY + LOGGER_ENTRY_MAX_PAYLOAD <= max_size[i] \div kChunkSizeDivisor
      BY <1>3, ChunkHasRoom
    <2> QED BY <2>1 DEF NewChunk, IsRoomy, IsAscending
  <1>6. \/ /\ clear.contains_uid_logs
           /\ chunk' = opened /\ clear' = [clear EXCEPT !.entry = 1]
        \/ /\ ~clear.contains_uid_logs /\ CanAllocate(chunk)
           /\ chunk' = Allocate(opened, new, empty)
           /\ clear' = [clear EXCEPT !.contains_uid_logs = TRUE, !.entry = 1,
                                     !.new_logs = Append(clear.new_logs, new)]
    BY <1>3, Zenon DEF ClearOpenChunk
  <1>7. /\ Sorted(clear.new_logs, chunk)
        /\ ~clear.contains_uid_logs => \A d \in Elements(clear.new_logs) : chunk[d].entries # << >>
        /\ \A d \in Elements(clear.new_logs), e \in Elements(logs[i]) : IsBelow(chunk[d], chunk[e])
    BY <1>1, <1>3 DEF SortedInv, CopiesAreSorted, IsBelow
  <1>8. \A j \in LogIds : Elements(logs[j]) \subseteq DOMAIN chunk
    BY ListOfLog
  <1>9. AreRoomy(chunk)
    BY DEF SortedInv
  <1> HIDE DEF visited, new, empty
  <1>10. CASE /\ clear.contains_uid_logs
              /\ chunk' = opened /\ clear' = [clear EXCEPT !.entry = 1]
    <2>1. VisitedIs(c, visited) /\ DOMAIN chunk' = DOMAIN chunk
      BY <1>3, <1>4, <1>10 DEF VisitedIs
    <2>2. \A d \in DOMAIN chunk : /\ d \in DOMAIN chunk'
                                  /\ chunk'[d].entries = chunk[d].entries
                                  /\ chunk'[d].highest_sequence_number
                                        = chunk[d].highest_sequence_number
                                  /\ IsRoomy(chunk'[d])
      BY <1>3, <1>9, <2>1, VisitedIsAlike DEF AreRoomy
    <2>3. /\ clear'.new_logs = clear.new_logs /\ clear'.entry = 1
          /\ clear'.contains_uid_logs /\ clear'.log_id = i
      BY <1>3, <1>10 DEF Parts, CommandsOK
    <2>4. AreRoomy(chunk')
      BY <2>1, <2>2 DEF AreRoomy
    <2>5. Sorted(clear.new_logs, chunk')
      BY <1>3, <1>7, <2>2, SortedAlike
    <2>6. ASSUME NEW d \in Elements(clear.new_logs), NEW e \in Elements(logs[i])
          PROVE  IsBelow(chunk'[d], chunk'[e])
      <3>1. d \in DOMAIN chunk /\ e \in DOMAIN chunk
        BY <1>3, <1>8
      <3> QED BY <1>7, <2>2, <3>1 DEF IsBelow
    <2>7. CopiesAreSorted(chunk', logs'[clear'.log_id], clear'.new_logs,
                          clear'.contains_uid_logs, clear'.entry)
      BY <1>1, <2>3, <2>5, <2>6 DEF CopiesAreSorted, IsBelow
    <2>8. SortedInv' /\ \A j \in LogIds : NothingBehind(j)
      <3>1. \A j \in LogIds : \A d \in Elements(logs'[j]) :
              /\ d \in Elements(logs[j])
              /\ chunk'[d].entries = chunk[d].entries
              /\ chunk'[d].highest_sequence_number = chunk[d].highest_sequence_number
        BY <1>1, <1>8, <2>2
      <3> QED BY <1>1, <2>4, <2>7, <3>1, ShorterListsSorted
    <2>9. ASSUME NEW j \in LogIds
          PROVE  HoldsNoOther(j)
      <3>1. \A d \in ChunksOf(j)' : d \in ChunksOf(j) /\ d \in DOMAIN chunk
        BY <1>1, <1>3, <1>8, <2>3 DEF ChunksOf
      <3> QED BY <2>2, <3>1, LosesChunks
    <2> QED BY <2>8, <2>9 DEF BufferEffect
  <1>11. CASE /\ ~clear.contains_uid_logs /\ CanAllocate(chunk)
              /\ chunk' = Allocate(opened, new, empty)
              /\ clear' = [clear EXCEPT !.contains_uid_logs = TRUE, !.entry = 1,
                                        !.new_logs = Append(clear.new_logs, new)]
    <2> DEFINE new_logs == Append(clear.new_logs, new)
    <2>1. new \in ChunkIds /\ new \notin DOMAIN chunk
      BY <1>11, FreshChunkIsFresh DEF new
    <2>2. /\ DOMAIN chunk' = (DOMAIN chunk) \cup {new} /\ chunk'[new] = empty
          /\ VisitedIs(c, visited)
      BY <1>3, <1>4, <1>11, <2>1 DEF VisitedIs, Allocate
    <2>3. \A d \in DOMAIN chunk : /\ d \in DOMAIN chunk'
                                  /\ chunk'[d].entries = chunk[d].entries
                                  /\ chunk'[d].highest_sequence_number
                                        = chunk[d].highest_sequence_number
                                  /\ IsRoomy(chunk'[d])
      BY <1>3, <1>9, <2>2, VisitedIsAlike DEF AreRoomy
    <2>4. /\ clear'.new_logs = new_logs /\ clear'.entry = 1
          /\ clear'.contains_uid_logs /\ clear'.log_id = i
      BY <1>3, <1>11 DEF Parts, CommandsOK
    <2>5. AreRoomy(chunk')
      BY <1>5, <2>2, <2>3 DEF AreRoomy
    <2>6. /\ Elements(new_logs) = Elements(clear.new_logs) \cup {new}
          /\ \A d, e : Precedes(new_logs, d, e) => \/ Precedes(clear.new_logs, d, e)
                                                   \/ d \in Elements(clear.new_logs) /\ e = new
      <3>1. new \notin Elements(clear.new_logs)
        BY <1>3, <2>1
      <3> QED BY <1>3, <2>1, <3>1, AppendElements, PrecedesInAppend
    <2> HIDE DEF new_logs
    <2>7. Sorted(clear.new_logs, chunk')
      BY <1>3, <1>7, <2>3, SortedAlike
    <2>8. \A d : IsBelow(d, empty)
      BY <1>5 DEF IsBelow
    <2>9. \A d \in Elements(clear.new_logs) : chunk'[d].entries # << >>
      BY <1>3, <1>7, <1>11, <2>3
    <2>10. Sorted(new_logs, chunk')
      BY <1>5, <2>2, <2>6, <2>7, <2>8, <2>9 DEF Sorted
    <2>11. ASSUME NEW d \in Elements(new_logs), NEW e \in Elements(logs[i])
           PROVE  IsBelow(chunk'[d], chunk'[e])
      <3>1. CASE d = new
        BY <1>5, <2>2, <3>1 DEF IsBelow
      <3>2. CASE d \in Elements(clear.new_logs)
        <4>1. d \in DOMAIN chunk /\ e \in DOMAIN chunk
          BY <1>3, <1>8, <3>2
        <4> QED BY <1>7, <2>3, <3>2, <4>1 DEF IsBelow
      <3> QED BY <2>6, <3>1, <3>2
    <2>12. CopiesAreSorted(chunk', logs'[clear'.log_id], clear'.new_logs,
                           clear'.contains_uid_logs, clear'.entry)
      BY <1>1, <2>4, <2>10, <2>11 DEF CopiesAreSorted, IsBelow
    <2>13. SortedInv' /\ \A j \in LogIds : NothingBehind(j)
      <3>1. \A j \in LogIds : \A d \in Elements(logs'[j]) :
              /\ d \in Elements(logs[j])
              /\ chunk'[d].entries = chunk[d].entries
              /\ chunk'[d].highest_sequence_number = chunk[d].highest_sequence_number
        BY <1>1, <1>8, <2>3
      <3> QED BY <1>1, <2>5, <2>12, <3>1, ShorterListsSorted
    <2>14. ASSUME NEW j \in LogIds
           PROVE  HoldsNoOther(j)
      <3>1. \A d \in ChunksOf(j)' : d = new \/ (d \in ChunksOf(j) /\ d \in DOMAIN chunk)
        BY <1>1, <1>3, <1>8, <2>4, <2>6 DEF ChunksOf
      <3>2. ~\E k \in 1 .. Len(empty.entries) : TRUE
        BY <1>5
      <3> QED BY <2>2, <2>3, <3>1, <3>2 DEF HoldsNoOther, IsHeld
    <2> QED BY <2>13, <2>14 DEF BufferEffect
  <1> QED BY <1>6, <1>10, <1>11

LEMMA ClearEraseChunkEffect ==
    ASSUME Parts, ChunkInv, SortedInv, ClearEraseChunk
    PROVE  BufferEffect
  <1>1. Clearing /\ Clearing' /\ clear.entry # 0
    BY DEF ClearEraseChunk, Clearing
  <1>2. logs[clear.log_id] # << >> /\ clear.contains_uid_logs
    BY <1>1 DEF Parts, ClearIsConsistent, ChunkInv, NewestAreWritable
  <1>3. PICK i, c : ClearIsIn(i, c)
    BY <1>1, <1>2, ClearIsSomewhere
  <1>4. /\ i = clear.log_id /\ c = Head(logs[i]) /\ i \in LogIds
        /\ c \in Elements(logs[i]) /\ c \in DOMAIN chunk
        /\ Elements(Tail(logs[i])) = Elements(logs[i]) \ {c}
        /\ c \notin Elements(clear.new_logs)
        /\ \A j \in LogIds : j # i => c \notin Elements(logs[j])
        /\ Elements(clear.new_logs) \subseteq DOMAIN chunk
        /\ \A d, e : Precedes(Tail(logs[i]), d, e) => Precedes(logs[i], d, e)
    BY <1>3 DEF ClearIsIn
  <1>5. /\ chunk' = Free(chunk, {c})
        /\ logs' = [logs EXCEPT ![i] = Tail(logs[i])]
        /\ clear' = [clear EXCEPT !.entry = 0]
    BY <1>4 DEF ClearEraseChunk
  <1>6. DOMAIN chunk' = (DOMAIN chunk) \ {c} /\ \A d \in DOMAIN chunk' : chunk'[d] = chunk[d]
    BY <1>5 DEF Free
  <1>7. logs'[i] = Tail(logs[i]) /\ \A j \in LogIds : j # i => logs'[j] = logs[j]
    BY <1>4, <1>5 DEF Parts, LogsOK
  <1>8. /\ clear'.new_logs = clear.new_logs /\ clear'.entry = 0
        /\ clear'.contains_uid_logs /\ clear'.log_id = i
    BY <1>2, <1>4, <1>5 DEF Parts, CommandsOK
  <1>9. AreRoomy(chunk')
    BY <1>6 DEF SortedInv, AreRoomy
  <1>10. \A d \in Elements(clear.new_logs) : chunk'[d] = chunk[d]
    BY <1>4, <1>6
  <1>11. ASSUME NEW j \in LogIds
         PROVE  /\ \A d \in Elements(logs'[j]) : d \in Elements(logs[j]) /\ chunk'[d] = chunk[d]
                /\ \A d, e : Precedes(logs'[j], d, e) => Precedes(logs[j], d, e)
    <2>1. Elements(logs[j]) \subseteq DOMAIN chunk
      BY ListOfLog
    <2> QED BY <1>4, <1>6, <1>7, <2>1
  <1>12. CopiesAreSorted(chunk, logs[i], clear.new_logs, clear.contains_uid_logs, clear.entry)
    BY <1>1, <1>4 DEF SortedInv
  <1>13. CopiesAreSorted(chunk', Tail(logs[i]), clear.new_logs, clear'.contains_uid_logs, 0)
    <2>1. Sorted(clear.new_logs, chunk')
      BY <1>10, <1>12, SortedAlike DEF CopiesAreSorted
    <2>2. ASSUME NEW d \in Elements(clear.new_logs), NEW e \in Elements(Tail(logs[i])),
                 NEW k \in 1 .. Len(chunk'[d].entries), NEW m \in 1 .. Len(chunk'[e].entries)
          PROVE  chunk'[d].entries[k].sequence < chunk'[e].entries[m].sequence
      <3>1. chunk'[d] = chunk[d] /\ chunk'[e] = chunk[e] /\ e \in Elements(logs[i]) /\ e # c
        BY <1>4, <1>7, <1>10, <1>11
      <3> QED BY <1>4, <1>12, <3>1 DEF CopiesAreSorted
    <2> QED BY <1>8, <2>1, <2>2 DEF CopiesAreSorted
  <1>14. SortedInv' /\ \A j \in LogIds : NothingBehind(j)
    BY <1>7, <1>8, <1>9, <1>11, <1>13, ShorterListsSorted
  <1>15. ASSUME NEW j \in LogIds
         PROVE  HoldsNoOther(j)
    <2>1. \A d \in ChunksOf(j)' : d \in ChunksOf(j) /\ chunk'[d] = chunk[d]
      BY <1>1, <1>4, <1>8, <1>10, <1>11 DEF ChunksOf
    <2> QED BY <2>1, LosesChunks
  <1> QED BY <1>14, <1>15 DEF BufferEffect

LEMMA ClearSwapEffect ==
    ASSUME Parts, SortedInv, ClearSwap
    PROVE  BufferEffect
  <1> DEFINE i == clear.log_id
  <1>1. /\ Clearing /\ ~Clearing' /\ logs[i] = << >> /\ chunk' = chunk
        /\ logs' = [logs EXCEPT ![i] = clear.new_logs]
    BY DEF ClearSwap, Clearing
  <1>2. i \in LogIds
    BY <1>1 DEF Parts, ClearIsConsistent
  <1>3. logs'[i] = clear.new_logs /\ \A j \in LogIds : j # i => logs'[j] = logs[j]
    BY <1>1, <1>2 DEF Parts, LogsOK
  <1>4. Sorted(clear.new_logs, chunk)
    BY <1>1 DEF SortedInv, CopiesAreSorted
  <1>5. SortedInv'
    BY <1>1, <1>3, <1>4 DEF SortedInv
  <1>6. ASSUME NEW j \in LogIds
        PROVE  HoldsNoOther(j) /\ NothingBehind(j)
    <2>1. ChunksOf(j)' \subseteq ChunksOf(j)
      BY <1>1, <1>3 DEF ChunksOf
    <2>2. HoldsNoOther(j)
      BY <1>1, <2>1, LosesChunks
    <2>3. CASE j = i
      <3>1. Elements(logs[j]) = {}
        BY <1>1, <2>3 DEF Elements
      <3> QED BY <2>2, <3>1 DEF NothingBehind
    <2>4. CASE j # i
      BY <1>1, <1>3, <2>2, <2>4, LosesBehind
    <2> QED BY <2>3, <2>4
  <1> QED BY <1>5, <1>6 DEF BufferEffect

LEMMA ClearEntryEffect ==
    ASSUME Parts, ChunkInv, SortedInv, ClearEntry
    PROVE  BufferEffect
  <1>1. Clearing /\ Clearing' /\ clear.entry # 0 /\ logs' = logs
    BY DEF ClearEntry, Clearing
  <1>2. logs[clear.log_id] # << >> /\ clear.contains_uid_logs
    BY <1>1 DEF Parts, ClearIsConsistent, ChunkInv, NewestAreWritable
  <1>3. PICK i, c : ClearIsIn(i, c)
    BY <1>1, <1>2, ClearIsSomewhere
  <1>4. /\ i = clear.log_id /\ c = Head(logs[i]) /\ i \in LogIds
        /\ c \in Elements(logs[i]) /\ c \in DOMAIN chunk /\ chunk[c] \in Chunk
        /\ Elements(Tail(logs[i])) = Elements(logs[i]) \ {c}
        /\ c \notin Elements(clear.new_logs)
        /\ \A d \in Elements(Tail(logs[i])) : Precedes(logs[i], c, d)
    BY <1>3 DEF ClearIsIn
  <1>5. /\ IsHeap(chunk) /\ clear.new_logs \in Seq(ChunkIds) /\ Distinct(clear.new_logs)
        /\ Elements(clear.new_logs) \subseteq DOMAIN chunk
        /\ \A j \in LogIds : /\ Elements(logs[j]) \subseteq DOMAIN chunk
                             /\ Elements(logs[j]) \cap Elements(clear.new_logs) = {}
    BY DEF Parts, CommandsOK, ListsAreDisjoint
  <1>6. PICK n : n = clear.entry
    OBVIOUS
  <1> DEFINE entry == chunk[c].entries[n]
  <1>7. n \in 1 .. Len(chunk[c].entries) /\ n \in Nat
    <2>1. n <= Len(chunk[c].entries)
      BY <1>4, <1>6, Zenon DEF ClearEntry
    <2>2. n \in Nat /\ n # 0 /\ Len(chunk[c].entries) \in Nat
      BY <1>1, <1>4, <1>6, ChunkFields DEF Parts, CommandsOK
    <2> QED BY <2>1, <2>2
  <1>8. entry \in Entry
    BY <1>4, <1>7, ChunkFields, ElementOfSeq
  <1>9. entry.msg_len <= LOGGER_ENTRY_MAX_PAYLOAD
    BY <1>4, <1>7 DEF ChunkInv, ChunksAreSound, IsSound
  <1>10. /\ AreRoomy(chunk) /\ Sorted(logs[i], chunk) /\ Sorted(clear.new_logs, chunk)
         /\ \A d \in Elements(clear.new_logs), e \in Elements(logs[i]) :
               \A k \in 1 .. Len(chunk[d].entries), m \in 1 .. Len(chunk[e].entries) :
                  (e = c => n <= m) => chunk[d].entries[k].sequence < chunk[e].entries[m].sequence
    BY <1>1, <1>4, <1>6 DEF SortedInv, CopiesAreSorted
  <1>11. \/ chunk' = chunk /\ clear' = [clear EXCEPT !.entry = n + 1]
         \/ /\ NeedsChunk(chunk, clear.new_logs, entry) => CanAllocate(chunk)
            /\ \E zsize \in ZSizes(chunk, clear.new_logs, entry) :
                  LET logged == LogToLogBuffer(chunk, clear.new_logs, max_size[i], entry, zsize)
                  IN  /\ chunk' = logged.heap
                      /\ clear' = [clear EXCEPT !.entry = n + 1, !.new_logs = logged.list]
    BY <1>4, <1>6, Zenon DEF ClearEntry
  <1>12. CASE chunk' = chunk /\ clear' = [clear EXCEPT !.entry = n + 1]
    <2>1. /\ clear'.new_logs = clear.new_logs /\ clear'.log_id = i
          /\ clear'.contains_uid_logs /\ clear'.entry = n + 1
      BY <1>2, <1>4, <1>12 DEF Parts, CommandsOK
    <2>2. CopiesAreSorted(chunk', logs'[clear'.log_id], clear'.new_logs,
                          clear'.contains_uid_logs, clear'.entry)
      <3>1. ASSUME NEW d \in Elements(clear.new_logs), NEW e \in Elements(logs[i]),
                   NEW k \in 1 .. Len(chunk[d].entries), NEW m \in 1 .. Len(chunk[e].entries),
                   n + 1 # 0 /\ e = Head(logs[i]) => n + 1 <= m
            PROVE  chunk[d].entries[k].sequence < chunk[e].entries[m].sequence
        <4>1. n + 1 # 0
          BY <1>7
        <4>2. e = c => n <= m
          BY <1>4, <1>7, <3>1, <4>1
        <4> QED BY <1>10, <4>2
      <3> QED BY <1>1, <1>10, <1>12, <2>1, <3>1 DEF CopiesAreSorted
    <2>3. SortedInv' /\ \A j \in LogIds : NothingBehind(j)
      BY <1>1, <1>10, <1>12, <2>2, ShorterListsSorted
    <2>4. ASSUME NEW j \in LogIds
          PROVE  HoldsNoOther(j)
      <3>1. ChunksOf(j)' \subseteq ChunksOf(j)
        BY <1>1, <1>4, <2>1 DEF ChunksOf
      <3> QED BY <1>12, <3>1, LosesChunks
    <2> QED BY <2>3, <2>4 DEF BufferEffect
  <1>13. ASSUME NEW zsize \in ZSizes(chunk, clear.new_logs, entry),
                NeedsChunk(chunk, clear.new_logs, entry) => CanAllocate(chunk), NEW logged,
                logged = LogToLogBuffer(chunk, clear.new_logs, max_size[i], entry, zsize),
                chunk' = logged.heap,
                clear' = [clear EXCEPT !.entry = n + 1, !.new_logs = logged.list]
         PROVE  BufferEffect
    <2>1. /\ max_size[i] \in Nat /\ max_size[i] \div kChunkSizeDivisor \in Nat
          /\ SIZEOF_ENTRY + LOGGER_ENTRY_MAX_PAYLOAD <= max_size[i] \div kChunkSizeDivisor
      BY <1>4, ChunkHasRoom
    <2>2. NewestIsWritable(clear.new_logs, chunk)
      BY <1>1, <1>2 DEF ChunkInv, NewestAreWritable
    <2>3. \A d \in Elements(clear.new_logs) : \A k \in 1 .. Len(chunk[d].entries) :
             chunk[d].entries[k].sequence < entry.sequence
      <3>1. n <= n
        BY <1>7
      <3> QED BY <1>4, <1>7, <1>10, <3>1
    <2>4. zsize \in Nat
      BY ZSizesType
    <2> HIDE DEF entry
    <2>5. Extends(chunk, clear.new_logs, logged)
      BY <1>5, <1>8, <1>13, <2>1, <2>4, LogToLogBufferExtends
    <2>6. /\ Sorted(logged.list, logged.heap) /\ AreRoomy(logged.heap)
          /\ Written(chunk, clear.new_logs, entry, logged)
      BY <1>5, <1>8, <1>9, <1>10, <1>13, <2>1, <2>2, <2>3, LogSorts
    <2>7. /\ clear'.new_logs = logged.list /\ clear'.log_id = i
          /\ clear'.contains_uid_logs /\ clear'.entry = n + 1
      BY <1>2, <1>4, <1>13 DEF Parts, CommandsOK
    <2>8. \A j \in LogIds : \A d \in Elements(logs[j]) : chunk'[d] = chunk[d]
      <3>1. \A j \in LogIds : \A d \in Elements(logs[j]) :
               d \in (DOMAIN chunk) \ Elements(clear.new_logs)
        BY <1>5
      <3> QED BY <1>13, <2>6, <3>1 DEF Written
    <2>9. ASSUME NEW d \in Elements(logged.list), NEW k \in 1 .. Len(chunk'[d].entries)
          PROVE  \/ /\ d \in Elements(clear.new_logs) /\ k \in 1 .. Len(chunk[d].entries)
                    /\ chunk'[d].entries[k] = chunk[d].entries[k]
                 \/ chunk'[d].entries[k] = entry
      BY <1>13, <2>6 DEF Written
    <2>10. ASSUME NEW d \in Elements(logged.list), NEW e \in Elements(logs[i]),
                  NEW k \in 1 .. Len(chunk'[d].entries), NEW m \in 1 .. Len(chunk[e].entries),
                  n + 1 # 0 /\ e = Head(logs[i]) => n + 1 <= m
           PROVE  chunk'[d].entries[k].sequence < chunk[e].entries[m].sequence
      <3>0. n + 1 # 0
        BY <1>7
      <3>1. e = c => n < m
        BY <1>4, <1>7, <2>10, <3>0
      <3>2. CASE chunk'[d].entries[k] = entry
        <4>1. CASE e = c
          <5>1. IsAscending(chunk[c])
            BY <1>4, <1>10 DEF Sorted
          <5>2. chunk[c].entries[n].sequence < chunk[c].entries[m].sequence
            BY <1>7, <3>1, <4>1, <5>1 DEF IsAscending
          <5> QED BY <3>2, <4>1, <5>2 DEF entry
        <4>2. CASE e # c
          <5>1. IsBelow(chunk[c], chunk[e])
            BY <1>4, <1>10, <4>2 DEF Sorted
          <5>2. chunk[c].entries[n].sequence < chunk[e].entries[m].sequence
            BY <1>7, <5>1 DEF IsBelow
          <5> QED BY <3>2, <5>2 DEF entry
        <4> QED BY <4>1, <4>2
      <3>3. CASE /\ d \in Elements(clear.new_logs) /\ k \in 1 .. Len(chunk[d].entries)
                 /\ chunk'[d].entries[k] = chunk[d].entries[k]
        <4>1. e = c => n <= m
          BY <1>7, <3>1
        <4> QED BY <1>10, <3>3, <4>1
      <3> QED BY <2>9, <3>2, <3>3
    <2>11. CopiesAreSorted(chunk', logs'[clear'.log_id], clear'.new_logs,
                           clear'.contains_uid_logs, clear'.entry)
      <3>1. \A e \in Elements(logs[i]) : chunk'[e] = chunk[e]
        BY <1>4, <2>8
      <3>2. logs'[clear'.log_id] = logs[i] /\ Sorted(clear'.new_logs, chunk')
        BY <1>1, <1>13, <2>6, <2>7
      <3> QED BY <2>7, <2>10, <3>1, <3>2 DEF CopiesAreSorted
    <2>12. SortedInv' /\ \A j \in LogIds : NothingBehind(j)
      BY <1>1, <1>13, <2>6, <2>8, <2>11, ShorterListsSorted
    <2>13. ASSUME NEW j \in LogIds
           PROVE  HoldsNoOther(j)
      <3> SUFFICES ASSUME NEW e, IsHeld(j, e)'
                   PROVE  IsHeld(j, e)
        BY DEF HoldsNoOther
      <3>1. PICK d \in ChunksOf(j)' : \E k \in 1 .. Len(chunk'[d].entries) :
                   e = chunk'[d].entries[k]
        BY DEF IsHeld
      <3>2. PICK k \in 1 .. Len(chunk'[d].entries) : e = chunk'[d].entries[k]
        BY <3>1
      <3>3. CASE d \in Elements(logs[j])
        BY <2>8, <3>2, <3>3 DEF IsHeld, ChunksOf
      <3>4. CASE j = i /\ d \in Elements(logged.list)
        <4>1. CASE e = entry
          BY <1>4, <1>7, <3>4, <4>1 DEF IsHeld, ChunksOf, entry
        <4>2. CASE e # entry
          BY <1>1, <1>4, <2>9, <3>2, <3>4, <4>2 DEF IsHeld, ChunksOf
        <4> QED BY <4>1, <4>2
      <3> QED BY <1>1, <2>7, <3>1, <3>3, <3>4 DEF ChunksOf
    <2> QED BY <2>12, <2>13 DEF BufferEffect
  <1> QED BY <1>11, <1>12, <1>13

\* Whatever writers and commands do, the logs stay sorted, nothing but what is logged
\* comes into them, and nothing comes behind a position.
LEMMA BufferNextEffect ==
    ASSUME Parts, ChunkInv, SortedInv, LogsInOrder, BufferNext
    PROVE  BufferEffect
  <1>1. ASSUME NEW w \in Writers, TakeSequence(w) PROVE BufferEffect
    <2>1. UNCHANGED <<chunk, logs, clear, logd_lock>>
      BY <1>1 DEF TakeSequence
    <2> QED BY <2>1, SameEffect DEF Clearing
  <1>2. ASSUME ReinitTrigger PROVE BufferEffect
    <2>1. UNCHANGED <<chunk, logs, clear, logd_lock>>
      BY <1>2 DEF ReinitTrigger
    <2> QED BY <2>1, SameEffect DEF Clearing
  <1>3. ASSUME ClearStep PROVE BufferEffect
    BY <1>3, ClearSpliceChunkEffect, ClearOpenChunkEffect, ClearEntryEffect,
       ClearEraseChunkEffect, ClearSwapEffect DEF ClearStep
  <1>4. \A m \in Messages : m.uid \in Nat
    BY MessageAssumption
  <1> QED BY <1>1, <1>2, <1>3, <1>4, LogEffect, ClearAllEffect, SetSizeEffect, UidClearEffect
          DEF BufferNext

-----------------------------------------------------------------------------
(***************************************************************************)
(* What the step of a thread leaves in the buffer                           *)
(***************************************************************************)

\* The chunks hold what they held.
AreAlike(heap) ==
    /\ DOMAIN heap = DOMAIN chunk
    /\ \A c \in DOMAIN chunk : IsAlike(chunk[c], heap[c])

\* The thread has read everything in the log.
HasReadAll(s, i) == \A e : IsHeld(i, e) => HasRead(s, i, e)

\* SerializedFlushToState::UpdateLogsNeeded(): the position of s in log i is pos, or the
\* front of the next chunk when pos is at the end of one; and log i is needed from its next
\* position only when there is nothing behind it.
Reaches(s, i, pos, new) ==
    /\ state' = [state EXCEPT ![s] = new]
    /\ new.start = state[s].start /\ new.log_mask = state[s].log_mask
    /\ DOMAIN new.log_positions = (DOMAIN state[s].log_positions) \cup {i}
    /\ \A j \in (DOMAIN state[s].log_positions) \ {i} :
          new.log_positions[j] = state[s].log_positions[j]
    /\ \A j : j # i => (j \in new.logs_needed <=> j \in state[s].logs_needed)
    /\ \/ /\ new.log_positions[i] = pos
          /\ i \in new.logs_needed => /\ ~MoreInChunk(pos, chunk)
                                      /\ pos.buffer_it = logs[i][Len(logs[i])]
       \/ \E k \in 1 .. Len(logs[i]) - 1 :
             /\ ~MoreInChunk(pos, chunk)
             /\ pos.buffer_it = logs[i][k]
             /\ new.log_positions[i].buffer_it = logs[i][k + 1]
             /\ new.log_positions[i].read_offset = 0
             /\ i \in new.logs_needed => Len(chunk[logs[i][k + 1]].entries) <= 0

LEMMA UpdateLogsNeededReaches ==
    ASSUME Parts, NEW s \in DOMAIN state, NEW i \in LogIds, NEW heap, IsHeap(heap),
           AreAlike(heap), NEW pos \in Position, pos.buffer_it \in DOMAIN chunk,
           UpdateLogsNeeded(s, i, pos, heap)
    PROVE  AreAlike(chunk') /\ \E new : Reaches(s, i, pos, new)
  <1> DEFINE st == SetPosition(state[s], i, pos)
             list == logs[i]
  <1>1. IsState(state[s])
    BY DEF Parts, StatesOK
  <1>2. /\ IsState(st)
        /\ DOMAIN st.log_positions = (DOMAIN state[s].log_positions) \cup {i}
        /\ st.log_positions[i] = pos
        /\ \A j \in (DOMAIN state[s].log_positions) \ {i} :
              st.log_positions[j] = state[s].log_positions[j]
        /\ st.logs_needed = state[s].logs_needed
    BY <1>1, SetPositionType
  <1>3. st.start = state[s].start /\ st.log_mask = state[s].log_mask
    BY <1>1 DEF SetPosition, IsState, FlushToState
  <1>10. \A p \in Position : p.buffer_it \in DOMAIN chunk =>
             (MoreInChunk(p, heap) <=> MoreInChunk(p, chunk))
    BY DEF MoreInChunk, AreAlike, IsAlike, HoldsTheSame
  <1>4. ASSUME NEW needed \in SUBSET LogIds, chunk' = heap,
               \A j : j # i => (j \in needed <=> j \in st.logs_needed),
               i \in needed => ~MoreInChunk(pos, chunk) /\ pos.buffer_it = list[Len(list)],
               state' = [state EXCEPT ![s] = [st EXCEPT !.logs_needed = needed]]
        PROVE  AreAlike(chunk') /\ \E new : Reaches(s, i, pos, new)
    <2> DEFINE new == [st EXCEPT !.logs_needed = needed]
    <2> HIDE DEF st
    <2>1. new.log_positions = st.log_positions /\ new.start = st.start
          /\ new.log_mask = st.log_mask /\ new.logs_needed = needed
      BY <1>2 DEF IsState, FlushToState
    <2>2. state' = [state EXCEPT ![s] = new]
      BY <1>4
    <2> HIDE DEF new
    <2>3. Reaches(s, i, pos, new)
      BY <1>2, <1>3, <1>4, <2>1, <2>2 DEF Reaches
    <2> QED BY <1>4, <2>3
  <1>5. ASSUME NEW k \in 1 .. Len(list) - 1, pos.buffer_it = list[k], ~MoreInChunk(pos, heap),
               LET next == [buffer_it |-> list[k + 1], read_offset |-> 0]
               IN  /\ chunk' = [heap EXCEPT ![list[k]] = DetachReader(@, s),
                                            ![list[k + 1]] = AttachReader(@, s)]
                   /\ state' = [state EXCEPT ![s] =
                         [SetPosition(st, i, next) EXCEPT
                             !.logs_needed = IF MoreInChunk(next, heap) THEN @ \ {i}
                                                                        ELSE @ \cup {i}]]
        PROVE  AreAlike(chunk') /\ \E new : Reaches(s, i, pos, new)
    <2> DEFINE a == list[k]
               b == list[k + 1]
               next == [buffer_it |-> b, read_offset |-> 0]
               st2 == SetPosition(st, i, next)
               needed == IF MoreInChunk(next, heap) THEN st2.logs_needed \ {i}
                                                    ELSE st2.logs_needed \cup {i}
               new == [st2 EXCEPT !.logs_needed = needed]
    <2>1. /\ a \in Elements(list) /\ b \in Elements(list) /\ a # b
          /\ a \in DOMAIN chunk /\ b \in DOMAIN chunk /\ b \in ChunkIds
      <3>1. /\ list \in Seq(ChunkIds) /\ Len(list) \in Nat /\ Distinct(list)
            /\ Elements(list) \subseteq DOMAIN chunk
        BY LenProperties DEF Parts, LogsOK, ListsAreDisjoint
      <3>2. k \in 1 .. Len(list) /\ k + 1 \in 1 .. Len(list) /\ k # k + 1
        BY <3>1
      <3>3. a \in Elements(list) /\ b \in Elements(list) /\ a # b
        BY <3>1, <3>2 DEF Elements, Distinct
      <3> QED BY <3>1, <3>2, <3>3, ElementOfSeq
    <2>2. chunk' = [heap EXCEPT ![a] = DetachReader(heap[a], s), ![b] = AttachReader(heap[b], s)]
      BY <1>5, <2>1
    <2>3. state' = [state EXCEPT ![s] = new]
      BY <1>5
    <2>4. next \in Position /\ next.buffer_it = b /\ next.read_offset = 0
      BY <2>1 DEF Position
    <2> HIDE DEF a, b, next, st
    <2>5. /\ IsState(st2)
          /\ DOMAIN st2.log_positions = (DOMAIN st.log_positions) \cup {i}
          /\ st2.log_positions[i] = next
          /\ \A j \in (DOMAIN st.log_positions) \ {i} :
                st2.log_positions[j] = st.log_positions[j]
          /\ st2.logs_needed = st.logs_needed
      BY <1>2, <2>4, SetPositionType
    <2>6. st2.start = st.start /\ st2.log_mask = st.log_mask
      BY <1>2 DEF SetPosition, IsState, FlushToState
    <2> HIDE DEF st2
    <2>7. /\ needed \in SUBSET LogIds
          /\ \A j : j # i => (j \in needed <=> j \in st2.logs_needed)
      BY <2>5 DEF IsState, FlushToState
    <2>16. i \in needed => Len(chunk[b].entries) <= 0
      <3>1. i \in needed => ~MoreInChunk(next, chunk)
        BY <1>10, <2>1, <2>4
      <3>2. Len(chunk[b].entries) \in Nat
        BY <2>1, LenProperties DEF Parts, IsHeap, Chunk
      <3> QED BY <2>4, <3>1, <3>2 DEF MoreInChunk
    <2> HIDE DEF needed
    <2>8. new.log_positions = st2.log_positions /\ new.start = st2.start
          /\ new.log_mask = st2.log_mask /\ new.logs_needed = needed
      BY <2>5, <2>7 DEF IsState, FlushToState
    <2> HIDE DEF new
    <2>9. /\ DOMAIN new.log_positions = (DOMAIN state[s].log_positions) \cup {i}
          /\ \A j \in (DOMAIN state[s].log_positions) \ {i} :
                new.log_positions[j] = state[s].log_positions[j]
          /\ new.start = state[s].start /\ new.log_mask = state[s].log_mask
          /\ new.log_positions[i].buffer_it = b /\ new.log_positions[i].read_offset = 0
          /\ \A j : j # i => (j \in new.logs_needed <=> j \in state[s].logs_needed)
          /\ i \in new.logs_needed => Len(chunk[b].entries) <= 0
      BY <1>2, <1>3, <2>4, <2>5, <2>6, <2>7, <2>8, <2>16
    <2>10. \E m \in 1 .. Len(logs[i]) - 1 :
              /\ ~MoreInChunk(pos, chunk)
              /\ pos.buffer_it = logs[i][m]
              /\ new.log_positions[i].buffer_it = logs[i][m + 1]
              /\ new.log_positions[i].read_offset = 0
              /\ i \in new.logs_needed => Len(chunk[logs[i][m + 1]].entries) <= 0
      BY <1>5, <1>10, <2>9 DEF b
    <2>11. Reaches(s, i, pos, new)
      BY <2>3, <2>9, <2>10, Zenon DEF Reaches
    <2>12. heap[a] \in Chunk /\ heap[b] \in Chunk
      BY <2>1 DEF IsHeap, AreAlike
    <2>13. /\ IsAlike(heap[a], DetachReader(heap[a], s))
           /\ IsAlike(heap[b], AttachReader(heap[b], s))
      BY <2>12, ReferencesAreAlike
    <2>14. /\ DOMAIN chunk' = DOMAIN chunk
           /\ \A d \in DOMAIN chunk : \/ d = a /\ chunk'[d] = DetachReader(heap[a], s)
                                      \/ d = b /\ chunk'[d] = AttachReader(heap[b], s)
                                      \/ chunk'[d] = heap[d]
      BY <2>1, <2>2 DEF AreAlike
    <2>15. AreAlike(chunk')
      BY <2>13, <2>14 DEF AreAlike, IsAlike, HoldsTheSame
    <2> QED BY <2>11, <2>15
  <1>6. \/ /\ chunk' = heap
           /\ state' = [state EXCEPT ![s] = [st EXCEPT !.logs_needed = st.logs_needed \ {i}]]
        \/ /\ chunk' = heap
           /\ ~MoreInChunk(pos, heap) /\ pos.buffer_it = list[Len(list)]
           /\ state' = [state EXCEPT ![s] = [st EXCEPT !.logs_needed = st.logs_needed \cup {i}]]
        \/ /\ ~MoreInChunk(pos, heap)
           /\ \E k \in 1 .. Len(list) - 1 :
              LET next == [buffer_it |-> list[k + 1], read_offset |-> 0]
              IN  /\ pos.buffer_it = list[k]
                  /\ chunk' = [heap EXCEPT ![list[k]] = DetachReader(@, s),
                                           ![list[k + 1]] = AttachReader(@, s)]
                  /\ state' = [state EXCEPT ![s] =
                        [SetPosition(st, i, next) EXCEPT
                            !.logs_needed = IF MoreInChunk(next, heap) THEN @ \ {i}
                                                                       ELSE @ \cup {i}]]
    BY DEF UpdateLogsNeeded
  <1>7. /\ st.logs_needed \ {i} \in SUBSET LogIds /\ st.logs_needed \cup {i} \in SUBSET LogIds
        /\ i \notin st.logs_needed \ {i}
        /\ \A j : j # i => /\ j \in st.logs_needed \ {i} <=> j \in st.logs_needed
                           /\ j \in st.logs_needed \cup {i} <=> j \in st.logs_needed
    BY <1>2 DEF IsState, FlushToState
  <1> HIDE DEF st, list
  <1> QED BY <1>4, <1>5, <1>6, <1>7, <1>10

\* The position CheckForNewLogs() starts from in log i: the one s has, or the one that
\* CreateLogPosition() finds.
IsFrom(s, i, pos) ==
    /\ i \in state[s].logs_needed
    /\ pos \in Position
    /\ pos.buffer_it \in Elements(logs[i]) /\ pos.buffer_it \in DOMAIN chunk
    /\ \/ i \in DOMAIN state[s].log_positions /\ pos = state[s].log_positions[i]
       \/ /\ i \notin DOMAIN state[s].log_positions
          /\ \E k \in 1 .. Len(logs[i]) :
                /\ pos.buffer_it = logs[i][k]
                /\ IsStartChunk(k, state[s].start, logs[i], chunk)
                /\ IsStartOffset(pos.read_offset, state[s].start, chunk[logs[i][k]].entries)

LEMMA CheckForNewLogsReaches ==
    ASSUME Parts, NEW r \in Readers, CheckForNewLogs(r)
    PROVE  LET s == Current(r)
               i == thread[r].log_id
           IN  /\ i \in LogIds /\ s \in DOMAIN state
               /\ AreAlike(chunk')
               /\ \/ /\ state' = state
                     /\ \/ i \notin state[s].logs_needed
                        \/ i \notin DOMAIN state[s].log_positions /\ logs[i] = << >>
                  \/ \E pos, new : IsFrom(s, i, pos) /\ Reaches(s, i, pos, new)
  <1> DEFINE s == Current(r)
             i == thread[r].log_id
  <1>1. /\ thread[r].pc = "flush" /\ i < LOG_ID_MAX
    BY DEF CheckForNewLogs, Flushing
  <1>2. \/ /\ i \notin state[s].logs_needed \/ (~HasPosition(state[s], i) /\ logs[i] = << >>)
           /\ UNCHANGED <<chunk, state>>
        \/ i \in state[s].logs_needed /\ ~HasPosition(state[s], i) /\ CreateLogPosition(s, i)
        \/ /\ i \in state[s].logs_needed /\ HasPosition(state[s], i)
           /\ UpdateLogsNeeded(s, i, state[s].log_positions[i], chunk)
    BY DEF CheckForNewLogs
  <1>3. s \in DOMAIN state
    BY <1>1, CurrentIsLive
  <1>4. i \in LogIds
    <2>1. i \in 0 .. LOG_ID_MAX
      BY DEF Parts, ThreadsOK, Thread
    <2> QED BY <1>1, <2>1, LogIdAssumption DEF LogIds
  <1>5. IsHeap(chunk) /\ AreAlike(chunk)
    BY DEF Parts, AreAlike, IsAlike, HoldsTheSame
  <1> HIDE DEF s, i
  <1>6. CASE /\ i \notin state[s].logs_needed \/ (~HasPosition(state[s], i) /\ logs[i] = << >>)
             /\ UNCHANGED <<chunk, state>>
    BY <1>3, <1>4, <1>5, <1>6 DEF HasPosition, s, i
  <1>7. ASSUME i \in state[s].logs_needed, ~HasPosition(state[s], i), CreateLogPosition(s, i)
        PROVE  AreAlike(chunk') /\ \E pos, new : IsFrom(s, i, pos) /\ Reaches(s, i, pos, new)
    <2>1. PICK k \in 1 .. Len(logs[i]) : \E n \in 0 .. Len(chunk[logs[i][k]].entries) :
              /\ IsStartChunk(k, state[s].start, logs[i], chunk)
              /\ IsStartOffset(n, state[s].start, chunk[logs[i][k]].entries)
              /\ UpdateLogsNeeded(s, i, [buffer_it |-> logs[i][k], read_offset |-> n],
                                  [chunk EXCEPT ![logs[i][k]] = AttachReader(@, s)])
      BY <1>7 DEF CreateLogPosition
    <2> DEFINE c == logs[i][k]
               heap == [chunk EXCEPT ![c] = AttachReader(@, s)]
    <2>2. PICK n \in 0 .. Len(chunk[c].entries) :
              /\ IsStartChunk(k, state[s].start, logs[i], chunk)
              /\ IsStartOffset(n, state[s].start, chunk[c].entries)
              /\ UpdateLogsNeeded(s, i, [buffer_it |-> c, read_offset |-> n], heap)
      BY <2>1
    <2> DEFINE pos == [buffer_it |-> c, read_offset |-> n]
    <2>3. c \in Elements(logs[i]) /\ c \in DOMAIN chunk /\ c \in ChunkIds
      <3>1. c \in Elements(logs[i])
        BY DEF Elements
      <3> QED BY <1>4, <3>1 DEF Parts, ListsAreDisjoint, IsHeap
    <2>4. s \in States /\ chunk[c] \in Chunk /\ IsFiniteSet(chunk[c].readers)
      BY <1>3, <2>3 DEF Parts, StatesOK, IsHeap
    <2>5. /\ AttachReader(chunk[c], s) \in Chunk
          /\ IsAlike(chunk[c], AttachReader(chunk[c], s))
          /\ IsFiniteSet(AttachReader(chunk[c], s).readers)
      BY <2>4, AttachReaderType, ReferencesAreAlike
    <2>6. Len(chunk[c].entries) \in Nat
      BY <2>4, LenProperties DEF Chunk
    <2>7. pos \in Position /\ pos.buffer_it = c /\ pos.read_offset = n
      BY <2>3, <2>6 DEF Position
    <2>8. /\ DOMAIN heap = DOMAIN chunk /\ heap[c] = AttachReader(chunk[c], s)
          /\ \A d \in (DOMAIN chunk) \ {c} : heap[d] = chunk[d]
      BY <2>3
    <2>9. UpdateLogsNeeded(s, i, pos, heap)
      BY <2>2
    <2> HIDE DEF heap, pos
    <2>10. IsHeap(heap)
      <3>1. \A d \in DOMAIN chunk : chunk[d] \in Chunk /\ IsFiniteSet(chunk[d].readers)
        BY DEF Parts, IsHeap
      <3>2. \A d \in DOMAIN chunk : heap[d] \in Chunk /\ IsFiniteSet(heap[d].readers)
        BY <2>3, <2>5, <2>8, <3>1
      <3> QED BY <2>8, <3>2 DEF Parts, IsHeap
    <2>11. AreAlike(heap)
      BY <2>3, <2>5, <2>8 DEF AreAlike, IsAlike, HoldsTheSame
    <2>12. AreAlike(chunk') /\ \E new : Reaches(s, i, pos, new)
      BY <1>3, <1>4, <2>3, <2>7, <2>9, <2>10, <2>11, UpdateLogsNeededReaches
    <2>13. i \notin DOMAIN state[s].log_positions
      BY <1>7 DEF HasPosition
    <2>14. IsFrom(s, i, pos)
      BY <1>7, <2>2, <2>3, <2>7, <2>13 DEF IsFrom
    <2> QED BY <2>12, <2>14, Zenon
  <1>8. ASSUME i \in state[s].logs_needed, HasPosition(state[s], i),
               UpdateLogsNeeded(s, i, state[s].log_positions[i], chunk)
        PROVE  AreAlike(chunk') /\ \E pos, new : IsFrom(s, i, pos) /\ Reaches(s, i, pos, new)
    <2> DEFINE pos == state[s].log_positions[i]
    <2>1. i \in DOMAIN state[s].log_positions
      BY <1>8 DEF HasPosition
    <2>2. pos \in Position
      BY <1>3, <2>1 DEF Parts, StatesOK, IsState, FlushToState
    <2>3. pos.buffer_it \in Elements(logs[i]) /\ pos.buffer_it \in DOMAIN chunk
      BY <1>3, <2>1 DEF Parts, PositionsAreValid
    <2>4. AreAlike(chunk') /\ \E new : Reaches(s, i, pos, new)
      BY <1>3, <1>4, <1>5, <1>8, <2>2, <2>3, UpdateLogsNeededReaches
    <2>5. IsFrom(s, i, pos)
      BY <1>8, <2>1, <2>2, <2>3 DEF IsFrom
    <2> QED BY <2>4, <2>5, Zenon
  <1>9. /\ i \in LogIds /\ s \in DOMAIN state
        /\ AreAlike(chunk')
        /\ \/ /\ state' = state
              /\ \/ i \notin state[s].logs_needed
                 \/ i \notin DOMAIN state[s].log_positions /\ logs[i] = << >>
           \/ \E pos, new : IsFrom(s, i, pos) /\ Reaches(s, i, pos, new)
    BY <1>2, <1>3, <1>4, <1>5, <1>6, <1>7, <1>8, Zenon DEF HasPosition
  <1> QED BY <1>9 DEF s, i

\* The logs hold what they held.
LogsRest ==
    /\ AreAlike(chunk')
    /\ UNCHANGED <<logs, clear>>
    /\ Clearing' <=> Clearing

\* No step of a thread changes what is in the buffer.
BufferRests == LogsRest /\ UNCHANGED <<sequence, pending, late, commands>>

LEMMA StepRests ==
    ASSUME Parts, NEW r \in Readers, StepOf(r)
    PROVE  BufferRests
  <1>1. AreAlike(chunk)
    BY DEF AreAlike, IsAlike, HoldsTheSame
  <1>2. ASSUME NEW s, chunk' = DetachAll(s) PROVE AreAlike(chunk')
    <2>1. \A c \in DOMAIN chunk : IsAlike(chunk[c], DetachReader(chunk[c], s))
      BY ReferencesAreAlike DEF Parts, IsHeap
    <2> QED BY <1>1, <1>2, <2>1 DEF DetachAll, AreAlike
  <1>3. {r} # {"command"} /\ {} # {"command"}
    BY ReaderAssumption
  <1>4. CASE \/ OnDataAvailable(r) \/ CreateThread(r) \/ DoSocketDelete(r) \/ DeadlinePasses(r)
             \/ LoopTop(r) \/ AfterWaitUntil(r) \/ FlushToEntry(r) \/ FlushToNoMore(r)
             \/ WriteSucceeds(r) \/ WriteFails(r) \/ SecondPassReturns(r)
    <2>1. UNCHANGED bufferVars
      <3>1. CASE OnDataAvailable(r) \/ CreateThread(r) \/ DoSocketDelete(r) \/ DeadlinePasses(r)
        BY <3>1, Zenon DEF OnDataAvailable, CreateThread, DoSocketDelete, DeadlinePasses
      <3>2. CASE LoopTop(r) \/ AfterWaitUntil(r) \/ FlushToEntry(r) \/ FlushToNoMore(r)
        BY <3>2, Zenon DEF LoopTop, AfterWaitUntil, FlushToEntry, FlushToNoMore
      <3>3. CASE WriteSucceeds(r) \/ WriteFails(r) \/ SecondPassReturns(r)
        BY <3>3, Zenon DEF WriteSucceeds, WriteFails, SecondPassReturns
      <3> QED BY <1>4, <3>1, <3>2, <3>3
    <2>2. logd_lock' = logd_lock \/ (logd_lock \in {{}, {r}} /\ logd_lock' \in {{}, {r}})
      <3>1. CASE OnDataAvailable(r) \/ CreateThread(r) \/ DoSocketDelete(r) \/ DeadlinePasses(r)
        BY <3>1 DEF OnDataAvailable, CreateThread, DoSocketDelete, DeadlinePasses, LockFree
      <3>2. CASE LoopTop(r)
        BY <3>2, Zenon DEF LoopTop, EnterFlushTo, LeaveLoop, LockFree
      <3>3. CASE AfterWaitUntil(r)
        BY <3>3, Zenon DEF AfterWaitUntil, EnterFlushTo, LeaveLoop, LockFree
      <3>4. CASE FlushToEntry(r)
        BY <3>4, Zenon DEF FlushToEntry, Flushing
      <3>5. CASE FlushToNoMore(r) \/ WriteSucceeds(r) \/ WriteFails(r) \/ SecondPassReturns(r)
        BY <3>5 DEF FlushToNoMore, WriteSucceeds, WriteFails, SecondPassReturns, LockFree
      <3> QED BY <1>4, <3>1, <3>2, <3>3, <3>4, <3>5
    <2>3. Clearing' <=> Clearing
      BY <1>3, <2>2 DEF Clearing
    <2> QED BY <1>1, <2>1, <2>3 DEF BufferRests, LogsRest, bufferVars
  <1>5. CASE FindReturns(r) \/ FirstPassReturns(r) \/ ThreadExits(r)
    <2>1. PICK s : chunk' = DetachAll(s)
      BY <1>5 DEF FindReturns, FirstPassReturns, ThreadExits
    <2>2. /\ logd_lock = {r} /\ logd_lock' \in {{}, {r}}
          /\ UNCHANGED <<logs, sequence, pending, clear, late, commands>>
      BY <1>5 DEF FindReturns, FirstPassReturns, ThreadExits
    <2> QED BY <1>2, <1>3, <2>1, <2>2 DEF BufferRests, LogsRest, Clearing
  <1>6. CASE CheckForNewLogs(r)
    <2>1. UNCHANGED <<logs, sequence, pending, clear, late, commands, logd_lock>>
      BY <1>6 DEF CheckForNewLogs
    <2> QED BY <1>6, <2>1, CheckForNewLogsReaches DEF BufferRests, LogsRest, Clearing
  <1> QED BY <1>4, <1>5, <1>6 DEF StepOf, ReaderStep

\* Then the entries stay in the order they are in, and the logs hold what they held.
LEMMA RestsSorted ==
    ASSUME Parts, SortedInv, LogsRest
    PROVE  SortedInv' /\ \A i \in LogIds : \A e : IsHeld(i, e)' <=> IsHeld(i, e)
  <1>1. \A c \in DOMAIN chunk : /\ chunk'[c].entries = chunk[c].entries
                                /\ chunk'[c].highest_sequence_number
                                      = chunk[c].highest_sequence_number
    BY DEF LogsRest, AreAlike, IsAlike, HoldsTheSame
  <1>2. AreRoomy(chunk')
    BY AlikeIsRoomy DEF LogsRest, AreAlike, SortedInv, AreRoomy
  <1>3. logs' = logs /\ clear' = clear /\ (Clearing' <=> Clearing)
    BY DEF LogsRest
  <1>4. /\ \A i \in LogIds : Elements(logs[i]) \subseteq DOMAIN chunk
        /\ Elements(clear.new_logs) \subseteq DOMAIN chunk
        /\ Clearing => clear.log_id \in LogIds
    BY DEF Parts, ListsAreDisjoint, ClearIsConsistent
  <1>5. \A i \in LogIds : Sorted(logs[i], chunk')
    BY <1>1, <1>4, SortedAlike DEF SortedInv
  <1>6. Clearing => CopiesAreSorted(chunk', logs[clear.log_id], clear.new_logs,
                                    clear.contains_uid_logs, clear.entry)
    <2> SUFFICES ASSUME Clearing
                 PROVE  CopiesAreSorted(chunk', logs[clear.log_id], clear.new_logs,
                                        clear.contains_uid_logs, clear.entry)
      OBVIOUS
    <2>1. CopiesAreSorted(chunk, logs[clear.log_id], clear.new_logs,
                          clear.contains_uid_logs, clear.entry)
      BY DEF SortedInv
    <2>2. Sorted(clear.new_logs, chunk')
      BY <1>1, <1>4, <2>1, SortedAlike DEF CopiesAreSorted
    <2>3. /\ \A c \in Elements(clear.new_logs) : chunk'[c].entries = chunk[c].entries
          /\ \A c \in Elements(logs[clear.log_id]) : chunk'[c].entries = chunk[c].entries
      BY <1>1, <1>4
    <2> QED BY <2>1, <2>2, <2>3 DEF CopiesAreSorted
  <1>7. SortedInv'
    BY <1>2, <1>3, <1>5, <1>6 DEF SortedInv
  <1>8. ASSUME NEW i \in LogIds PROVE \A e : IsHeld(i, e)' <=> IsHeld(i, e)
    <2>1. ChunksOf(i)' = ChunksOf(i) /\ ChunksOf(i) \subseteq DOMAIN chunk
      BY <1>3, <1>4 DEF ChunksOf
    <2> QED BY <1>1, <2>1 DEF IsHeld
  <1> QED BY <1>7, <1>8

-----------------------------------------------------------------------------
(***************************************************************************)
(* The numbers of the entries                                               *)
(***************************************************************************)

\* What a log holds are entries.
LEMMA HeldAreEntries ==
    ASSUME Parts, NEW i \in LogIds, NEW e, IsHeld(i, e)
    PROVE  e \in Entry /\ e.sequence \in Nat
  <1>1. PICK c \in ChunksOf(i) : \E k \in 1 .. Len(chunk[c].entries) : e = chunk[c].entries[k]
    BY DEF IsHeld
  <1>2. c \in DOMAIN chunk
    BY <1>1 DEF ChunksOf, Parts, ListsAreDisjoint
  <1>3. chunk[c].entries \in Seq(Entry)
    BY <1>2 DEF Parts, IsHeap, Chunk
  <1>4. e \in Entry
    BY <1>1, <1>3, ElementOfSeq
  <1> QED BY <1>4 DEF Entry

\* A state's position is in a log, so that what was read there is held.
LEMMA ReadAreHeld ==
    ASSUME Parts, NEW s \in DOMAIN state, NEW i, NEW e, HasRead(s, i, e)
    PROVE  i \in LogIds /\ IsHeld(i, e)
  <1>1. i \in LogIds
    BY DEF HasRead, Parts, StatesOK, IsState
  <1> QED BY <1>1 DEF HasRead, IsHeld, ChunksOf

\* TakeSequence() hands out the next number, and Log() logs the entry that has it.
LEMMA BufferNextNumbers ==
    ASSUME Parts, BufferNext
    PROVE  /\ \A r \in Readers : late[r] \subseteq late'[r]
           /\ \A w \in DOMAIN pending' :
                 \/ w \in DOMAIN pending /\ pending'[w] = pending[w] /\ sequence' = sequence
                 \/ w \in DOMAIN pending /\ pending'[w] = pending[w] /\ sequence' = sequence + 1
                 \/ /\ w \notin DOMAIN pending /\ w \in Writers
                    /\ pending'[w].entry.sequence = sequence /\ sequence' = sequence + 1
           /\ sequence' \in {sequence, sequence + 1}
           /\ \A w \in DOMAIN pending : w \notin DOMAIN pending' => Log(w)
  <1>1. CASE UNCHANGED <<sequence, pending, late>>
    BY <1>1
  <1>2. ASSUME NEW w \in Writers, TakeSequence(w)
        PROVE  /\ \A r \in Readers : late[r] \subseteq late'[r]
               /\ \A v \in DOMAIN pending' :
                     \/ v \in DOMAIN pending /\ pending'[v] = pending[v] /\ sequence' = sequence + 1
                     \/ /\ v \notin DOMAIN pending /\ v \in Writers
                        /\ pending'[v].entry.sequence = sequence /\ sequence' = sequence + 1
               /\ sequence' = sequence + 1
               /\ \A v \in DOMAIN pending : v \in DOMAIN pending'
    BY <1>2 DEF TakeSequence
  <1>3. ASSUME NEW w \in Writers, Log(w)
        PROVE  /\ \A r \in Readers : late[r] \subseteq late'[r]
               /\ \A v \in DOMAIN pending' :
                     v \in DOMAIN pending /\ pending'[v] = pending[v] /\ sequence' = sequence
               /\ sequence' = sequence
               /\ \A v \in DOMAIN pending : v \notin DOMAIN pending' => v = w
    <2>1. PICK entry : late' = [r \in Readers |-> IF ComesLate(r, entry) THEN late[r] \cup {entry.sequence}
                                                                       ELSE late[r]]
      BY <1>3, Zenon DEF Log
    <2>2. pending' = [v \in (DOMAIN pending) \ {w} |-> pending[v]] /\ sequence' = sequence
      BY <1>3, Zenon DEF Log
    <2> QED BY <2>1, <2>2
  <1>4. CASE ReinitTrigger \/ \E i \in LogIds :
                 ClearAll(i) \/ (\E size \in Sizes : SetSize(i, size))
                             \/ (\E m \in Messages : UidClear(i, m.uid))
    BY <1>1, <1>4, Zenon DEF ReinitTrigger, ClearAll, SetSize, UidClear
  <1>5. CASE ClearStep
    <2>1. UNCHANGED <<sequence, pending, late>>
      BY <1>5, Zenon DEF ClearStep, ClearSpliceChunk, ClearOpenChunk, ClearEntry, ClearEraseChunk,
         ClearSwap
    <2> QED BY <1>1, <2>1
  <1> QED BY <1>2, <1>3, <1>4, <1>5 DEF BufferNext

\* The numbers begin with 1: sequence_ is 1 in the constructor.
PositiveInv ==
    /\ sequence >= 1
    /\ \A w \in DOMAIN pending : pending[w].entry.sequence >= 1
    /\ \A i \in LogIds : \A e : IsHeld(i, e) => e.sequence >= 1

\* Writers and commands keep both.
LEMMA BufferNextSorts ==
    ASSUME Parts, ChunkInv, SortedInv, PositiveInv, LogsInOrder, BufferNext
    PROVE  SortedInv' /\ PositiveInv'
  <1>1. SortedInv' /\ \A i \in LogIds : HoldsNoOther(i)
    BY BufferNextEffect DEF BufferEffect
  <1>2. sequence' >= 1
    BY BufferNextNumbers DEF PositiveInv, Parts, WritersOK
  <1>3. \A w \in DOMAIN pending' : pending'[w].entry.sequence >= 1
    BY BufferNextNumbers DEF PositiveInv
  <1>4. ASSUME NEW i \in LogIds, NEW e, IsHeld(i, e)'
        PROVE  e.sequence >= 1
    BY <1>1, <1>4 DEF HoldsNoOther, Logs, PositiveInv
  <1> QED BY <1>1, <1>2, <1>3, <1>4 DEF PositiveInv

LEMMA RestsPositive ==
    ASSUME Parts, SortedInv, PositiveInv, BufferRests
    PROVE  PositiveInv'
  <1>1. sequence' = sequence /\ pending' = pending
    BY DEF BufferRests
  <1>2. \A i \in LogIds : \A e : IsHeld(i, e)' => IsHeld(i, e)
    BY RestsSorted DEF BufferRests
  <1> QED BY <1>1, <1>2 DEF PositiveInv

\* Every step of logd that logs in order keeps the logs in order.
LEMMA NextSorted ==
    ASSUME BufferInv, SortedInv, PositiveInv, [Next]_vars, [LogsInOrder]_vars
    PROVE  SortedInv' /\ PositiveInv'
  <1>1. Parts /\ ChunkInv
    BY PartsOfIInv DEF BufferInv
  <1>2. CASE UNCHANGED vars
    <2>1. UNCHANGED <<chunk, logs, clear, logd_lock, sequence, pending>>
      BY <1>2 DEF vars
    <2>2. BufferRests
      BY <1>2 DEF vars, BufferRests, LogsRest, Clearing, AreAlike, IsAlike, HoldsTheSame
    <2> QED BY <1>1, <2>2, RestsSorted, RestsPositive DEF BufferRests
  <1>3. CASE BufferNext /\ LogsInOrder
    BY <1>1, <1>3, BufferNextSorts
  <1>4. ASSUME NEW r \in Readers, StepOf(r)
        PROVE  SortedInv' /\ PositiveInv'
    BY <1>1, <1>4, StepRests, RestsSorted, RestsPositive DEF BufferRests
  <1> QED BY <1>2, <1>3, <1>4 DEF Next, StepOf

LEMMA InitSorted == Init => SortedInv /\ PositiveInv
  <1> SUFFICES ASSUME Init PROVE SortedInv /\ PositiveInv
    OBVIOUS
  <1>1. /\ logd_lock = {} /\ DOMAIN chunk = {} /\ DOMAIN pending = {} /\ sequence = 1
        /\ \A i \in LogIds : logs[i] = << >>
    BY DEF Init, BufferInit
  <1>2. ~Clearing
    BY <1>1 DEF Clearing
  <1>3. SortedInv
    BY <1>1, <1>2, EmptyIsSorted DEF SortedInv, AreRoomy
  <1>4. \A i \in LogIds : ChunksOf(i) = {}
    BY <1>1, <1>2 DEF ChunksOf, Elements
  <1> QED BY <1>1, <1>3, <1>4 DEF PositiveInv, IsHeld

-----------------------------------------------------------------------------
(***************************************************************************)
(* A log with a writer of its own is in order                               *)
(***************************************************************************)

\* There is no more than one thread that logs.
OneWriter == \A v, w \in Writers : v = w

\* Every log i has one thread that logs to it, owner[i].
HasOwner(owner) == \A w \in DOMAIN pending : owner[pending[w].log_id] = w

\* Every number in a log is below those that are still to be logged there.
NumbersRise ==
    /\ \A w \in DOMAIN pending : pending[w].entry.sequence < sequence
    /\ \A i \in LogIds : \A e : IsHeld(i, e) =>
          /\ e.sequence < sequence
          /\ \A w \in DOMAIN pending : pending[w].log_id = i => e.sequence < pending[w].entry.sequence

LEMMA RisingIsInOrder ==
    ASSUME Parts, NumbersRise
    PROVE  LogsInOrder
  <1> SUFFICES ASSUME NEW w \in DOMAIN pending, NEW entry \in EntriesOf(pending[w].log_id)
               PROVE  entry.sequence < pending[w].entry.sequence
    BY DEF LogsInOrder
  <1> DEFINE i == pending[w].log_id
  <1>1. i \in LogIds
    BY DEF Parts, WritersOK
  <1>2. IsHeld(i, entry)
    BY DEF EntriesOf, IsHeld, ChunksOf
  <1> QED BY <1>1, <1>2 DEF NumbersRise

LEMMA NextRises ==
    ASSUME NEW owner, HasOwner(owner), BufferInv, SortedInv, NumbersRise, [Next]_vars
    PROVE  NumbersRise' /\ LogsInOrder
  <1>1. Parts /\ ChunkInv /\ sequence \in Nat
    BY PartsOfIInv DEF BufferInv, Parts, WritersOK
  <1>2. LogsInOrder
    BY <1>1, RisingIsInOrder
  <1>3. ASSUME BufferRests PROVE NumbersRise'
    <2>1. sequence' = sequence /\ pending' = pending
      BY <1>3 DEF BufferRests
    <2>2. \A i \in LogIds : \A e : IsHeld(i, e)' => IsHeld(i, e)
      BY <1>1, <1>3, RestsSorted DEF BufferRests
    <2> QED BY <2>1, <2>2 DEF NumbersRise
  <1>4. CASE UNCHANGED vars
    <2>1. BufferRests
      BY <1>4 DEF vars, BufferRests, LogsRest, Clearing, AreAlike, IsAlike, HoldsTheSame
    <2> QED BY <1>2, <1>3, <2>1
  <1>5. ASSUME NEW r \in Readers, StepOf(r)
        PROVE  NumbersRise'
    BY <1>1, <1>3, <1>5, StepRests
  <1>6. CASE BufferNext
    <2>1. \A i \in LogIds : HoldsNoOther(i)
      BY <1>1, <1>2, <1>6, BufferNextEffect DEF BufferEffect
    <2>2. /\ sequence' \in {sequence, sequence + 1}
          /\ \A w \in DOMAIN pending' :
                 \/ w \in DOMAIN pending /\ pending'[w] = pending[w]
                 \/ /\ w \notin DOMAIN pending /\ w \in Writers
                    /\ pending'[w].entry.sequence = sequence /\ sequence' = sequence + 1
      BY <1>1, <1>6, BufferNextNumbers
    <2>3. /\ DOMAIN pending \subseteq Writers
          /\ \A w \in DOMAIN pending : pending[w].entry.sequence \in Nat
      BY <1>1 DEF Parts, WritersOK, Entry
    <2>4. \A w \in DOMAIN pending' : pending'[w].entry.sequence < sequence'
      BY <1>1, <2>2, <2>3 DEF NumbersRise
    <2>5. ASSUME NEW i \in LogIds, NEW e, IsHeld(i, e)'
          PROVE  /\ e.sequence < sequence'
                 /\ \A w \in DOMAIN pending' :
                       pending'[w].log_id = i => e.sequence < pending'[w].entry.sequence
      <3>1. CASE IsHeld(i, e)
        <4>1. e.sequence \in Nat
          BY <1>1, <3>1, HeldAreEntries
        <4> QED BY <1>1, <2>2, <2>3, <3>1, <4>1 DEF NumbersRise
      <3>2. CASE Logs(i, e)
        <4>1. PICK w \in DOMAIN pending :
                 w \notin DOMAIN pending' /\ pending[w].log_id = i /\ e = pending[w].entry
          BY <3>2 DEF Logs
        <4>2. ASSUME NEW v \in DOMAIN pending', pending'[v].log_id = i
              PROVE  v \notin DOMAIN pending
          <5> SUFFICES ASSUME v \in DOMAIN pending PROVE FALSE
            OBVIOUS
          <5>1. pending[v].log_id = i
            BY <1>1, <1>6, <4>2, BufferNextNumbers
          <5> QED BY <4>1, <5>1 DEF HasOwner
        <4> QED BY <1>1, <2>2, <2>3, <4>1, <4>2 DEF NumbersRise
      <3> QED BY <2>1, <2>5, <3>1, <3>2 DEF HoldsNoOther
    <2>6. NumbersRise'
      BY <2>4, <2>5 DEF NumbersRise
    <2> QED BY <1>2, <2>6
  <1> QED BY <1>2, <1>4, <1>5, <1>6 DEF Next, StepOf

LEMMA InitRises == Init => NumbersRise
  <1> SUFFICES ASSUME Init PROVE NumbersRise
    OBVIOUS
  <1>1. logd_lock = {} /\ DOMAIN pending = {} /\ \A i \in LogIds : logs[i] = << >>
    BY DEF Init, BufferInit
  <1>2. \A i \in LogIds : ChunksOf(i) = {}
    BY <1>1 DEF ChunksOf, Elements, Clearing
  <1> QED BY <1>1, <1>2 DEF NumbersRise, IsHeld

(***************************************************************************)
(* SerializedLogBuffer::Log() takes the number before the lock, so a thread *)
(* may overtake another.  Where every log has a thread of its own that      *)
(* writes it, an entry never comes behind one with a higher number in its   *)
(* log: LogListener refuses LOG_ID_KERNEL, the one log of LogKlog.          *)
(***************************************************************************)
THEOREM OwnersLogInOrder ==
    ASSUME NEW owner
    PROVE  Spec /\ []HasOwner(owner) => [][LogsInOrder]_vars
  <1> DEFINE Inv == BufferInv /\ SortedInv /\ PositiveInv /\ NumbersRise
  <1>1. Init => Inv
    BY InitBufferInv, InitSorted, InitRises
  <1>2. Inv /\ HasOwner(owner) /\ [Next]_vars => Inv' /\ [LogsInOrder]_vars
    BY NextBufferInv, NextSorted, NextRises
  <1> HIDE DEF Inv
  <1> QED BY <1>1, <1>2, PTL DEF Spec

(***************************************************************************)
(* A thread that is the only one to log, as LogListener is where neither    *)
(* LogAudit nor LogKlog runs, is the owner of every log: it cannot overtake *)
(* itself between the fetch_add on sequence_ and logd_lock.                 *)
(***************************************************************************)
THEOREM OneWriterLogsInOrder ==
    ASSUME OneWriter
    PROVE  Spec => [][LogsInOrder]_vars
  <1>1. PICK owner : owner = [i \in LogIds |-> CHOOSE w \in Writers : TRUE]
    OBVIOUS
  <1>2. BufferInv => HasOwner(owner)
    <2> SUFFICES ASSUME BufferInv, NEW w \in DOMAIN pending
                 PROVE  owner[pending[w].log_id] = w
      BY DEF HasOwner
    <2>1. w \in Writers /\ pending[w].log_id \in LogIds
      BY PartsOfIInv DEF BufferInv, Parts, WritersOK
    <2>2. owner[pending[w].log_id] \in Writers
      BY <1>1, <2>1
    <2> QED BY <2>1, <2>2 DEF OneWriter
  <1>3. Spec /\ []HasOwner(owner) => [][LogsInOrder]_vars
    BY OwnersLogInOrder
  <1> QED BY <1>2, <1>3, BufferInvariant, PTL

-----------------------------------------------------------------------------
(***************************************************************************)
(* CreateLogPosition()                                                      *)
(***************************************************************************)

\* No chunk holds a number above its highest_sequence_number_.
LEMMA SearchOfSorted ==
    ASSUME Parts, SortedInv
    PROVE  SearchIsExact
  <1> SUFFICES ASSUME NEW i \in LogIds, NEW k \in 1 .. Len(logs[i]), NEW start \in 1 .. sequence,
                      IsStartChunk(k, start, logs[i], chunk), NEW j \in 1 .. k - 1,
                      NEW m \in 1 .. Len(chunk[logs[i][j]].entries)
               PROVE  chunk[logs[i][j]].entries[m].sequence < start
    BY DEF SearchIsExact
  <1> DEFINE c == logs[i][j]
  <1>1. Len(logs[i]) \in Nat
    BY LenProperties DEF Parts, LogsOK
  <1>2. c \in Elements(logs[i])
    BY <1>1 DEF Elements
  <1>3. chunk[c] \in Chunk
    BY <1>2 DEF Parts, ListsAreDisjoint, IsHeap
  <1>4. chunk[c].entries[m].sequence <= chunk[c].highest_sequence_number
    BY <1>2 DEF SortedInv, Sorted, IsAscending
  <1>5. start > chunk[c].highest_sequence_number
    BY DEF IsStartChunk
  <1>6. chunk[c].entries \in Seq(Entry) /\ chunk[c].highest_sequence_number \in Nat
    BY <1>3 DEF Chunk
  <1>7. chunk[c].entries[m] \in Entry
    BY <1>6, ElementOfSeq
  <1>8. chunk[c].entries[m].sequence \in Nat /\ start \in Nat
    BY <1>7 DEF Entry, Parts, WritersOK
  <1>9. \A x, y, z \in Nat : x <= y /\ z > y => x < z
    OBVIOUS
  <1> QED BY <1>4, <1>5, <1>6, <1>8, <1>9, Zenon

(***************************************************************************)
(* The search of CreateLogPosition() for the start of a reader passes over  *)
(* no entry that the reader is to be sent, while every entry comes behind   *)
(* those with lower numbers in its log.                                     *)
(***************************************************************************)
THEOREM SearchStaysExact == Spec /\ [][LogsInOrder]_vars => []SearchIsExact
  <1> DEFINE Inv == BufferInv /\ SortedInv /\ PositiveInv
  <1>1. Init => Inv
    BY InitBufferInv, InitSorted
  <1>2. Inv /\ [Next]_vars /\ [LogsInOrder]_vars => Inv'
    BY NextBufferInv, NextSorted
  <1>3. Inv => SearchIsExact
    BY PartsOfIInv, SearchOfSorted DEF BufferInv
  <1> HIDE DEF Inv
  <1> QED BY <1>1, <1>2, <1>3, PTL DEF Spec

(***************************************************************************)
(* With one thread that logs, CreateLogPosition() passes over nothing,      *)
(* whatever else happens: no assumption about the order is needed.          *)
(***************************************************************************)
THEOREM SearchIsExactForOneWriter ==
    ASSUME OneWriter
    PROVE  Spec => []SearchIsExact
  BY SearchStaysExact, OneWriterLogsInOrder, PTL
=============================================================================
