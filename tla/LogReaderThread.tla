--------------------------- MODULE LogReaderThread ---------------------------
(***************************************************************************)
(* logd/LogReaderThread.{h,cpp}, with SerializedLogBuffer::FlushTo(), which  *)
(* it runs, and SerializedFlushToState::CheckForNewLogs().                  *)
(*                                                                          *)
(* thread[r].pc:  "start"       created, has not taken logd_lock yet        *)
(*                "flush"       in FlushTo(), holds the lock                *)
(*                "stop"        at the end of FlushTo(), holds the lock     *)
(*                "write"       in LogWriter::Write(), without the lock     *)
(*                "wait"        in wait() on thread_triggered_condition_     *)
(*                "woken"       out of wait(), wants the lock               *)
(*                "wait_until"  in wait_until() the deadline                *)
(*                "notified"    out of wait_until() by a notification       *)
(*                "timed_out"   out of wait_until() by the deadline         *)
(*                "exit"        out of the loop, holds the lock             *)
(*                "gone"        the thread has ended                        *)
(* ("idle" and "found" belong to LogReader, as does the pass "find".)       *)
(*                                                                          *)
(* thread[r].pass says which FlushTo() it is: "find", "first" or "second";  *)
(* thread[r].log_id is the loop index of CheckForNewLogs().                 *)
(***************************************************************************)
EXTENDS SerializedLogBuffer

VARIABLE delivered     \* history: the sequence numbers written to each client

EPOCH == 0             \* log_time::EPOCH

\* The FlushToState a thread's FlushTo() works on
Current(r) == IF thread[r].pass = "second" THEN Main(r) ELSE Temp(r)

BeginFlush(t, pass) == [t EXCEPT !.pc = "flush", !.pass = pass, !.log_id = 0]

\* ~SerializedFlushToState(): the heap after state s detached from its chunks
DetachAll(s) ==
    [c \in DOMAIN chunk |->
        IF \E i \in DOMAIN state[s].log_positions : state[s].log_positions[i].buffer_it = c
        THEN DetachReader(chunk[c], s) ELSE chunk[c]]

WithoutState(s) == [t \in (DOMAIN state) \ {s} |-> state[t]]

WithState(s, st) == [t \in (DOMAIN state) \cup {s} |-> IF t = s THEN st ELSE state[t]]

-----------------------------------------------------------------------------
(***************************************************************************)
(* The filters.  Each returns the thread's new fields and a FilterResult.   *)
(***************************************************************************)
Filtered(t, result) == [thread |-> t, result |-> result]

FilterFirstPass(t, entry) ==
    IF /\ t.pid = 0 \/ t.pid = entry.pid
       /\ t.start_time = EPOCH \/ t.start_time <= entry.realtime
    THEN Filtered([t EXCEPT !.count = @ + 1], "kSkip")
    ELSE Filtered(t, "kSkip")

\* Mutant: what is logged after the first pass is not cut off.
FilterSecondPass_NoStop(t, entry) ==
    LET index == t.index + 1
    IN  IF \/ t.pid # 0 /\ t.pid # entry.pid
           \/ t.start_time # EPOCH /\ entry.realtime <= t.start_time
        THEN Filtered(t, "kSkip")
        ELSE IF t.release
        THEN Filtered(t, "kStop")
        ELSE IF t.tail = 0
        THEN Filtered(t, "kWrite")
        ELSE IF t.count > t.tail /\ index <= t.count - t.tail
        THEN Filtered([t EXCEPT !.index = index], "kSkip")
        ELSE Filtered([t EXCEPT !.index = index, !.tail = IF t.non_block THEN @ ELSE 0],
                      "kWrite")

\* skip_ahead_ stays 0: only SimpleLogBuffer and ChattyLogBuffer set it.
FilterSecondPass(t, entry) ==
    LET index == t.index + 1
    IN  IF t.non_block /\ t.tail # 0 /\ t.index >= t.count
        THEN Filtered(t, "kStop")
        ELSE IF \/ t.pid # 0 /\ t.pid # entry.pid
                \/ t.start_time # EPOCH /\ entry.realtime <= t.start_time
        THEN Filtered(t, "kSkip")
        ELSE IF t.release
        THEN Filtered(t, "kStop")
        ELSE IF t.tail = 0
        THEN Filtered(t, "kWrite")
        ELSE IF t.count > t.tail /\ index <= t.count - t.tail
        THEN Filtered([t EXCEPT !.index = index], "kSkip")
        ELSE Filtered([t EXCEPT !.index = index, !.tail = IF t.non_block THEN @ ELSE 0],
                      "kWrite")

\* Mutant: a newer entry does not end the search.
LogFindStart_OnlyExact(t, entry) ==
    IF t.pid # 0 /\ t.pid # entry.pid
    THEN Filtered(t, "kSkip")
    ELSE IF t.start_time = entry.realtime
    THEN Filtered([t EXCEPT !.sequence = entry.sequence, !.start_time_set = TRUE], "kStop")
    ELSE Filtered([t EXCEPT !.last = entry.sequence], "kSkip")

\* log_find_start of LogReader::onDataAvailable()
LogFindStart(t, entry) ==
    IF t.pid # 0 /\ t.pid # entry.pid
    THEN Filtered(t, "kSkip")
    ELSE IF t.start_time = entry.realtime
    THEN Filtered([t EXCEPT !.sequence = entry.sequence, !.start_time_set = TRUE], "kStop")
    ELSE IF t.start_time < entry.realtime
    THEN Filtered([t EXCEPT !.sequence = t.last, !.start_time_set = TRUE], "kStop")
    ELSE Filtered([t EXCEPT !.last = entry.sequence], "kSkip")

Filter(t, entry) ==
    CASE t.pass = "find"   -> LogFindStart(t, entry)
      [] t.pass = "first"  -> FilterFirstPass(t, entry)
      [] t.pass = "second" -> FilterSecondPass(t, entry)

-----------------------------------------------------------------------------
(***************************************************************************)
(* One iteration of the loop of CheckForNewLogs(), which HasUnreadLogs()    *)
(* runs first.                                                              *)
(***************************************************************************)
Flushing(r) == thread[r].pc = "flush" /\ logd_lock = {r}

\* UpdateLogsNeeded() of state s, whose position in log i is pos, on heap
UpdateLogsNeeded(s, i, pos, heap) ==
    LET st   == SetPosition(state[s], i, pos)
        list == logs[i]
    IN  \/ /\ MoreInChunk(pos, heap)
           /\ chunk' = heap
           /\ state' = [state EXCEPT ![s] = [st EXCEPT !.logs_needed = @ \ {i}]]
        \/ /\ ~MoreInChunk(pos, heap)
           /\ pos.buffer_it = list[Len(list)]
           /\ chunk' = heap
           /\ state' = [state EXCEPT ![s] = [st EXCEPT !.logs_needed = @ \cup {i}]]
        \/ /\ ~MoreInChunk(pos, heap)
           /\ \E k \in 1 .. Len(list) - 1 :
                 LET next == [buffer_it |-> list[k + 1], read_offset |-> 0]
                 IN  /\ pos.buffer_it = list[k]
                     /\ chunk' = [heap EXCEPT ![list[k]] = DetachReader(@, s),
                                              ![list[k + 1]] = AttachReader(@, s)]
                     /\ state' = [state EXCEPT ![s] =
                           [SetPosition(st, i, next) EXCEPT
                               !.logs_needed = IF MoreInChunk(next, heap) THEN @ \ {i}
                                                                          ELSE @ \cup {i}]]

\* CreateLogPosition() of state s in log i, then UpdateLogsNeeded()
CreateLogPosition(s, i) ==
    \E k \in 1 .. Len(logs[i]) :
       \E n \in 0 .. Len(chunk[logs[i][k]].entries) :
          /\ IsStartChunk(k, state[s].start, logs[i], chunk)
          /\ IsStartOffset(n, state[s].start, chunk[logs[i][k]].entries)
          /\ UpdateLogsNeeded(s, i, [buffer_it |-> logs[i][k], read_offset |-> n],
                              [chunk EXCEPT ![logs[i][k]] = AttachReader(@, s)])

CheckForNewLogs(r) ==
    LET s == Current(r)
        i == thread[r].log_id
    IN  /\ Flushing(r)
        /\ i < LOG_ID_MAX
        /\ \/ /\ i \notin state[s].logs_needed \/ (~HasPosition(state[s], i) /\ logs[i] = << >>)
              /\ UNCHANGED <<chunk, state>>
           \/ /\ i \in state[s].logs_needed
              /\ ~HasPosition(state[s], i)
              /\ CreateLogPosition(s, i)
           \/ /\ i \in state[s].logs_needed
              /\ HasPosition(state[s], i)
              /\ UpdateLogsNeeded(s, i, state[s].log_positions[i], chunk)
        /\ thread' = [thread EXCEPT ![r].log_id = @ + 1]
        /\ UNCHANGED <<logd_lock, logs, max_size, stats, sequence, pending, clear, late,
                       commands, delivered>>

(***************************************************************************)
(* FlushTo(): one iteration, from PopNextUnreadLog() to continue, break or  *)
(* the unlock() before the entry is written to the client.  An entry below  *)
(* start, or that the client may not read, is skipped before the filter.    *)
(***************************************************************************)
Outcome(t, start, entry) ==
    IF \/ entry.sequence < start
       \/ ~t.privileged /\ t.uid # entry.uid
    THEN Filtered(t, "kSkip")
    ELSE Filter(t, entry)

\* Mutant: the start stays where the flush began.
SetStart_None(st, entry) == st

\* set_start() of the entry, unless it was skipped for being below start
SetStart(st, entry) ==
    [st EXCEPT !.start = IF entry.sequence < @ THEN @ ELSE entry.sequence]

FlushToEntry(r) ==
    LET s == Current(r)
    IN  /\ Flushing(r)
        /\ thread[r].log_id = LOG_ID_MAX
        /\ \E i \in UnreadLogs(state[s]) :
              LET entry   == EntryAt(state[s].log_positions[i], chunk)
                  outcome == Outcome(thread[r], state[s].start, entry)
              IN  /\ IsNextUnreadLog(state[s], i, chunk)
                  /\ state' = [state EXCEPT ![s] = SetStart(PopNextUnreadLog(@, i), entry)]
                  /\ \/ /\ outcome.result = "kSkip"
                        /\ thread' = [thread EXCEPT ![r] = [outcome.thread EXCEPT !.log_id = 0]]
                        /\ UNCHANGED logd_lock
                     \/ /\ outcome.result = "kStop"
                        /\ thread' = [thread EXCEPT ![r] = [outcome.thread EXCEPT !.pc = "stop"]]
                        /\ UNCHANGED logd_lock
                     \/ /\ outcome.result = "kWrite"
                        /\ thread' = [thread EXCEPT ![r] =
                              [outcome.thread EXCEPT !.pc = "write", !.out = entry.sequence]]
                        /\ logd_lock' = {}
        /\ UNCHANGED <<bufferVars, delivered>>

\* FlushTo(): HasUnreadLogs() is false, the loop ends.
FlushToNoMore(r) ==
    /\ Flushing(r)
    /\ thread[r].log_id = LOG_ID_MAX
    /\ UnreadLogs(state[Current(r)]) = {}
    /\ thread' = [thread EXCEPT ![r].pc = "stop"]
    /\ UNCHANGED <<bufferVars, logd_lock, state, delivered>>

(***************************************************************************)
(* LogWriter::Write() of the copied entry, outside the lock, then the lock  *)
(* again.  A client that went away, or did not read within LOGD_SNDTIMEO,   *)
(* makes it fail, FlushTo() return false and the thread leave its loop.     *)
(***************************************************************************)
WriteSucceeds(r) ==
    /\ thread[r].pc = "write"
    /\ LockFree
    /\ logd_lock' = {r}
    /\ delivered' = [delivered EXCEPT ![r] = Append(@, thread[r].out)]
    /\ thread' = [thread EXCEPT ![r].pc = "flush", ![r].log_id = 0, ![r].out = 0]
    /\ UNCHANGED <<bufferVars, state>>

WriteFails(r) ==
    /\ thread[r].pc = "write"
    /\ LockFree
    /\ logd_lock' = {r}
    /\ thread' = [thread EXCEPT ![r].pc = "exit", ![r].start_time = EPOCH, ![r].out = 0]
    /\ UNCHANGED <<bufferVars, state, delivered>>

-----------------------------------------------------------------------------
(***************************************************************************)
(* ThreadFunction()                                                         *)
(***************************************************************************)

\* From the top of the loop, or from the return of wait_until(), to FlushTo():
\* with a tail_ the entries are first counted, on a FlushToState of their own.
EnterFlushTo(r, t) ==
    /\ logd_lock' = {r}
    /\ \/ /\ t.tail # 0
          /\ thread' = [thread EXCEPT ![r] = BeginFlush(t, "first")]
          /\ state' = WithState(Temp(r), NewFlushToState(state[Main(r)].start,
                                                         state[Main(r)].log_mask))
       \/ /\ t.tail = 0
          /\ thread' = [thread EXCEPT ![r] = BeginFlush(t, "second")]
          /\ UNCHANGED state

LeaveLoop(r, t) ==
    /\ logd_lock' = {r}
    /\ thread' = [thread EXCEPT ![r] = [t EXCEPT !.pc = "exit"]]
    /\ UNCHANGED state

\* while (!release_), reached when the thread starts and after wait()
LoopTop(r) ==
    /\ thread[r].pc \in {"start", "woken"}
    /\ LockFree
    /\ \/ thread[r].release /\ LeaveLoop(r, thread[r])
       \/ /\ ~thread[r].release /\ thread[r].deadline
          /\ thread' = [thread EXCEPT ![r].pc = "wait_until"]
          /\ UNCHANGED <<logd_lock, state>>
       \/ ~thread[r].release /\ ~thread[r].deadline /\ EnterFlushTo(r, thread[r])
    /\ UNCHANGED <<bufferVars, delivered>>

\* The deadline passes while the thread is in wait_until().
DeadlinePasses(r) ==
    /\ thread[r].pc = "wait_until"
    /\ thread' = [thread EXCEPT ![r].pc = "timed_out"]
    /\ UNCHANGED <<bufferVars, logd_lock, state, delivered>>

\* wait_until() returns
AfterWaitUntil(r) ==
    LET t == [thread[r] EXCEPT !.deadline = @ /\ thread[r].pc # "timed_out"]
    IN  /\ thread[r].pc \in {"notified", "timed_out"}
        /\ LockFree
        /\ \/ t.release /\ LeaveLoop(r, t)
           \/ ~t.release /\ EnterFlushTo(r, t)
        /\ UNCHANGED <<bufferVars, delivered>>

\* The first pass returns, its state is destroyed and the second pass begins.
FirstPassReturns(r) ==
    /\ thread[r].pc = "stop" /\ thread[r].pass = "first"
    /\ logd_lock = {r}
    /\ chunk' = DetachAll(Temp(r))
    /\ state' = WithoutState(Temp(r))
    /\ thread' = [thread EXCEPT ![r] = BeginFlush(@, "second")]
    /\ UNCHANGED <<logd_lock, logs, max_size, stats, sequence, pending, clear, late, commands, delivered>>

\* The second pass returns true: the thread ends, waits, or waits for its deadline.
SecondPassReturns(r) ==
    /\ thread[r].pc = "stop" /\ thread[r].pass = "second"
    /\ logd_lock = {r}
    /\ state' = [state EXCEPT ![Main(r)].start = @ + 1]
    /\ \/ /\ thread[r].non_block \/ thread[r].release
          /\ thread' = [thread EXCEPT ![r].pc = "exit", ![r].start_time = EPOCH]
          /\ UNCHANGED logd_lock
       \/ /\ ~thread[r].non_block /\ ~thread[r].release
          /\ thread' = [thread EXCEPT ![r].pc = IF thread[r].deadline THEN "wait_until" ELSE "wait",
                                      ![r].start_time = EPOCH]
          /\ logd_lock' = {}
    /\ UNCHANGED <<bufferVars, delivered>>

\* After the loop: writer_->Release(), and the thread object is destroyed.
ThreadExits(r) ==
    /\ thread[r].pc = "exit"
    /\ logd_lock = {r}
    /\ chunk' = DetachAll(Main(r))
    /\ state' = WithoutState(Main(r))
    /\ thread' = [thread EXCEPT ![r].pc = "gone"]
    /\ logd_lock' = {}
    /\ UNCHANGED <<logs, max_size, stats, sequence, pending, clear, late, commands, delivered>>

\* The steps a connected reader takes by itself
ReaderStep(r) ==
    \/ LoopTop(r) \/ AfterWaitUntil(r)
    \/ CheckForNewLogs(r) \/ FlushToEntry(r) \/ FlushToNoMore(r)
    \/ WriteSucceeds(r) \/ WriteFails(r)
    \/ FirstPassReturns(r) \/ SecondPassReturns(r) \/ ThreadExits(r)
=============================================================================
