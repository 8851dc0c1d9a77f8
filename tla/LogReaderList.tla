---------------------------- MODULE LogReaderList ----------------------------
(***************************************************************************)
(* logd/LogReaderList.{h,cpp} and the interface of logd/LogReaderThread.h   *)
(* that the log buffers use: which readers are connected, what they watch,  *)
(* and how they are woken.                                                  *)
(*                                                                          *)
(* thread[r] is the LogReaderThread object of client r (and, before it is   *)
(* created, what LogReader computes for it), with its control state pc.     *)
(* state holds the live FlushToState objects: <<r, "main">> is the          *)
(* flush_to_state_ of r's thread, which lives exactly as long as the thread *)
(* is in reader_threads_, and <<r, "temp">> is the one on the stack of a    *)
(* search or of a first pass.                                               *)
(***************************************************************************)
EXTENDS SerializedFlushToState

CONSTANT Readers     \* the clients that may connect to /dev/socket/logdr

VARIABLES thread, state

Main(r) == <<r, "main">>
Temp(r) == <<r, "temp">>
States == Readers \X {"main", "temp"}

reader_threads == {r \in Readers : Main(r) \in DOMAIN state}

IsWatching(r, log_id) == log_id \in state[Main(r)].log_mask

\* Mutant: only a thread with a deadline is woken.
TriggerReader_OnlyWaitUntil(t) ==
    [t EXCEPT !.pc = IF @ = "wait_until" THEN "notified" ELSE @]

(***************************************************************************)
(* TriggerReader(): notify_all() on thread_triggered_condition_.  It wakes  *)
(* the thread if it waits and is lost otherwise.                            *)
(***************************************************************************)
TriggerReader(t) ==
    [t EXCEPT !.pc = CASE @ = "wait"       -> "woken"
                       [] @ = "wait_until" -> "notified"
                       [] OTHER            -> @]

TriggerReaders(th, R) ==
    [r \in Readers |-> IF r \in R THEN TriggerReader(th[r]) ELSE th[r]]

\* Mutant: the thread is not woken.
Release_WithoutNotify(t) == [t EXCEPT !.release = TRUE]

\* Release(): the socket is shut down, the thread told to end.
Release(t) == TriggerReader([t EXCEPT !.release = TRUE])

\* Mutant: the test of the deadline is inverted.
NotifiedOfNewLog_Inverted(log_id) ==
    {r \in reader_threads : IsWatching(r, log_id) /\ thread[r].deadline}

\* The readers that NotifyNewLog(1 << log_id) triggers
NotifiedOfNewLog(log_id) ==
    {r \in reader_threads : IsWatching(r, log_id) /\ ~thread[r].deadline}

\* The readers that Prune() and UidClear() trigger
NotifiedOfPrune(log_id) ==
    {r \in reader_threads : IsWatching(r, log_id) /\ thread[r].deadline}
=============================================================================
