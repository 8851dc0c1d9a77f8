-------------------------- MODULE LogdWriterProofs --------------------------
(***************************************************************************)
(* The write path of liblog, for any number of threads that log at once,    *)
(* any number of restarts of logd and of calls of __android_log_close().    *)
(***************************************************************************)
EXTENDS LogdWriter, SequenceTheorems, FiniteSetTheorems, TLAPS

(***************************************************************************)
(* What the theorems assume: there are finitely many threads, the calls     *)
(* have the fields of their type, and LOG_BUF_SIZE leaves room for the two   *)
(* characters __android_log_buf_print() may add.                            *)
(***************************************************************************)
Apis == {"write", "print", "print_ext", "bwrite", "btwrite", "bswrite"}

WriterConstants ==
    /\ IsFiniteSet(Threads) /\ MaxFd \in Nat /\ MaxPayload \in Nat
    /\ LogBufSize \in Nat /\ LogBufSize >= 2
    /\ Messages # {}
    /\ \A m \in Messages : m.api \in Apis /\ m.tag \in Nat /\ m.len \in Nat /\ m.id # "liblog"

-----------------------------------------------------------------------------
(***************************************************************************)
(* The inductive invariant: descriptors                                     *)
(***************************************************************************)

NONE == kUninitialized
HasSocket == {"exchange", "report", "putback", "write", "reconnect", "rewrite", "count"}
Steps == HasSocket \cup {"idle", "sock", "cas", "pmsg", "reopen", "pcas", "pwrite"}

ThreadValues == [pc : Steps, msg : Messages, n : Nat, snapshot : Nat, new : Fds \cup {NONE},
                 excused : BOOLEAN]

TypesAreKept ==
    /\ sock \in [Sockets -> Fds \cup {NONE}]
    /\ pmsg_fd \in Fds \cup {NONE}
    /\ th \in [Threads -> ThreadValues]
    /\ fds \in [Fds -> [kind : {"closed", "stdin", "sock", "pmsg"}, peer : Nat]]
    /\ logd \in [up : BOOLEAN, incarnation : Nat]

\* What a thread has opened and not published is open and of its kind.
OpensItsKind(x, table) ==
    /\ x.new # NONE => x.pc \in {"cas", "reopen", "pcas"}
    /\ x.pc = "cas" => x.new # NONE /\ table[x.new].kind = "sock"
    /\ x.pc = "reopen" => x.new = 0 /\ table[0].kind = "pmsg"
    /\ x.pc = "pcas" /\ x.new # NONE => x.new # 0 /\ table[x.new].kind = "pmsg"

NewIsOpen == \A t \in Threads : OpensItsKind(th[t], fds)

\* No two hold the same descriptor.
HoldersDiffer ==
    /\ \A t, u \in Threads : t # u /\ th[t].new # NONE => th[t].new # th[u].new
    /\ \A t \in Threads, s \in Sockets : sock[s] # NONE => sock[s] # th[t].new
    /\ \A t \in Threads : pmsg_fd > 0 => pmsg_fd # th[t].new
    /\ sock["blocking"] # NONE => sock["blocking"] # sock["nonblocking"]

Holds(f) == \/ \E s \in Sockets : sock[s] = f
            \/ \E t \in Threads : th[t].new = f
            \/ pmsg_fd = f /\ f # 0

OpenIsHeld == \A f \in Fds : fds[f].kind \in {"sock", "pmsg"} => Holds(f)

\* A thread that writes found its socket open.
SocketIsKnown == \A t \in Threads : th[t].pc \in HasSocket => sock[TheSocket(th[t].msg)] # NONE

DescriptorInv ==
    /\ TypesAreKept /\ NewIsOpen /\ PublishedIsOpen /\ HoldersDiffer /\ OpenIsHeld
    /\ SocketIsKnown

-----------------------------------------------------------------------------
(***************************************************************************)
(* Causes, counts and arrivals                                              *)
(***************************************************************************)

\* A thread was excused when logd went down, and after Reconnect() it is connected
\* to the logd that runs or excused.
Excusable(x) ==
    /\ x.pc # "idle" /\ ~logd.up => x.excused
    /\ x.pc = "rewrite" => x.excused \/ Connected(TheSocket(x.msg))
    /\ x.pc = "count" => x.excused

CauseInv == \A t \in Threads : Excusable(th[t])

\* Only between the exchange and the report does a thread hold a count.
SnapshotIsHeld == \A t \in Threads : th[t].snapshot # 0 => th[t].pc \in {"report", "putback"}

CountInv ==
    /\ dropped \in Nat /\ failed \in Nat /\ reported \in Nat /\ forgotten \in Nat
    /\ SnapshotIsHeld /\ DroppedIsAccounted

Datagrams == [from : Threads, n : Nat, id : {buffer_id(m) : m \in Messages} \cup {"liblog"},
              size : Nat, full : Nat]

Precedes(d, e) ==
    d.from = e.from => \/ d.n < e.n
                       \/ d.n = e.n /\ d.id = "liblog" /\ e.id # "liblog"

Ordered(s) == \A i, j \in 1 .. Len(s) : i < j => Precedes(s[i], s[j])

\* What a thread sent is older than the message it is about to send, but for the report
\* of dropped messages, which goes first.
SentBefore(d, x) ==
    /\ d.n < writes
    /\ x.pc \in {"sock", "cas", "exchange", "report"} => d.n < x.n
    /\ x.pc \in {"putback", "write", "reconnect", "rewrite"} =>
           d.n < x.n \/ (d.n = x.n /\ d.id = "liblog")

Sound(d) == SentBefore(d, th[d.from]) /\ d.size = IF d.full <= MaxPayload THEN d.full ELSE MaxPayload

ArrivalInv ==
    /\ writes \in Nat /\ queue \in Seq(Datagrams) /\ logged \in Seq(Datagrams)
    /\ \A t \in Threads : th[t].pc # "idle" => th[t].n < writes
    /\ Ordered(logged) /\ Ordered(queue)
    /\ \A i \in 1 .. Len(logged), j \in 1 .. Len(queue) : Precedes(logged[i], queue[j])
    /\ \A i \in 1 .. Len(logged) : Sound(logged[i])
    /\ \A j \in 1 .. Len(queue) : Sound(queue[j])

WriterInv == DescriptorInv /\ CauseInv /\ CountInv /\ ArrivalInv

-----------------------------------------------------------------------------
(***************************************************************************)
(* Numbers and descriptors                                                  *)
(***************************************************************************)

LEMMA LeastOf ==
    ASSUME NEW T, T \subseteq Nat, T # {}
    PROVE  Min(T) \in T /\ \A y \in T : Min(T) <= y
  <1>1. IsWellFoundedOn(OpToRel(<, Nat), Nat)
    BY NatLessThanWellFounded
  <1>2. PICK x \in T : \A y \in T : ~(<<y, x>> \in OpToRel(<, Nat))
    BY <1>1, WFMin
  <1>3. \A y \in T : ~(y < x)
    BY <1>2 DEF OpToRel
  <1>4. \A y \in T : x <= y
    BY <1>3
  <1> QED BY <1>4 DEF Min

LEMMA Induction ==
    ASSUME NEW T, 0 \in T, \A n \in Nat : n \in T => n + 1 \in T
    PROVE  Nat \subseteq T
  <1> DEFINE rest == Nat \ T
             x    == Min(rest)
  <1> SUFFICES ASSUME rest # {} PROVE FALSE
    OBVIOUS
  <1>1. x \in rest /\ \A y \in rest : x <= y
    BY LeastOf
  <1> HIDE DEF x
  <1>2. x # 0
    BY <1>1
  <1>3. x - 1 \in Nat /\ x - 1 \in T
    BY <1>1, <1>2
  <1> QED BY <1>1, <1>3

\* socket() and open() return the lowest descriptor that is free.
LEMMA FirstFree ==
    ASSUME MaxFd \in Nat, Free # {}
    PROVE  Min(Free) \in Fds /\ fds[Min(Free)].kind = "closed"
  <1>1. Free \subseteq Nat
    BY DEF Free, Fds
  <1>2. Min(Free) \in Free
    BY <1>1, LeastOf
  <1> QED BY <1>2 DEF Free

LEMMA SocketOfMessage == \A m : TheSocket(m) \in Sockets
  BY DEF TheSocket, Sockets

\* NONE is no descriptor.
LEMMA NoneIsApart ==
    ASSUME MaxFd \in Nat
    PROVE  /\ NONE \notin Fds /\ NONE < 0 /\ NONE \in Int /\ NONE = -1 /\ 0 \in Fds
           /\ \A f \in Fds : f \in Nat /\ f # NONE
  BY DEF NONE, kUninitialized, Fds

-----------------------------------------------------------------------------
(***************************************************************************)
(* Descriptors: each action                                                 *)
(***************************************************************************)

\* Steps that leave the descriptors alone: only the program counter moves.
LEMMA ThreadMoves ==
    ASSUME DescriptorInv, UNCHANGED <<sock, pmsg_fd, fds>>,
           logd' \in [up : BOOLEAN, incarnation : Nat],
           th' \in [Threads -> ThreadValues],
           \A t \in Threads :
              \/ /\ th'[t].new = th[t].new /\ th'[t].pc = th[t].pc /\ th'[t].msg = th[t].msg
              \/ /\ th[t].new = NONE /\ th'[t].new = NONE
                 /\ th'[t].pc \notin {"cas", "reopen"}
                 /\ th'[t].pc \in HasSocket => sock[TheSocket(th'[t].msg)] # NONE
    PROVE  DescriptorInv'
  <1>1. TypesAreKept'
    BY DEF DescriptorInv, TypesAreKept
  <1>2. \A t \in Threads : th'[t].new = th[t].new
    BY Zenon
  <1>3. NewIsOpen'
    BY DEF DescriptorInv, NewIsOpen, OpensItsKind
  <1>4. PublishedIsOpen'
    BY DEF DescriptorInv, PublishedIsOpen
  <1>5. HoldersDiffer'
    BY <1>2 DEF DescriptorInv, HoldersDiffer
  <1>6. OpenIsHeld'
    BY <1>2 DEF DescriptorInv, OpenIsHeld, Holds
  <1>7. SocketIsKnown'
    BY DEF DescriptorInv, SocketIsKnown
  <1> QED BY <1>1, <1>3, <1>4, <1>5, <1>6, <1>7 DEF DescriptorInv

\* Thread t moves and becomes x.
Moves(t, x) == th' = [th EXCEPT ![t] = x]

LEMMA OneMoves ==
    ASSUME DescriptorInv, NEW t \in Threads, NEW x \in ThreadValues, Moves(t, x)
    PROVE  /\ th' \in [Threads -> ThreadValues] /\ th'[t] = x
           /\ \A u \in Threads : u # t => th'[u] = th[u]
  BY DEF Moves, DescriptorInv, TypesAreKept

LEMMA OneThreadMoves ==
    ASSUME DescriptorInv, UNCHANGED <<sock, pmsg_fd, fds, logd>>,
           NEW t \in Threads, NEW x \in ThreadValues, Moves(t, x),
           th[t].new = NONE, x.new = NONE, x.pc \notin {"cas", "reopen"},
           x.pc \in HasSocket => sock[TheSocket(x.msg)] # NONE
    PROVE  DescriptorInv'
  <1>1. /\ th' \in [Threads -> ThreadValues] /\ th'[t] = x
        /\ \A u \in Threads : u # t => th'[u] = th[u]
    BY OneMoves
  <1>2. logd' \in [up : BOOLEAN, incarnation : Nat]
    BY DEF DescriptorInv, TypesAreKept
  <1> QED BY <1>1, <1>2, ThreadMoves

LEMMA NewOf ==
    ASSUME DescriptorInv, NEW t \in Threads
    PROVE  /\ th[t] \in ThreadValues
           /\ th[t].pc \notin {"cas", "reopen", "pcas"} => th[t].new = NONE
  BY DEF DescriptorInv, TypesAreKept, NewIsOpen, OpensItsKind

LEMMA SocketOf ==
    ASSUME DescriptorInv, NEW t \in Threads, th[t].pc \in HasSocket
    PROVE  /\ sock[TheSocket(th[t].msg)] \in Fds /\ sock[TheSocket(th[t].msg)] # NONE
           /\ fds[sock[TheSocket(th[t].msg)]].kind = "sock"
  BY SocketOfMessage DEF DescriptorInv, TypesAreKept, SocketIsKnown, PublishedIsOpen, NONE

\* A step that only moves the program counter of a thread with no descriptor of its own
LEMMA GotoKeeps ==
    ASSUME DescriptorInv, UNCHANGED <<sock, pmsg_fd, fds, logd>>, NEW t \in Threads,
           NEW x, Moves(t, x), x \in ThreadValues, x.msg = th[t].msg, x.new = th[t].new,
           th[t].pc \notin {"cas", "reopen", "pcas"}, x.pc \notin {"cas", "reopen"},
           x.pc \in HasSocket => th[t].pc \in HasSocket
    PROVE  DescriptorInv'
  <1>1. th[t].new = NONE
    BY NewOf
  <1>2. x.pc \in HasSocket => sock[TheSocket(x.msg)] # NONE
    BY SocketOf
  <1> QED BY <1>1, <1>2, OneThreadMoves

LEMMA WriteKeeps ==
    ASSUME WriterConstants, DescriptorInv, writes \in Nat, NEW t \in Threads, NEW m \in Messages, Write(t, m)
    PROVE  DescriptorInv'
  <1> DEFINE x == [Idle EXCEPT !.msg = m, !.n = writes, !.excused = ~logd.up,
                     !.pc = IF text_error(m) \/ write_to_log_error(m) THEN "idle" ELSE "sock"]
  <1>1. Moves(t, x) /\ th[t].pc = "idle" /\ UNCHANGED <<sock, pmsg_fd, fds, logd>>
    BY DEF Write, Moves, kernel
  <1>2. x \in ThreadValues /\ x.new = NONE /\ x.pc \in {"idle", "sock"}
    BY DEF Idle, ThreadValues, Steps, NONE, DescriptorInv, TypesAreKept
  <1>3. th[t].new = NONE
    BY <1>1, NewOf
  <1>4. x.pc \notin HasSocket /\ x.pc \notin {"cas", "reopen"}
    BY <1>2 DEF HasSocket
  <1> HIDE DEF x
  <1> QED BY <1>1, <1>2, <1>3, <1>4, OneThreadMoves

\* A thread that opens a descriptor holds it alone.
LEMMA OpenKeeps ==
    ASSUME MaxFd \in Nat, DescriptorInv, NEW t \in Threads, Free # {}, th[t].new = NONE,
           UNCHANGED <<sock, pmsg_fd, logd>>,
           NEW e \in [kind : {"sock", "pmsg"}, peer : Nat], fds' = [fds EXCEPT ![Min(Free)] = e],
           NEW x \in ThreadValues, Moves(t, x), x.new = Min(Free),
           \/ x.pc = "cas" /\ e.kind = "sock"
           \/ x.pc = "reopen" /\ e.kind = "pmsg" /\ x.new = 0
           \/ x.pc = "pcas" /\ e.kind = "pmsg" /\ x.new # 0
    PROVE  DescriptorInv'
  <1> DEFINE f == Min(Free)
  <1>1. f \in Fds /\ fds[f].kind = "closed" /\ f # NONE
    BY FirstFree, NoneIsApart
  <1>2. /\ th' \in [Threads -> ThreadValues] /\ th'[t] = x
        /\ \A u \in Threads : u # t => th'[u] = th[u]
    BY OneMoves
  <1> HIDE DEF f
  <1>3. /\ fds' \in [Fds -> [kind : {"closed", "stdin", "sock", "pmsg"}, peer : Nat]]
        /\ fds'[f] = e /\ \A g \in Fds : g # f => fds'[g] = fds[g]
    <2>1. fds' = [fds EXCEPT ![f] = e]
      BY DEF f
    <2>2. e \in [kind : {"closed", "stdin", "sock", "pmsg"}, peer : Nat]
      OBVIOUS
    <2> QED BY <1>1, <2>1, <2>2 DEF DescriptorInv, TypesAreKept
  <1>4. x.new = f
    BY DEF f
  <1>5. /\ \A u \in Threads : th[u].new # f
        /\ \A s \in Sockets : sock[s] # f
        /\ pmsg_fd > 0 => pmsg_fd # f
    <2>1. \A u \in Threads : th[u].new # f
      BY <1>1, NewOf DEF DescriptorInv, NewIsOpen, OpensItsKind
    <2>2. \A s \in Sockets : sock[s] # f
      BY <1>1 DEF DescriptorInv, PublishedIsOpen, NONE
    <2> QED BY <1>1, <2>1, <2>2 DEF DescriptorInv, PublishedIsOpen
  <1>6. TypesAreKept'
    BY <1>2, <1>3 DEF DescriptorInv, TypesAreKept
  <1>7. NewIsOpen'
    <2>1. ASSUME NEW u \in Threads PROVE OpensItsKind(th'[u], fds')
      <3>1. CASE u = t
        BY <1>1, <1>2, <1>3, <1>4, <3>1 DEF OpensItsKind
      <3>2. CASE u # t
        <4>1. th'[u] = th[u] /\ OpensItsKind(th[u], fds) /\ th[u].new # f /\ th[u].new \in Fds \cup {NONE}
          BY <1>2, <1>5, <3>2 DEF DescriptorInv, NewIsOpen, TypesAreKept, ThreadValues
        <4> QED BY <1>3, <4>1 DEF OpensItsKind
      <3> QED BY <3>1, <3>2
    <2> QED BY <2>1 DEF NewIsOpen
  <1>8. PublishedIsOpen'
    <2>1. \A s \in Sockets : sock[s] # NONE => fds'[sock[s]].kind = "sock"
      BY <1>3, <1>5 DEF DescriptorInv, PublishedIsOpen, TypesAreKept, NONE
    <2>2. pmsg_fd > 0 => fds'[pmsg_fd].kind = "pmsg"
      <3> SUFFICES ASSUME pmsg_fd > 0 PROVE fds'[pmsg_fd].kind = "pmsg"
        OBVIOUS
      <3>1. pmsg_fd \in Fds
        BY NoneIsApart DEF DescriptorInv, TypesAreKept
      <3> QED BY <1>3, <1>5, <3>1 DEF DescriptorInv, PublishedIsOpen
    <2> QED BY <2>1, <2>2 DEF PublishedIsOpen, NONE
  <1>9. HoldersDiffer'
    <2>1. ASSUME NEW a \in Threads, NEW b \in Threads, a # b, th'[a].new # NONE
          PROVE  th'[a].new # th'[b].new
      BY <1>2, <1>4, <1>5, <2>1 DEF DescriptorInv, HoldersDiffer
    <2>2. ASSUME NEW a \in Threads, NEW s \in Sockets, sock[s] # NONE
          PROVE  sock[s] # th'[a].new
      BY <1>2, <1>4, <1>5, <2>2 DEF DescriptorInv, HoldersDiffer
    <2>3. ASSUME NEW a \in Threads, pmsg_fd > 0
          PROVE  pmsg_fd # th'[a].new
      BY <1>2, <1>4, <1>5, <2>3 DEF DescriptorInv, HoldersDiffer
    <2> QED BY <2>1, <2>2, <2>3 DEF DescriptorInv, HoldersDiffer
  <1>10. OpenIsHeld'
    <2> SUFFICES ASSUME NEW g \in Fds, fds'[g].kind \in {"sock", "pmsg"} PROVE Holds(g)'
      BY DEF OpenIsHeld
    <2>1. CASE g = f
      BY <1>2, <1>4, <2>1 DEF Holds
    <2>2. CASE g # f
      <3>1. Holds(g) /\ g # NONE
        BY <1>3, <2>2, NoneIsApart DEF DescriptorInv, OpenIsHeld
      <3> QED BY <1>2, <3>1 DEF Holds
    <2> QED BY <2>1, <2>2
  <1>11. SocketIsKnown'
    BY <1>2 DEF DescriptorInv, SocketIsKnown, HasSocket
  <1> QED BY <1>6, <1>7, <1>8, <1>9, <1>10, <1>11 DEF DescriptorInv

LEMMA GetSocketKeeps ==
    ASSUME MaxFd \in Nat, DescriptorInv, NEW t \in Threads, GetSocket(t)
    PROVE  DescriptorInv'
  <1> DEFINE s == TheSocket(th[t].msg)
  <1>1. /\ th[t].pc = "sock" /\ UNCHANGED <<sock, pmsg_fd, logd>> /\ th[t].new = NONE
        /\ th[t] \in ThreadValues
    BY NewOf DEF GetSocket
  <1>2. CASE sock[s] # NONE
    <2> DEFINE x == [th[t] EXCEPT !.pc = "exchange"]
    <2>1. Moves(t, x) /\ UNCHANGED fds
      BY <1>1, <1>2 DEF GetSocket, Goto, Moves, NONE
    <2>2. x \in ThreadValues /\ x.new = NONE /\ x.pc = "exchange" /\ x.msg = th[t].msg
      BY <1>1 DEF ThreadValues, Steps, HasSocket
    <2> HIDE DEF x
    <2> QED BY <1>1, <1>2, <2>1, <2>2, OneThreadMoves
  <1>3. CASE sock[s] = NONE /\ Free = {}
    <2> DEFINE x == [th[t] EXCEPT !.pc = "pmsg", !.excused = TRUE]
    <2>1. Moves(t, x) /\ UNCHANGED fds
      BY <1>1, <1>3 DEF GetSocket, Moves, NONE, DescriptorInv, TypesAreKept
    <2>2. x \in ThreadValues /\ x.new = NONE /\ x.pc = "pmsg" /\ x.pc \notin HasSocket
      BY <1>1 DEF ThreadValues, Steps, HasSocket
    <2> HIDE DEF x
    <2> QED BY <1>1, <2>1, <2>2, OneThreadMoves
  <1>4. CASE sock[s] = NONE /\ Free # {}
    <2> DEFINE x == [th[t] EXCEPT !.pc = "cas", !.new = Min(Free)]
               e == [kind |-> "sock", peer |-> Connection]
    <2>1. Moves(t, x) /\ fds' = [fds EXCEPT ![Min(Free)] = e]
      BY <1>1, <1>4 DEF GetSocket, Moves, NONE, DescriptorInv, TypesAreKept
    <2>2. Min(Free) \in Fds
      BY <1>4, FirstFree
    <2>3. x \in ThreadValues /\ x.new = Min(Free) /\ x.pc = "cas"
      BY <1>1, <2>2 DEF ThreadValues, Steps
    <2>4. e \in [kind : {"sock", "pmsg"}, peer : Nat] /\ e.kind = "sock"
      BY DEF Connection, DescriptorInv, TypesAreKept
    <2> HIDE DEF x, e
    <2> QED BY <1>1, <1>4, <2>1, <2>3, <2>4, OpenKeeps
  <1> QED BY <1>2, <1>3, <1>4

\* A thread that closes a descriptor it holds alone
LEMMA CloseKeeps ==
    ASSUME MaxFd \in Nat, DescriptorInv, NEW t \in Threads, th[t].new # NONE,
           UNCHANGED <<sock, pmsg_fd, logd>>, fds' = [fds EXCEPT ![th[t].new] = Closed],
           NEW x \in ThreadValues, Moves(t, x), x.new = NONE, x.pc \notin {"cas", "reopen"},
           x.pc \in HasSocket => sock[TheSocket(x.msg)] # NONE
    PROVE  DescriptorInv'
  <1> DEFINE f == th[t].new
  <1>1. f \in Fds /\ f # NONE
    BY NewOf DEF ThreadValues
  <1>2. /\ th' \in [Threads -> ThreadValues] /\ th'[t] = x
        /\ \A u \in Threads : u # t => th'[u] = th[u]
    BY OneMoves
  <1>3. /\ fds' \in [Fds -> [kind : {"closed", "stdin", "sock", "pmsg"}, peer : Nat]]
        /\ fds'[f] = Closed /\ \A g \in Fds : g # f => fds'[g] = fds[g]
    BY <1>1 DEF DescriptorInv, TypesAreKept, Closed
  <1>4. /\ \A u \in Threads : u # t => th[u].new # f
        /\ \A s \in Sockets : sock[s] # f
        /\ pmsg_fd > 0 => pmsg_fd # f
    BY <1>1 DEF DescriptorInv, HoldersDiffer
  <1> HIDE DEF f
  <1>5. TypesAreKept'
    BY <1>2, <1>3 DEF DescriptorInv, TypesAreKept
  <1>6. NewIsOpen'
    <2>1. ASSUME NEW u \in Threads PROVE OpensItsKind(th'[u], fds')
      <3>1. CASE u = t
        BY <1>2, <3>1 DEF OpensItsKind
      <3>2. CASE u # t
        <4>1. th'[u] = th[u] /\ OpensItsKind(th[u], fds) /\ th[u].new # f /\ th[u].new \in Fds \cup {NONE}
          BY <1>2, <1>4, <3>2 DEF DescriptorInv, NewIsOpen, TypesAreKept, ThreadValues
        <4>2. th[u].pc = "reopen" => th[u].new \in Fds
          BY <4>1, NoneIsApart DEF OpensItsKind
        <4> QED BY <1>3, <4>1, <4>2 DEF OpensItsKind
      <3> QED BY <3>1, <3>2
    <2> QED BY <2>1 DEF NewIsOpen
  <1>7. PublishedIsOpen'
    <2>1. \A s \in Sockets : sock[s] # NONE => fds'[sock[s]].kind = "sock"
      BY <1>3, <1>4 DEF DescriptorInv, PublishedIsOpen, TypesAreKept, NONE
    <2>2. ASSUME pmsg_fd > 0 PROVE fds'[pmsg_fd].kind = "pmsg"
      <3>1. pmsg_fd \in Fds
        BY <2>2, NoneIsApart DEF DescriptorInv, TypesAreKept
      <3> QED BY <1>3, <1>4, <2>2, <3>1 DEF DescriptorInv, PublishedIsOpen
    <2> QED BY <2>1, <2>2 DEF PublishedIsOpen, NONE
  <1>8. HoldersDiffer'
    <2>1. ASSUME NEW a \in Threads, NEW b \in Threads, a # b, th'[a].new # NONE
          PROVE  th'[a].new # th'[b].new
      BY <1>2, <2>1 DEF DescriptorInv, HoldersDiffer
    <2>2. ASSUME NEW a \in Threads, NEW s \in Sockets, sock[s] # NONE
          PROVE  sock[s] # th'[a].new
      BY <1>2, <2>2 DEF DescriptorInv, HoldersDiffer
    <2>3. ASSUME NEW a \in Threads, pmsg_fd > 0
          PROVE  pmsg_fd # th'[a].new
      BY <1>2, <2>3, NoneIsApart DEF DescriptorInv, HoldersDiffer
    <2> QED BY <2>1, <2>2, <2>3 DEF DescriptorInv, HoldersDiffer
  <1>9. OpenIsHeld'
    <2> SUFFICES ASSUME NEW g \in Fds, fds'[g].kind \in {"sock", "pmsg"} PROVE Holds(g)'
      BY DEF OpenIsHeld
    <2>1. g # f
      BY <1>3 DEF Closed
    <2>2. Holds(g) /\ th[t].new # g
      BY <1>3, <2>1 DEF DescriptorInv, OpenIsHeld, f
    <2> QED BY <1>2, <2>2 DEF Holds
  <1>10. SocketIsKnown'
    BY <1>2 DEF DescriptorInv, SocketIsKnown
  <1> QED BY <1>5, <1>6, <1>7, <1>8, <1>9, <1>10 DEF DescriptorInv

LEMMA ExchangeSocketKeeps ==
    ASSUME MaxFd \in Nat, DescriptorInv, NEW t \in Threads, ExchangeSocket(t)
    PROVE  DescriptorInv'
  <1> DEFINE s == TheSocket(th[t].msg)
             f == th[t].new
             x == [th[t] EXCEPT !.pc = "exchange", !.new = kUninitialized]
  <1>1. /\ th[t].pc = "cas" /\ UNCHANGED <<pmsg_fd, logd>> /\ th[t] \in ThreadValues
        /\ s \in Sockets
    BY NewOf, SocketOfMessage DEF ExchangeSocket
  <1>2. f # NONE /\ f \in Fds /\ fds[f].kind = "sock"
    BY <1>1 DEF DescriptorInv, NewIsOpen, OpensItsKind, ThreadValues
  <1>3. Moves(t, x)
    BY <1>1 DEF ExchangeSocket, Moves, DescriptorInv, TypesAreKept
  <1>4. x \in ThreadValues /\ x.new = NONE /\ x.pc = "exchange" /\ x.msg = th[t].msg
    BY <1>1 DEF ThreadValues, Steps, HasSocket, NONE
  <1>5. CASE sock[s] # NONE
    <2>1. sock' = sock /\ fds' = [fds EXCEPT ![th[t].new] = Closed]
      BY <1>5 DEF ExchangeSocket, CloseLoser, NONE
    <2> HIDE DEF x
    <2> QED BY <1>1, <1>2, <1>3, <1>4, <1>5, <2>1, CloseKeeps
  <1>6. CASE sock[s] = NONE
    <2>1. sock' = [sock EXCEPT ![s] = f] /\ fds' = fds
      BY <1>6 DEF ExchangeSocket, NONE
    <2>2. /\ th' \in [Threads -> ThreadValues] /\ th'[t] = x
          /\ \A u \in Threads : u # t => th'[u] = th[u]
      BY <1>3, <1>4, OneMoves
    <2>3. /\ sock' \in [Sockets -> Fds \cup {NONE}] /\ sock'[s] = f
          /\ \A r \in Sockets : r # s => sock'[r] = sock[r]
      BY <1>1, <1>2, <2>1 DEF DescriptorInv, TypesAreKept
    <2>4. /\ \A u \in Threads : u # t => th[u].new # f
          /\ \A r \in Sockets : sock[r] # f
          /\ pmsg_fd > 0 => pmsg_fd # f
      BY <1>2 DEF DescriptorInv, HoldersDiffer
    <2> HIDE DEF x, s, f
    <2>5. TypesAreKept'
      BY <1>1, <2>1, <2>2, <2>3 DEF DescriptorInv, TypesAreKept
    <2>6. NewIsOpen'
      BY <1>4, <2>1, <2>2 DEF DescriptorInv, NewIsOpen, OpensItsKind
    <2>7. PublishedIsOpen'
      BY <1>1, <1>2, <2>1, <2>3 DEF DescriptorInv, PublishedIsOpen
    <2>8. HoldersDiffer'
      <3>1. ASSUME NEW a \in Threads, NEW b \in Threads, a # b, th'[a].new # NONE
            PROVE  th'[a].new # th'[b].new
        BY <1>4, <2>2, <3>1 DEF DescriptorInv, HoldersDiffer
      <3>2. ASSUME NEW a \in Threads, NEW r \in Sockets, sock'[r] # NONE
            PROVE  sock'[r] # th'[a].new
        <4>1. CASE r = s
          BY <1>2, <1>4, <2>2, <2>3, <2>4, <4>1
        <4>2. CASE r # s
          BY <1>4, <2>2, <2>3, <3>2, <4>2 DEF DescriptorInv, HoldersDiffer
        <4> QED BY <4>1, <4>2
      <3>3. ASSUME NEW a \in Threads, pmsg_fd > 0
            PROVE  pmsg_fd # th'[a].new
        BY <1>4, <2>2, <3>3, NoneIsApart DEF DescriptorInv, HoldersDiffer
      <3>4. sock'["blocking"] # NONE => sock'["blocking"] # sock'["nonblocking"]
        BY <1>1, <1>2, <2>3, <2>4 DEF DescriptorInv, HoldersDiffer, Sockets
      <3> QED BY <1>1, <3>1, <3>2, <3>3, <3>4 DEF HoldersDiffer
    <2>9. OpenIsHeld'
      <3> SUFFICES ASSUME NEW g \in Fds, fds'[g].kind \in {"sock", "pmsg"} PROVE Holds(g)'
        BY DEF OpenIsHeld
      <3>1. Holds(g) /\ g # NONE
        BY <2>1, NoneIsApart DEF DescriptorInv, OpenIsHeld
      <3>2. CASE g = f
        BY <1>1, <2>3, <3>2 DEF Holds
      <3>3. CASE g # f
        BY <1>1, <1>6, <2>2, <2>3, <3>1, <3>3 DEF Holds, f
      <3> QED BY <3>2, <3>3
    <2>10. SocketIsKnown'
      <3> SUFFICES ASSUME NEW u \in Threads, th'[u].pc \in HasSocket
                   PROVE  sock'[TheSocket(th'[u].msg)] # NONE
        BY DEF SocketIsKnown
      <3>1. CASE u = t
        BY <1>2, <1>4, <2>2, <2>3, <3>1 DEF s
      <3>2. CASE u # t
        <4>1. th'[u] = th[u] /\ sock[TheSocket(th[u].msg)] # NONE
          BY <2>2, <3>2 DEF DescriptorInv, SocketIsKnown
        <4> QED BY <1>6, <2>3, <4>1, SocketOfMessage
      <3> QED BY <3>1, <3>2
    <2> QED BY <2>5, <2>6, <2>7, <2>8, <2>9, <2>10 DEF DescriptorInv
  <1> QED BY <1>5, <1>6

\* The steps between: the thread has its socket and opens nothing.
LEMMA TakeDroppedKeeps ==
    ASSUME DescriptorInv, dropped \in Nat, NEW t \in Threads, TakeDropped(t)
    PROVE  DescriptorInv'
  <1>1. /\ UNCHANGED <<sock, pmsg_fd, fds, logd>> /\ th[t].pc = "exchange" /\ th[t] \in ThreadValues
    BY NewOf DEF TakeDropped, kernel
  <1>2. PICK x : Moves(t, x) /\ \/ x = [th[t] EXCEPT !.pc = "pmsg"]
                                \/ x = [th[t] EXCEPT !.pc = "write"]
                                \/ x = [th[t] EXCEPT !.pc = "report", !.snapshot = dropped]
    BY DEF TakeDropped, Goto, Moves, DescriptorInv, TypesAreKept
  <1>3. x \in ThreadValues /\ x.msg = th[t].msg /\ x.new = th[t].new
        /\ x.pc \in {"pmsg", "write", "report"}
    BY <1>1, <1>2 DEF ThreadValues, Steps, HasSocket
  <1> QED BY <1>1, <1>2, <1>3, GotoKeeps DEF HasSocket

LEMMA ReportDroppedKeeps ==
    ASSUME DescriptorInv, NEW t \in Threads, ReportDropped(t)
    PROVE  DescriptorInv'
  <1>1. /\ UNCHANGED <<sock, pmsg_fd, fds, logd>> /\ th[t].pc = "report" /\ th[t] \in ThreadValues
    BY NewOf DEF ReportDropped
  <1>2. PICK x : /\ Moves(t, x)
                 /\ x \in {[th[t] EXCEPT !.pc = "write", !.snapshot = 0],
                           [th[t] EXCEPT !.pc = "putback"]}
    BY DEF ReportDropped, Goto, Moves, DescriptorInv, TypesAreKept
  <1>3. CASE x = [th[t] EXCEPT !.pc = "write", !.snapshot = 0]
    <2>1. x \in ThreadValues /\ x.msg = th[t].msg /\ x.new = th[t].new /\ x.pc = "write"
      BY <1>1, <1>3 DEF ThreadValues, Steps, HasSocket
    <2> QED BY <1>1, <1>2, <2>1, GotoKeeps DEF HasSocket
  <1>4. CASE x = [th[t] EXCEPT !.pc = "putback"]
    <2>1. x \in ThreadValues /\ x.msg = th[t].msg /\ x.new = th[t].new /\ x.pc = "putback"
      BY <1>1, <1>4 DEF ThreadValues, Steps, HasSocket
    <2> QED BY <1>1, <1>2, <2>1, GotoKeeps DEF HasSocket
  <1> QED BY <1>2, <1>3, <1>4

LEMMA PutBackDroppedKeeps ==
    ASSUME DescriptorInv, NEW t \in Threads, PutBackDropped(t)
    PROVE  DescriptorInv'
  <1> DEFINE x == [th[t] EXCEPT !.pc = "write", !.snapshot = 0]
  <1>1. /\ UNCHANGED <<sock, pmsg_fd, fds, logd>> /\ th[t].pc = "putback" /\ th[t] \in ThreadValues
    BY NewOf DEF PutBackDropped, kernel
  <1>2. Moves(t, x)
    BY DEF PutBackDropped, Moves, DescriptorInv, TypesAreKept
  <1>3. x \in ThreadValues /\ x.msg = th[t].msg /\ x.new = th[t].new /\ x.pc = "write"
    BY <1>1 DEF ThreadValues, Steps, HasSocket
  <1> HIDE DEF x
  <1> QED BY <1>1, <1>2, <1>3, GotoKeeps DEF HasSocket

\* WriteV() sends, or goes on to Reconnect(), or counts the message as dropped.
Sends(t) ==
    /\ th' = [th EXCEPT ![t].pc = "pmsg"]
    /\ queue' = Append(queue,
                   [from |-> t, n |-> th[t].n, id |-> buffer_id(th[t].msg),
                    size |-> Sum(NewVec(Vec(th[t].msg))), full |-> Sum(Vec(th[t].msg))])

TriesAgain(t) ==
    /\ th' = [th EXCEPT ![t].pc = "reconnect"] /\ queue' = queue

IsRefused(t, b) ==
    /\ th' = [th EXCEPT ![t].pc = "count", ![t].excused = b] /\ queue' = queue
    /\ b \in BOOLEAN
    /\ b \/ (th[t].pc = "rewrite" /\ ~Connected(TheSocket(th[t].msg)))
    /\ th[t].excused => b

LEMMA WriteVCases ==
    ASSUME DescriptorInv, NEW t \in Threads, WriteV(t)
    PROVE  Sends(t) \/ TriesAgain(t) \/ \E b : IsRefused(t, b)
  <1> DEFINE s == TheSocket(th[t].msg)
             b == th[t].excused \/ Errno(s) = "EAGAIN"
  <1>1. CASE Errno(s) = "ok"
    BY <1>1 DEF WriteV, Goto, Sends
  <1>2. CASE Errno(s) # "ok" /\ Retries(t, s)
    BY <1>2 DEF WriteV, Goto, TriesAgain
  <1>3. CASE Errno(s) # "ok" /\ ~Retries(t, s)
    <2>1. /\ th' = [th EXCEPT ![t].pc = "count", ![t].excused = @ \/ Errno(s) = "EAGAIN"]
          /\ queue' = queue /\ th[t].pc \in {"write", "rewrite"}
      BY <1>3 DEF WriteV
    <2>2. th' = [th EXCEPT ![t].pc = "count", ![t].excused = b]
      BY <2>1 DEF DescriptorInv, TypesAreKept
    <2>3. Errno(s) # "EAGAIN" => th[t].pc = "rewrite" /\ ~Connected(s)
      BY <1>3, <2>1 DEF Retries, Errno
    <2>4. b \in BOOLEAN /\ (b \/ (th[t].pc = "rewrite" /\ ~Connected(s))) /\ (th[t].excused => b)
      BY <2>3
    <2> HIDE DEF b
    <2>5. IsRefused(t, b)
      BY <2>1, <2>2, <2>4 DEF IsRefused
    <2> QED BY <2>5
  <1> QED BY <1>1, <1>2, <1>3

LEMMA WriteVKeeps ==
    ASSUME DescriptorInv, NEW t \in Threads, WriteV(t)
    PROVE  DescriptorInv'
  <1>1. /\ UNCHANGED <<sock, pmsg_fd, fds, logd>> /\ th[t].pc \in {"write", "rewrite"}
        /\ th[t] \in ThreadValues
    BY NewOf DEF WriteV
  <1>2. ASSUME NEW x \in ThreadValues, Moves(t, x), x.msg = th[t].msg, x.new = th[t].new,
               x.pc \in {"pmsg", "reconnect", "count"}
        PROVE  DescriptorInv'
    BY <1>1, <1>2, GotoKeeps DEF HasSocket
  <1>3. CASE Sends(t)
    <2> DEFINE x == [th[t] EXCEPT !.pc = "pmsg"]
    <2>1. Moves(t, x)
      BY <1>3 DEF Moves, Sends
    <2>2. x \in ThreadValues /\ x.msg = th[t].msg /\ x.new = th[t].new /\ x.pc = "pmsg"
      BY <1>1 DEF ThreadValues, Steps
    <2> HIDE DEF x
    <2> QED BY <1>2, <2>1, <2>2
  <1>4. CASE TriesAgain(t)
    <2> DEFINE x == [th[t] EXCEPT !.pc = "reconnect"]
    <2>1. Moves(t, x)
      BY <1>4 DEF Moves, TriesAgain
    <2>2. x \in ThreadValues /\ x.msg = th[t].msg /\ x.new = th[t].new /\ x.pc = "reconnect"
      BY <1>1 DEF ThreadValues, Steps, HasSocket
    <2> HIDE DEF x
    <2> QED BY <1>2, <2>1, <2>2
  <1>5. ASSUME NEW b, IsRefused(t, b) PROVE DescriptorInv'
    <2> DEFINE x == [th[t] EXCEPT !.pc = "count", !.excused = b]
    <2>1. Moves(t, x)
      BY <1>5 DEF Moves, IsRefused, DescriptorInv, TypesAreKept
    <2>2. x \in ThreadValues /\ x.msg = th[t].msg /\ x.new = th[t].new /\ x.pc = "count"
      BY <1>1, <1>5 DEF ThreadValues, Steps, HasSocket, IsRefused
    <2> HIDE DEF x
    <2> QED BY <1>2, <2>1, <2>2
  <1> QED BY <1>3, <1>4, <1>5, WriteVCases

LEMMA CountDroppedKeeps ==
    ASSUME DescriptorInv, NEW t \in Threads, CountDropped(t)
    PROVE  DescriptorInv'
  <1> DEFINE x == [th[t] EXCEPT !.pc = "pmsg"]
  <1>1. /\ UNCHANGED <<sock, pmsg_fd, fds, logd>> /\ th[t].pc = "count" /\ th[t] \in ThreadValues
    BY NewOf DEF CountDropped, kernel
  <1>2. Moves(t, x)
    BY DEF CountDropped, Goto, Moves
  <1>3. x \in ThreadValues /\ x.msg = th[t].msg /\ x.new = th[t].new /\ x.pc = "pmsg"
    BY <1>1 DEF ThreadValues, Steps
  <1> HIDE DEF x
  <1> QED BY <1>1, <1>2, <1>3, GotoKeeps DEF HasSocket

LEMMA PmsgWriteKeeps ==
    ASSUME DescriptorInv, NEW t \in Threads, PmsgWrite(t)
    PROVE  DescriptorInv'
  <1> DEFINE x == [th[t] EXCEPT !.pc = "idle"]
  <1>1. /\ UNCHANGED <<sock, pmsg_fd, fds, logd>> /\ th[t].pc = "pwrite" /\ th[t] \in ThreadValues
    BY NewOf DEF PmsgWrite, kernel
  <1>2. Moves(t, x)
    BY DEF PmsgWrite, Goto, Moves
  <1>3. x \in ThreadValues /\ x.msg = th[t].msg /\ x.new = th[t].new /\ x.pc = "idle"
    BY <1>1 DEF ThreadValues, Steps
  <1> HIDE DEF x
  <1> QED BY <1>1, <1>2, <1>3, GotoKeeps DEF HasSocket

LEMMA ReconnectKeeps ==
    ASSUME DescriptorInv, NEW t \in Threads, Reconnect(t)
    PROVE  DescriptorInv'
  <1> DEFINE f == sock[TheSocket(th[t].msg)]
             peer == IF logd.up THEN logd.incarnation ELSE fds[f].peer
             x == [th[t] EXCEPT !.pc = "rewrite"]
  <1>1. /\ UNCHANGED <<sock, pmsg_fd, logd>> /\ th[t].pc = "reconnect" /\ th[t] \in ThreadValues
        /\ th[t].new = NONE /\ Moves(t, x)
    BY NewOf DEF Reconnect, Goto, Moves
  <1>2. f \in Fds /\ f # NONE
    BY <1>1, SocketOf DEF HasSocket
  <1>3. peer \in Nat
    BY <1>2 DEF DescriptorInv, TypesAreKept
  <1>4. fds' = [fds EXCEPT ![f].peer = peer]
    BY DEF Reconnect
  <1> HIDE DEF peer, f
  <1>5. /\ fds' \in [Fds -> [kind : {"closed", "stdin", "sock", "pmsg"}, peer : Nat]]
        /\ \A g \in Fds : fds'[g].kind = fds[g].kind
    BY <1>2, <1>3, <1>4 DEF DescriptorInv, TypesAreKept
  <1>6. x \in ThreadValues /\ x.new = NONE /\ x.pc = "rewrite" /\ x.msg = th[t].msg
    BY <1>1 DEF ThreadValues, Steps, HasSocket
  <1> HIDE DEF x
  <1>7. /\ th' \in [Threads -> ThreadValues] /\ th'[t] = x
        /\ \A u \in Threads : u # t => th'[u] = th[u]
    BY <1>1, <1>6, OneMoves
  <1>8. \A u \in Threads : th'[u].new = th[u].new
    BY <1>1, <1>6, <1>7
  <1>9. TypesAreKept'
    BY <1>1, <1>5, <1>7 DEF DescriptorInv, TypesAreKept
  <1>10. NewIsOpen'
    <2>1. ASSUME NEW u \in Threads PROVE OpensItsKind(th'[u], fds')
      <3>1. CASE u = t
        BY <1>6, <1>7, <3>1 DEF OpensItsKind
      <3>2. CASE u # t
        <4>1. th'[u] = th[u] /\ OpensItsKind(th[u], fds) /\ th[u].new \in Fds \cup {NONE}
          BY <1>7, <3>2 DEF DescriptorInv, NewIsOpen, TypesAreKept, ThreadValues
        <4>2. th[u].pc = "reopen" => th[u].new # NONE
          BY <4>1 DEF OpensItsKind, NONE, kUninitialized
        <4> QED BY <1>5, <4>1, <4>2 DEF OpensItsKind
      <3> QED BY <3>1, <3>2
    <2> QED BY <2>1 DEF NewIsOpen
  <1>11. PublishedIsOpen'
    <2>1. \A s \in Sockets : sock[s] # NONE => sock[s] \in Fds
      BY DEF DescriptorInv, TypesAreKept
    <2>2. pmsg_fd > 0 => pmsg_fd \in Fds
      BY DEF DescriptorInv, TypesAreKept, NONE, kUninitialized
    <2> QED BY <1>1, <1>5, <2>1, <2>2 DEF DescriptorInv, PublishedIsOpen, NONE
  <1>12. HoldersDiffer'
    BY <1>1, <1>8 DEF DescriptorInv, HoldersDiffer
  <1>13. OpenIsHeld'
    BY <1>1, <1>5, <1>8 DEF DescriptorInv, OpenIsHeld, Holds
  <1>14. SocketIsKnown'
    BY <1>1, <1>2, <1>6, <1>7 DEF DescriptorInv, SocketIsKnown, f
  <1> QED BY <1>9, <1>10, <1>11, <1>12, <1>13, <1>14 DEF DescriptorInv

LEMMA GetPmsgFdKeeps ==
    ASSUME MaxFd \in Nat, DescriptorInv, NEW t \in Threads, GetPmsgFd(t)
    PROVE  DescriptorInv'
  <1>1. /\ UNCHANGED <<sock, pmsg_fd, logd>> /\ th[t].pc = "pmsg" /\ th[t] \in ThreadValues
        /\ th[t].new = NONE
    BY NewOf DEF GetPmsgFd
  <1>2. ASSUME NEW pc \in {"idle", "pwrite", "pcas"}, Goto(t, pc), UNCHANGED fds
        PROVE  DescriptorInv'
    <2> DEFINE x == [th[t] EXCEPT !.pc = pc]
    <2>1. Moves(t, x)
      BY <1>2 DEF Goto, Moves
    <2>2. x \in ThreadValues /\ x.msg = th[t].msg /\ x.new = NONE /\ x.pc = pc
      BY <1>1 DEF ThreadValues, Steps
    <2>3. x.pc \notin HasSocket /\ x.pc \notin {"cas", "reopen"}
      BY <2>2 DEF HasSocket
    <2> HIDE DEF x
    <2> QED BY <1>1, <1>2, <2>1, <2>2, <2>3, OneThreadMoves
  <1>3. ASSUME Free # {},
               th' = [th EXCEPT ![t].new = Min(Free),
                                ![t].pc = IF Min(Free) = 0 THEN "reopen" ELSE "pcas"],
               fds' = [fds EXCEPT ![Min(Free)] = [kind |-> "pmsg", peer |-> 0]]
        PROVE  DescriptorInv'
    <2> DEFINE x == [th[t] EXCEPT !.new = Min(Free), !.pc = IF Min(Free) = 0 THEN "reopen" ELSE "pcas"]
               e == [kind |-> "pmsg", peer |-> 0]
    <2>1. Moves(t, x) /\ fds' = [fds EXCEPT ![Min(Free)] = e]
      BY <1>3 DEF Moves, DescriptorInv, TypesAreKept
    <2>2. Min(Free) \in Fds
      BY <1>3, FirstFree
    <2>3. /\ x \in ThreadValues /\ x.new = Min(Free)
          /\ \/ x.pc = "reopen" /\ x.new = 0
             \/ x.pc = "pcas" /\ x.new # 0
      BY <1>1, <2>2 DEF ThreadValues, Steps
    <2>4. e \in [kind : {"sock", "pmsg"}, peer : Nat] /\ e.kind = "pmsg"
      OBVIOUS
    <2> HIDE DEF x, e
    <2> QED BY <1>1, <1>3, <2>1, <2>3, <2>4, OpenKeeps
  <1> QED BY <1>2, <1>3 DEF GetPmsgFd

LEMMA LogdKeeps ==
    ASSUME DescriptorInv, HandleData \/ LogdStart \/ LogdDie
    PROVE  DescriptorInv'
  <1>1. CASE HandleData
    BY <1>1, ThreadMoves DEF HandleData, DescriptorInv, TypesAreKept
  <1>2. CASE LogdStart
    BY <1>2, ThreadMoves DEF LogdStart, DescriptorInv, TypesAreKept
  <1>3. CASE LogdDie
    <2>1. /\ th' \in [Threads -> ThreadValues]
          /\ \A t \in Threads : /\ th'[t].new = th[t].new /\ th'[t].pc = th[t].pc
                                 /\ th'[t].msg = th[t].msg
      <3>1. th' = [t \in Threads |-> [th[t] EXCEPT !.excused = TRUE]]
        BY <1>3 DEF LogdDie
      <3>2. ASSUME NEW x \in ThreadValues
            PROVE  LET y == [x EXCEPT !.excused = TRUE]
                   IN  y \in ThreadValues /\ y.new = x.new /\ y.pc = x.pc /\ y.msg = x.msg
        BY DEF ThreadValues
      <3>3. \A t \in Threads : th[t] \in ThreadValues
        BY DEF DescriptorInv, TypesAreKept
      <3> QED BY <3>1, <3>2, <3>3
    <2>2. logd' \in [up : BOOLEAN, incarnation : Nat] /\ UNCHANGED <<sock, pmsg_fd, fds>>
      BY <1>3 DEF LogdDie, DescriptorInv, TypesAreKept
    <2> QED BY <2>1, <2>2, ThreadMoves
  <1> QED BY <1>1, <1>2, <1>3

\* ReopenPmsg() opens another descriptor and closes 0.
LEMMA ReopenPmsgKeeps ==
    ASSUME MaxFd \in Nat, DescriptorInv, NEW t \in Threads, ReopenPmsg(t)
    PROVE  DescriptorInv'
  <1> DEFINE f == IF Free = {} THEN kUninitialized ELSE Min(Free)
             x == [th[t] EXCEPT !.new = f, !.pc = "pcas"]
  <1>1. /\ UNCHANGED <<sock, pmsg_fd, logd>> /\ th[t].pc = "reopen" /\ th[t] \in ThreadValues
        /\ Moves(t, x)
    BY NewOf DEF ReopenPmsg, Moves, DescriptorInv, TypesAreKept
  <1>2. th[t].new = 0 /\ fds[0].kind = "pmsg" /\ 0 \in Fds /\ 0 # NONE
    BY <1>1, NoneIsApart DEF DescriptorInv, NewIsOpen, OpensItsKind
  <1>3. /\ f # NONE => f \in Fds /\ fds[f].kind = "closed" /\ f # 0
        /\ f \in Fds \cup {NONE}
    BY <1>2, FirstFree DEF NONE
  <1>4. fds' = [g \in Fds |-> IF g = 0 THEN Closed
                              ELSE IF g = f THEN [kind |-> "pmsg", peer |-> 0] ELSE fds[g]]
    BY DEF ReopenPmsg
  <1>5. x \in ThreadValues /\ x.new = f /\ x.pc = "pcas"
    BY <1>1, <1>3 DEF ThreadValues, Steps
  <1> HIDE DEF x, f
  <1>6. /\ fds' \in [Fds -> [kind : {"closed", "stdin", "sock", "pmsg"}, peer : Nat]]
        /\ fds'[0].kind = "closed" /\ (f # NONE => fds'[f].kind = "pmsg")
        /\ \A g \in Fds : g # 0 /\ g # f => fds'[g] = fds[g]
    BY <1>2, <1>3, <1>4 DEF DescriptorInv, TypesAreKept, Closed
  <1>7. /\ th' \in [Threads -> ThreadValues] /\ th'[t] = x
        /\ \A u \in Threads : u # t => th'[u] = th[u]
    BY <1>1, <1>5, OneMoves
  <1>8. /\ \A u \in Threads : u # t => th[u].new # 0 /\ (f # NONE => th[u].new # f)
        /\ \A s \in Sockets : sock[s] # 0 /\ (f # NONE => sock[s] # f)
        /\ pmsg_fd > 0 => pmsg_fd # f
    <2>1. \A u \in Threads : u # t => th[u].new # 0
      BY <1>2 DEF DescriptorInv, HoldersDiffer
    <2>2. \A s \in Sockets : sock[s] # 0
      BY <1>2 DEF DescriptorInv, HoldersDiffer
    <2>3. f # NONE => \A u \in Threads : th[u].new # f
      BY <1>3, NewOf DEF DescriptorInv, NewIsOpen, OpensItsKind
    <2>4. f # NONE => \A s \in Sockets : sock[s] # f
      BY <1>3 DEF DescriptorInv, PublishedIsOpen, NONE
    <2>5. pmsg_fd > 0 => pmsg_fd # f
      BY <1>3, NoneIsApart DEF DescriptorInv, PublishedIsOpen
    <2> QED BY <2>1, <2>2, <2>3, <2>4, <2>5
  <1>9. TypesAreKept'
    BY <1>1, <1>6, <1>7 DEF DescriptorInv, TypesAreKept
  <1>10. NewIsOpen'
    <2>1. ASSUME NEW u \in Threads PROVE OpensItsKind(th'[u], fds')
      <3>1. CASE u = t
        BY <1>3, <1>5, <1>6, <1>7, <3>1 DEF OpensItsKind
      <3>2. CASE u # t
        <4>1. /\ th'[u] = th[u] /\ OpensItsKind(th[u], fds) /\ th[u].new # 0
              /\ th[u].new # NONE => th[u].new # f /\ th[u].new \in Fds
          BY <1>7, <1>8, <3>2 DEF DescriptorInv, NewIsOpen, TypesAreKept, ThreadValues
        <4> QED BY <1>6, <4>1 DEF OpensItsKind
      <3> QED BY <3>1, <3>2
    <2> QED BY <2>1 DEF NewIsOpen
  <1>11. PublishedIsOpen'
    <2>1. \A s \in Sockets : sock[s] # NONE => fds'[sock[s]].kind = "sock"
      BY <1>6, <1>8 DEF DescriptorInv, PublishedIsOpen, TypesAreKept, NONE
    <2>2. ASSUME pmsg_fd > 0 PROVE fds'[pmsg_fd].kind = "pmsg"
      <3>1. pmsg_fd \in Fds /\ pmsg_fd # 0
        BY <2>2, NoneIsApart DEF DescriptorInv, TypesAreKept
      <3> QED BY <1>6, <1>8, <2>2, <3>1 DEF DescriptorInv, PublishedIsOpen
    <2> QED BY <1>1, <2>1, <2>2 DEF PublishedIsOpen, NONE
  <1>12. HoldersDiffer'
    <2>1. ASSUME NEW a \in Threads, NEW b \in Threads, a # b, th'[a].new # NONE
          PROVE  th'[a].new # th'[b].new
      BY <1>5, <1>7, <1>8, <2>1 DEF DescriptorInv, HoldersDiffer
    <2>2. ASSUME NEW a \in Threads, NEW s \in Sockets, sock[s] # NONE
          PROVE  sock[s] # th'[a].new
      BY <1>5, <1>7, <1>8, <2>2 DEF DescriptorInv, HoldersDiffer
    <2>3. ASSUME NEW a \in Threads, pmsg_fd > 0
          PROVE  pmsg_fd # th'[a].new
      BY <1>5, <1>7, <1>8, <2>3 DEF DescriptorInv, HoldersDiffer
    <2> QED BY <1>1, <2>1, <2>2, <2>3 DEF DescriptorInv, HoldersDiffer
  <1>13. OpenIsHeld'
    <2> SUFFICES ASSUME NEW g \in Fds, fds'[g].kind \in {"sock", "pmsg"} PROVE Holds(g)'
      BY DEF OpenIsHeld
    <2>1. CASE g = f
      BY <1>5, <1>7, <2>1 DEF Holds
    <2>2. CASE g # f
      <3>1. g # 0 /\ Holds(g)
        BY <1>6, <2>2 DEF DescriptorInv, OpenIsHeld
      <3> QED BY <1>1, <1>2, <1>7, <3>1 DEF Holds
    <2> QED BY <2>1, <2>2
  <1>14. SocketIsKnown'
    BY <1>1, <1>5, <1>7 DEF DescriptorInv, SocketIsKnown, HasSocket
  <1> QED BY <1>9, <1>10, <1>11, <1>12, <1>13, <1>14 DEF DescriptorInv

LEMMA ExchangePmsgKeeps ==
    ASSUME MaxFd \in Nat, DescriptorInv, NEW t \in Threads, ExchangePmsg(t)
    PROVE  DescriptorInv'
  <1> DEFINE f == th[t].new
             x == [th[t] EXCEPT !.pc = "pwrite", !.new = kUninitialized]
  <1>1. /\ UNCHANGED <<sock, logd>> /\ th[t].pc = "pcas" /\ th[t] \in ThreadValues
        /\ Moves(t, x)
    BY NewOf DEF ExchangePmsg, Moves, DescriptorInv, TypesAreKept
  <1>2. f \in Fds \cup {NONE} /\ (f # NONE => f # 0 /\ fds[f].kind = "pmsg")
    BY <1>1 DEF DescriptorInv, NewIsOpen, OpensItsKind, ThreadValues
  <1>3. x \in ThreadValues /\ x.new = NONE /\ x.pc = "pwrite" /\ x.pc \notin HasSocket
    BY <1>1 DEF ThreadValues, Steps, HasSocket, NONE
  <1> HIDE DEF x
  <1>4. CASE pmsg_fd # 0 /\ f # NONE
    <2>1. pmsg_fd' = pmsg_fd /\ fds' = [fds EXCEPT ![th[t].new] = Closed]
      BY <1>4, NoneIsApart DEF ExchangePmsg
    <2> QED BY <1>1, <1>3, <1>4, <2>1, CloseKeeps
  <1>5. CASE pmsg_fd # 0 /\ f = NONE
    <2>1. pmsg_fd' = pmsg_fd /\ fds' = fds
      BY <1>5, NoneIsApart DEF ExchangePmsg
    <2> QED BY <1>1, <1>3, <1>5, <2>1, OneThreadMoves
  <1>6. CASE pmsg_fd = 0
    <2>1. pmsg_fd' = f /\ fds' = fds
      BY <1>6 DEF ExchangePmsg
    <2>2. /\ th' \in [Threads -> ThreadValues] /\ th'[t] = x
          /\ \A u \in Threads : u # t => th'[u] = th[u]
      BY <1>1, <1>3, OneMoves
    <2>3. \A u \in Threads : u # t /\ f # NONE => th[u].new # f
      BY DEF DescriptorInv, HoldersDiffer
    <2>4. f > 0 => f # NONE
      BY NoneIsApart
    <2> HIDE DEF f
    <2>5. TypesAreKept'
      BY <1>1, <1>2, <2>1, <2>2 DEF DescriptorInv, TypesAreKept
    <2>6. NewIsOpen'
      BY <1>3, <2>1, <2>2 DEF DescriptorInv, NewIsOpen, OpensItsKind
    <2>7. PublishedIsOpen'
      BY <1>1, <1>2, <2>1, <2>4 DEF DescriptorInv, PublishedIsOpen
    <2>8. HoldersDiffer'
      <3>1. ASSUME NEW a \in Threads, NEW b \in Threads, a # b, th'[a].new # NONE
            PROVE  th'[a].new # th'[b].new
        BY <1>3, <2>2, <3>1 DEF DescriptorInv, HoldersDiffer
      <3>2. ASSUME NEW a \in Threads, NEW s \in Sockets, sock[s] # NONE
            PROVE  sock[s] # th'[a].new
        BY <1>3, <2>2, <3>2 DEF DescriptorInv, HoldersDiffer
      <3>3. ASSUME NEW a \in Threads, f > 0
            PROVE  f # th'[a].new
        BY <1>3, <2>2, <2>3, <2>4, <3>3
      <3> QED BY <1>1, <2>1, <3>1, <3>2, <3>3 DEF DescriptorInv, HoldersDiffer
    <2>9. OpenIsHeld'
      <3> SUFFICES ASSUME NEW g \in Fds, fds'[g].kind \in {"sock", "pmsg"} PROVE Holds(g)'
        BY DEF OpenIsHeld
      <3>1. Holds(g) /\ g # NONE
        BY <2>1, NoneIsApart DEF DescriptorInv, OpenIsHeld
      <3>2. CASE g = f
        BY <1>2, <2>1, <3>1, <3>2 DEF Holds
      <3>3. CASE g # f
        BY <1>1, <1>6, <2>2, <3>1, <3>3 DEF Holds, f
      <3> QED BY <3>2, <3>3
    <2>10. SocketIsKnown'
      BY <1>1, <1>3, <2>2 DEF DescriptorInv, SocketIsKnown
    <2> QED BY <2>5, <2>6, <2>7, <2>8, <2>9, <2>10 DEF DescriptorInv
  <1> QED BY <1>4, <1>5, <1>6

\* __android_log_close() finds no thread in the middle of a write.
LEMMA CloseAllKeeps ==
    ASSUME MaxFd \in Nat, DescriptorInv, Close
    PROVE  DescriptorInv'
  <1>1. /\ UNCHANGED <<th, logd>> /\ \A t \in Threads : th[t].pc = "idle" /\ th[t].new = NONE
        /\ sock' = [s \in Sockets |-> NONE] /\ pmsg_fd' = 0
    BY NewOf DEF Close, NONE
  <1>2. /\ fds' \in [Fds -> [kind : {"closed", "stdin", "sock", "pmsg"}, peer : Nat]]
        /\ \A g \in Fds : \/ fds'[g].kind = "closed"
                          \/ fds'[g] = fds[g] /\ (\A s \in Sockets : sock[s] # g)
                              /\ (pmsg_fd = g => g = 0)
    <2>1. Range(sock) = {sock[s] : s \in Sockets}
      BY DEF Range, DescriptorInv, TypesAreKept
    <2>2. fds' = [f \in Fds |-> IF f \in Range(sock) \cup ({pmsg_fd} \ {0}) THEN Closed ELSE fds[f]]
      BY DEF Close
    <2>3. Closed \in [kind : {"closed", "stdin", "sock", "pmsg"}, peer : Nat] /\ Closed.kind = "closed"
      BY DEF Closed
    <2>4. ASSUME NEW g \in Fds
          PROVE  /\ fds'[g] \in [kind : {"closed", "stdin", "sock", "pmsg"}, peer : Nat]
                 /\ \/ fds'[g].kind = "closed"
                    \/ fds'[g] = fds[g] /\ (\A s \in Sockets : sock[s] # g)
                          /\ (pmsg_fd = g => g = 0)
      <3>1. CASE g \in Range(sock) \cup ({pmsg_fd} \ {0})
        BY <2>2, <2>3, <3>1
      <3>2. CASE g \notin Range(sock) \cup ({pmsg_fd} \ {0})
        <4>1. fds'[g] = fds[g]
          BY <2>2, <3>2
        <4> QED BY <2>1, <3>2, <4>1 DEF DescriptorInv, TypesAreKept
      <3> QED BY <3>1, <3>2
    <2> QED BY <2>2, <2>4
  <1>3. \A g \in Fds : fds'[g].kind \notin {"sock", "pmsg"}
    BY <1>1, <1>2, NoneIsApart DEF DescriptorInv, OpenIsHeld, Holds
  <1>4. TypesAreKept'
    BY <1>1, <1>2, NoneIsApart DEF DescriptorInv, TypesAreKept
  <1>5. NewIsOpen' /\ SocketIsKnown'
    BY <1>1 DEF NewIsOpen, OpensItsKind, SocketIsKnown, HasSocket
  <1>6. PublishedIsOpen'
    BY <1>1 DEF PublishedIsOpen, NONE
  <1>7. HoldersDiffer'
    BY <1>1 DEF HoldersDiffer, Sockets
  <1>8. OpenIsHeld'
    BY <1>3 DEF OpenIsHeld
  <1> QED BY <1>4, <1>5, <1>6, <1>7, <1>8 DEF DescriptorInv

LEMMA InitDescriptors ==
    ASSUME WriterConstants, Init
    PROVE  DescriptorInv
  <1>1. MaxFd \in Nat /\ Messages # {}
    BY DEF WriterConstants
  <1>2. /\ sock = [s \in Sockets |-> NONE] /\ pmsg_fd = 0 /\ th = [t \in Threads |-> Idle]
        /\ logd = [up |-> FALSE, incarnation |-> 0]
    BY DEF Init, NONE
  <1>3. Idle \in ThreadValues /\ Idle.pc = "idle" /\ Idle.new = NONE
    BY <1>1 DEF Idle, ThreadValues, Steps, NONE
  <1>4. /\ fds \in [Fds -> [kind : {"closed", "stdin", "sock", "pmsg"}, peer : Nat]]
        /\ \A f \in Fds : fds[f].kind \in {"closed", "stdin"}
    <2>1. PICK stdin \in {"closed", "stdin"} :
            fds = [f \in Fds |-> IF f = 0 THEN [Closed EXCEPT !.kind = stdin] ELSE Closed]
      BY DEF Init
    <2> QED BY <2>1 DEF Closed
  <1>5. TypesAreKept
    BY <1>1, <1>2, <1>3, <1>4, NoneIsApart DEF TypesAreKept
  <1> HIDE DEF Idle
  <1>6. NewIsOpen /\ SocketIsKnown
    BY <1>2, <1>3 DEF NewIsOpen, OpensItsKind, SocketIsKnown, HasSocket
  <1>7. PublishedIsOpen
    BY <1>2 DEF PublishedIsOpen, NONE
  <1>8. HoldersDiffer
    BY <1>2, <1>3 DEF HoldersDiffer, Sockets
  <1>9. OpenIsHeld
    BY <1>4 DEF OpenIsHeld
  <1> QED BY <1>5, <1>6, <1>7, <1>8, <1>9 DEF DescriptorInv

LEMMA NextDescriptors ==
    ASSUME WriterConstants, DescriptorInv, writes \in Nat, dropped \in Nat, [Next]_vars
    PROVE  DescriptorInv'
  <1>1. MaxFd \in Nat
    BY DEF WriterConstants
  <1>2. ASSUME NEW t \in Threads, Step(t) PROVE DescriptorInv'
    BY <1>1, <1>2, WriteKeeps, GetSocketKeeps, ExchangeSocketKeeps, TakeDroppedKeeps,
       ReportDroppedKeeps, PutBackDroppedKeeps, WriteVKeeps, ReconnectKeeps, CountDroppedKeeps,
       GetPmsgFdKeeps, ReopenPmsgKeeps, ExchangePmsgKeeps, PmsgWriteKeeps DEF Step
  <1>3. CASE UNCHANGED vars
    <2>1. UNCHANGED <<sock, pmsg_fd, fds, logd, th>>
      BY <1>3 DEF vars, kernel
    <2> QED BY <2>1, ThreadMoves DEF DescriptorInv, TypesAreKept
  <1> QED BY <1>1, <1>2, <1>3, CloseAllKeeps, LogdKeeps DEF Next

-----------------------------------------------------------------------------
(***************************************************************************)
(* Causes: a message is refused only if logd was down, full, or there was   *)
(* no descriptor.                                                           *)
(***************************************************************************)

\* Sockets that are published stay, with their connection.
SocketsStay ==
    \A s \in Sockets : sock[s] # NONE => sock'[s] = sock[s] /\ fds'[sock[s]] = fds[sock[s]]

LEMMA SocketsUntouched ==
    ASSUME UNCHANGED <<sock, fds>>
    PROVE  SocketsStay
  BY DEF SocketsStay

\* Opening and closing other descriptors
LEMMA OthersTouched ==
    ASSUME DescriptorInv, sock' = sock, DOMAIN fds' = Fds,
           \A f \in Fds : fds'[f] = fds[f] \/ fds[f].kind # "sock" \/ \A s \in Sockets : sock[s] # f
    PROVE  SocketsStay
  <1>1. \A s \in Sockets : sock[s] # NONE => sock[s] \in Fds /\ fds[sock[s]].kind = "sock"
    BY DEF DescriptorInv, TypesAreKept, PublishedIsOpen, NONE
  <1> QED BY <1>1 DEF SocketsStay

LEMMA GetSocketStay ==
    ASSUME MaxFd \in Nat, DescriptorInv, NEW t \in Threads, GetSocket(t) \/ GetPmsgFd(t)
    PROVE  SocketsStay
  <1>1. sock' = sock /\ (fds' = fds \/ (Free # {} /\ \E e : fds' = [fds EXCEPT ![Min(Free)] = e]))
    BY DEF GetSocket, GetPmsgFd
  <1>2. CASE fds' = fds
    BY <1>1, <1>2, SocketsUntouched
  <1>3. ASSUME Free # {}, NEW e, fds' = [fds EXCEPT ![Min(Free)] = e] PROVE SocketsStay
    <2>1. Min(Free) \in Fds /\ fds[Min(Free)].kind = "closed"
      BY <1>3, FirstFree
    <2>2. DOMAIN fds' = Fds /\ \A f \in Fds : f # Min(Free) => fds'[f] = fds[f]
      BY <1>3 DEF DescriptorInv, TypesAreKept
    <2> QED BY <1>1, <2>1, <2>2, OthersTouched
  <1> QED BY <1>1, <1>2, <1>3

LEMMA ExchangeSocketStay ==
    ASSUME MaxFd \in Nat, DescriptorInv, NEW t \in Threads, ExchangeSocket(t)
    PROVE  SocketsStay
  <1> DEFINE s == TheSocket(th[t].msg)
  <1>1. th[t].pc = "cas" /\ s \in Sockets
    BY SocketOfMessage DEF ExchangeSocket
  <1>2. th[t].new # NONE /\ \A r \in Sockets : sock[r] # th[t].new
    BY <1>1 DEF DescriptorInv, NewIsOpen, OpensItsKind, HoldersDiffer
  <1>3. CASE sock[s] = NONE
    <2>1. sock' = [sock EXCEPT ![s] = th[t].new] /\ fds' = fds
      BY <1>3 DEF ExchangeSocket, NONE
    <2> HIDE DEF s
    <2> QED BY <1>1, <1>3, <2>1 DEF SocketsStay, DescriptorInv, TypesAreKept
  <1>4. CASE sock[s] # NONE
    <2>1. sock' = sock /\ fds' = [fds EXCEPT ![th[t].new] = Closed]
      BY <1>4 DEF ExchangeSocket, CloseLoser, NONE
    <2>2. DOMAIN fds' = Fds /\ \A f \in Fds : f # th[t].new => fds'[f] = fds[f]
      BY <2>1 DEF DescriptorInv, TypesAreKept
    <2> QED BY <1>2, <2>1, <2>2, OthersTouched
  <1> QED BY <1>3, <1>4

LEMMA ReopenPmsgStay ==
    ASSUME MaxFd \in Nat, DescriptorInv, NEW t \in Threads, ReopenPmsg(t)
    PROVE  SocketsStay
  <1> DEFINE f == IF Free = {} THEN kUninitialized ELSE Min(Free)
  <1>1. /\ sock' = sock /\ th[t].pc = "reopen"
        /\ fds' = [g \in Fds |-> IF g = 0 THEN Closed
                                 ELSE IF g = f THEN [kind |-> "pmsg", peer |-> 0] ELSE fds[g]]
    BY DEF ReopenPmsg
  <1>2. fds[0].kind = "pmsg"
    BY <1>1 DEF DescriptorInv, NewIsOpen, OpensItsKind
  <1>3. f \in Fds => fds[f].kind = "closed"
    BY FirstFree, NoneIsApart DEF NONE
  <1> HIDE DEF f
  <1>4. DOMAIN fds' = Fds /\ \A g \in Fds : g # 0 /\ g # f => fds'[g] = fds[g]
    BY <1>1
  <1> QED BY <1>1, <1>2, <1>3, <1>4, OthersTouched

LEMMA ExchangePmsgStay ==
    ASSUME MaxFd \in Nat, DescriptorInv, NEW t \in Threads, ExchangePmsg(t)
    PROVE  SocketsStay
  <1>1. sock' = sock /\ th[t].pc = "pcas"
    BY DEF ExchangePmsg
  <1>2. CASE fds' = fds
    BY <1>1, <1>2, SocketsUntouched
  <1>3. CASE th[t].new # NONE /\ fds' = [fds EXCEPT ![th[t].new] = Closed]
    <2>1. DOMAIN fds' = Fds /\ \A f \in Fds : f # th[t].new => fds'[f] = fds[f]
      BY <1>3 DEF DescriptorInv, TypesAreKept
    <2>2. \A r \in Sockets : sock[r] # th[t].new
      BY <1>3 DEF DescriptorInv, HoldersDiffer
    <2> QED BY <1>1, <2>1, <2>2, OthersTouched
  <1> QED BY <1>2, <1>3, NoneIsApart DEF ExchangePmsg

\* The other threads are as they were, and this one has moved on with its excuse.
Advances(t, pc) ==
    /\ th'[t] \in ThreadValues /\ th'[t].msg = th[t].msg /\ th'[t].n = th[t].n
    /\ th[t].pc # "idle" /\ th'[t].pc = pc /\ (th[t].excused => th'[t].excused)
    /\ \A u \in Threads : u # t => th'[u] = th[u]

LEMMA CauseStays ==
    ASSUME DescriptorInv, CauseInv, SocketsStay, logd' = logd, NEW t \in Threads, NEW pc,
           Advances(t, pc), pc # "rewrite", pc = "count" => th'[t].excused
    PROVE  CauseInv'
  <1> SUFFICES ASSUME NEW u \in Threads PROVE Excusable(th[u])'
    BY DEF CauseInv
  <1>1. CASE u = t
    BY <1>1 DEF CauseInv, Excusable, Advances
  <1>2. CASE u # t
    <2>1. th'[u] = th[u] /\ Excusable(th[u])
      BY <1>2 DEF CauseInv, Advances
    <2>2. CASE th[u].pc # "rewrite"
      BY <2>1, <2>2 DEF Excusable
    <2>3. CASE th[u].pc = "rewrite"
      <3> DEFINE s == TheSocket(th[u].msg)
      <3>1. s \in Sockets /\ sock[s] # NONE
        BY <2>3, SocketOfMessage, SocketOf DEF HasSocket
      <3> HIDE DEF s
      <3>2. Connected(s) => logd'.up /\ fds'[sock'[s]].peer = logd'.incarnation
        BY <3>1 DEF Connected, SocketsStay
      <3>3. TheSocket(th'[u].msg) = s
        BY <2>1 DEF s
      <3>4. Connected(s) => Connected(TheSocket(th[u].msg))'
        BY <3>2, <3>3 DEF Connected
      <3> QED BY <2>1, <2>3, <3>4 DEF Excusable, s
    <2> QED BY <2>2, <2>3
  <1> QED BY <1>1, <1>2

LEMMA AdvancesPc ==
    ASSUME DescriptorInv, DescriptorInv', NEW t \in Threads, NEW pc, th[t].pc # "idle",
           th' = [th EXCEPT ![t].pc = pc]
    PROVE  Advances(t, pc) /\ th'[t].snapshot = th[t].snapshot
  BY DEF Advances, DescriptorInv, TypesAreKept, ThreadValues

LEMMA AdvancesExcused ==
    ASSUME DescriptorInv, DescriptorInv', NEW t \in Threads, NEW pc, th[t].pc # "idle",
           th' = [th EXCEPT ![t].pc = pc, ![t].excused = TRUE]
    PROVE  Advances(t, pc) /\ th'[t].snapshot = th[t].snapshot
  BY DEF Advances, DescriptorInv, TypesAreKept, ThreadValues

LEMMA AdvancesNew ==
    ASSUME DescriptorInv, DescriptorInv', NEW t \in Threads, NEW pc, NEW new, th[t].pc # "idle",
           \/ th' = [th EXCEPT ![t].pc = pc, ![t].new = new]
           \/ th' = [th EXCEPT ![t].new = new, ![t].pc = pc]
    PROVE  Advances(t, pc) /\ th'[t].snapshot = th[t].snapshot
  BY DEF Advances, DescriptorInv, TypesAreKept, ThreadValues

LEMMA AdvancesSnapshot ==
    ASSUME DescriptorInv, DescriptorInv', NEW t \in Threads, NEW pc, NEW k, th[t].pc # "idle",
           th' = [th EXCEPT ![t].pc = pc, ![t].snapshot = k]
    PROVE  Advances(t, pc) /\ th'[t].snapshot = k
  BY DEF Advances, DescriptorInv, TypesAreKept, ThreadValues

\* What each step does to its thread, its count and the queue
LEMMA OpeningSteps ==
    ASSUME DescriptorInv, DescriptorInv', NEW t \in Threads,
           \/ GetSocket(t) \/ ExchangeSocket(t) \/ GetPmsgFd(t) \/ ReopenPmsg(t) \/ ExchangePmsg(t)
           \/ PmsgWrite(t)
    PROVE  /\ UNCHANGED <<logd, queue, logged, dropped, writes, failed, reported, forgotten>>
           /\ th'[t].snapshot = th[t].snapshot
           /\ \/ Advances(t, "exchange") /\ th[t].pc \in {"sock", "cas"}
              \/ Advances(t, "cas") /\ th[t].pc = "sock"
              \/ \E pc \in {"idle", "pmsg", "reopen", "pcas", "pwrite"} :
                    Advances(t, pc) /\ th[t].pc \in {"sock", "pmsg", "reopen", "pcas", "pwrite"}
  <1>1. CASE GetSocket(t)
    <2>1. /\ th[t].pc = "sock"
          /\ UNCHANGED <<logd, queue, logged, dropped, writes, failed, reported, forgotten>>
      BY <1>1 DEF GetSocket, history
    <2>2. \/ th' = [th EXCEPT ![t].pc = "exchange"]
          \/ th' = [th EXCEPT ![t].pc = "pmsg", ![t].excused = TRUE]
          \/ th' = [th EXCEPT ![t].pc = "cas", ![t].new = Min(Free)]
      BY <1>1, Zenon DEF GetSocket, Goto
    <2>3. CASE th' = [th EXCEPT ![t].pc = "exchange"]
      BY <2>1, <2>3, AdvancesPc
    <2>4. CASE th' = [th EXCEPT ![t].pc = "pmsg", ![t].excused = TRUE]
      BY <2>1, <2>4, AdvancesExcused
    <2>5. CASE th' = [th EXCEPT ![t].pc = "cas", ![t].new = Min(Free)]
      BY <2>1, <2>5, AdvancesNew
    <2> QED BY <2>2, <2>3, <2>4, <2>5
  <1>2. CASE ExchangeSocket(t)
    <2>1. /\ th[t].pc = "cas"
          /\ UNCHANGED <<logd, queue, logged, dropped, writes, failed, reported, forgotten>>
          /\ th' = [th EXCEPT ![t].pc = "exchange", ![t].new = kUninitialized]
      BY <1>2 DEF ExchangeSocket, history
    <2> QED BY <2>1, AdvancesNew
  <1>3. CASE GetPmsgFd(t)
    <2> DEFINE pc == IF Min(Free) = 0 THEN "reopen" ELSE "pcas"
    <2>1. /\ th[t].pc = "pmsg"
          /\ UNCHANGED <<logd, queue, logged, dropped, writes, failed, reported, forgotten>>
      BY <1>3 DEF GetPmsgFd, history
    <2>2. \/ th' = [th EXCEPT ![t].pc = "idle"]
          \/ th' = [th EXCEPT ![t].pc = "pwrite"]
          \/ th' = [th EXCEPT ![t].pc = "pcas"]
          \/ th' = [th EXCEPT ![t].new = Min(Free), ![t].pc = pc]
      BY <1>3, Zenon DEF GetPmsgFd, Goto
    <2>3. ASSUME NEW p \in {"idle", "pwrite", "pcas"}, th' = [th EXCEPT ![t].pc = p]
          PROVE  Advances(t, p) /\ th'[t].snapshot = th[t].snapshot
      BY <2>1, <2>3, AdvancesPc
    <2>4. CASE th' = [th EXCEPT ![t].new = Min(Free), ![t].pc = pc]
      <3>1. pc \in {"reopen", "pcas"}
        OBVIOUS
      <3> HIDE DEF pc
      <3>2. Advances(t, pc) /\ th'[t].snapshot = th[t].snapshot
        BY <2>1, <2>4, AdvancesNew
      <3> QED BY <2>1, <3>1, <3>2
    <2> HIDE DEF pc
    <2> QED BY <2>1, <2>2, <2>3, <2>4
  <1>4. CASE ReopenPmsg(t)
    <2> DEFINE f == IF Free = {} THEN kUninitialized ELSE Min(Free)
    <2>1. /\ th[t].pc = "reopen"
          /\ UNCHANGED <<logd, queue, logged, dropped, writes, failed, reported, forgotten>>
          /\ th' = [th EXCEPT ![t].new = f, ![t].pc = "pcas"]
      BY <1>4 DEF ReopenPmsg, history
    <2> HIDE DEF f
    <2> QED BY <2>1, AdvancesNew
  <1>5. CASE ExchangePmsg(t)
    <2>1. /\ th[t].pc = "pcas"
          /\ UNCHANGED <<logd, queue, logged, dropped, writes, failed, reported, forgotten>>
          /\ th' = [th EXCEPT ![t].pc = "pwrite", ![t].new = kUninitialized]
      BY <1>5 DEF ExchangePmsg, history
    <2> QED BY <2>1, AdvancesNew
  <1>6. CASE PmsgWrite(t)
    <2>1. /\ th[t].pc = "pwrite" /\ th' = [th EXCEPT ![t].pc = "idle"]
          /\ UNCHANGED <<logd, queue, logged, dropped, writes, failed, reported, forgotten>>
      BY <1>6 DEF PmsgWrite, Goto, history, kernel
    <2> QED BY <2>1, AdvancesPc
  <1> QED BY <1>1, <1>2, <1>3, <1>4, <1>5, <1>6

\* The steps that handle the count of dropped messages; k is what the thread then holds.
LEMMA CountingSteps ==
    ASSUME DescriptorInv, DescriptorInv', NEW t \in Threads,
           TakeDropped(t) \/ ReportDropped(t) \/ PutBackDropped(t) \/ CountDropped(t)
    PROVE  /\ UNCHANGED <<logd, logged, writes>>
           /\ \/ /\ Advances(t, "pmsg") /\ th[t].pc = "exchange" /\ th'[t].snapshot = th[t].snapshot
                 /\ UNCHANGED <<queue, dropped, failed, reported, forgotten>>
              \/ /\ Advances(t, "report") /\ th[t].pc = "exchange" /\ th'[t].snapshot = dropped
                 /\ dropped' = 0 /\ UNCHANGED <<queue, failed, reported, forgotten>>
              \/ /\ Advances(t, "write") /\ th[t].pc = "exchange" /\ th'[t].snapshot = th[t].snapshot
                 /\ dropped' = 0 /\ forgotten' = forgotten + dropped
                 /\ UNCHANGED <<queue, failed, reported>>
              \/ /\ Advances(t, "write") /\ th[t].pc = "report" /\ th'[t].snapshot = 0
                 /\ reported' = reported + th[t].snapshot /\ UNCHANGED <<dropped, failed, forgotten>>
                 /\ queue' = Append(queue, [from |-> t, n |-> th[t].n, id |-> "liblog",
                                            size |-> 0, full |-> 0])
              \/ /\ Advances(t, "putback") /\ th[t].pc = "report" /\ th'[t].snapshot = th[t].snapshot
                 /\ UNCHANGED <<queue, dropped, failed, reported, forgotten>>
              \/ /\ Advances(t, "write") /\ th[t].pc = "putback" /\ th'[t].snapshot = 0
                 /\ dropped' = dropped + th[t].snapshot
                 /\ UNCHANGED <<queue, failed, reported, forgotten>>
              \/ /\ Advances(t, "pmsg") /\ th[t].pc = "count" /\ th'[t].snapshot = th[t].snapshot
                 /\ dropped' = dropped + 1 /\ failed' = failed + 1
                 /\ UNCHANGED <<queue, reported, forgotten>>
  <1>1. CASE TakeDropped(t)
    <2>1. th[t].pc = "exchange" /\ UNCHANGED <<queue, logd, logged, writes, failed, reported>>
      BY <1>1 DEF TakeDropped, kernel
    <2>2. \/ th' = [th EXCEPT ![t].pc = "pmsg"] /\ UNCHANGED <<dropped, forgotten>>
          \/ /\ th' = [th EXCEPT ![t].pc = "report", ![t].snapshot = dropped]
             /\ dropped' = 0 /\ UNCHANGED forgotten
          \/ /\ th' = [th EXCEPT ![t].pc = "write"]
             /\ dropped' = 0 /\ forgotten' = forgotten + dropped
      BY <1>1, Zenon DEF TakeDropped, Goto
    <2>3. CASE th' = [th EXCEPT ![t].pc = "pmsg"] /\ UNCHANGED <<dropped, forgotten>>
      BY <2>1, <2>3, AdvancesPc
    <2>4. CASE /\ th' = [th EXCEPT ![t].pc = "report", ![t].snapshot = dropped]
               /\ dropped' = 0 /\ UNCHANGED forgotten
      BY <2>1, <2>4, AdvancesSnapshot
    <2>5. CASE /\ th' = [th EXCEPT ![t].pc = "write"]
               /\ dropped' = 0 /\ forgotten' = forgotten + dropped
      BY <2>1, <2>5, AdvancesPc
    <2> QED BY <2>2, <2>3, <2>4, <2>5
  <1>2. CASE ReportDropped(t)
    <2>1. th[t].pc = "report" /\ UNCHANGED <<logd, logged, writes, dropped, failed, forgotten>>
      BY <1>2 DEF ReportDropped
    <2>2. CASE Errno(TheSocket(th[t].msg)) = "ok"
      <3>1. /\ th' = [th EXCEPT ![t].pc = "write", ![t].snapshot = 0]
            /\ reported' = reported + th[t].snapshot
            /\ queue' = Append(queue, [from |-> t, n |-> th[t].n, id |-> "liblog",
                                       size |-> 0, full |-> 0])
        BY <1>2, <2>2 DEF ReportDropped
      <3> QED BY <2>1, <3>1, AdvancesSnapshot
    <2>3. CASE Errno(TheSocket(th[t].msg)) # "ok"
      <3>1. th' = [th EXCEPT ![t].pc = "putback"] /\ UNCHANGED <<queue, reported>>
        BY <1>2, <2>3 DEF ReportDropped, Goto
      <3> QED BY <2>1, <3>1, AdvancesPc
    <2> QED BY <2>2, <2>3
  <1>3. CASE PutBackDropped(t)
    <2>1. /\ th[t].pc = "putback" /\ UNCHANGED <<queue, logd, logged, writes, failed, reported, forgotten>>
          /\ dropped' = dropped + th[t].snapshot
          /\ th' = [th EXCEPT ![t].pc = "write", ![t].snapshot = 0]
      BY <1>3 DEF PutBackDropped, PutBack, kernel, history
    <2> QED BY <2>1, AdvancesSnapshot
  <1>4. CASE CountDropped(t)
    <2>1. /\ th[t].pc = "count" /\ UNCHANGED <<queue, logd, logged, writes, reported, forgotten>>
          /\ dropped' = dropped + 1 /\ failed' = failed + 1
          /\ th' = [th EXCEPT ![t].pc = "pmsg"]
      BY <1>4 DEF CountDropped, Goto, kernel
    <2> QED BY <2>1, AdvancesPc
  <1> QED BY <1>1, <1>2, <1>3, <1>4

LEMMA QuietStay ==
    ASSUME MaxFd \in Nat, DescriptorInv, NEW t \in Threads,
           \/ GetSocket(t) \/ ExchangeSocket(t) \/ TakeDropped(t) \/ ReportDropped(t)
           \/ PutBackDropped(t) \/ CountDropped(t) \/ GetPmsgFd(t) \/ ReopenPmsg(t)
           \/ ExchangePmsg(t) \/ PmsgWrite(t)
    PROVE  SocketsStay
  <1>1. CASE TakeDropped(t) \/ ReportDropped(t) \/ PutBackDropped(t) \/ CountDropped(t) \/ PmsgWrite(t)
    BY <1>1, SocketsUntouched DEF TakeDropped, ReportDropped, PutBackDropped, CountDropped,
       PmsgWrite, kernel
  <1> QED BY <1>1, GetSocketStay, ExchangeSocketStay, ReopenPmsgStay, ExchangePmsgStay

LEMMA WriteVCause ==
    ASSUME DescriptorInv, DescriptorInv', CauseInv, NEW t \in Threads, WriteV(t)
    PROVE  CauseInv'
  <1>1. /\ logd' = logd /\ UNCHANGED <<sock, fds>> /\ th[t].pc \in {"write", "rewrite"}
        /\ th \in [Threads -> ThreadValues] /\ th[t] \in ThreadValues /\ th'[t] \in ThreadValues
    BY DEF WriteV, DescriptorInv, TypesAreKept
  <1>2. CASE Sends(t) \/ TriesAgain(t)
    <2>1. Advances(t, "pmsg") \/ Advances(t, "reconnect")
      BY <1>1, <1>2, AdvancesPc DEF Sends, TriesAgain
    <2> QED BY <1>1, <2>1, CauseStays, SocketsUntouched
  <1>3. ASSUME NEW b, IsRefused(t, b) PROVE CauseInv'
    <2>1. Advances(t, "count") /\ th'[t].excused = b
      BY <1>1, <1>3 DEF Advances, IsRefused, ThreadValues
    <2>2. b
      BY <1>3 DEF IsRefused, CauseInv, Excusable
    <2> QED BY <1>1, <2>1, <2>2, CauseStays, SocketsUntouched
  <1> QED BY <1>2, <1>3, WriteVCases

\* Reconnect() connects to the logd that runs; if none does, the thread is excused.
LEMMA ReconnectCause ==
    ASSUME DescriptorInv, DescriptorInv', CauseInv, NEW t \in Threads, Reconnect(t)
    PROVE  CauseInv'
  <1> DEFINE f == sock[TheSocket(th[t].msg)]
  <1>1. /\ UNCHANGED <<sock, logd>> /\ th[t].pc = "reconnect" /\ th[t] \in ThreadValues
        /\ th \in [Threads -> ThreadValues] /\ th' = [th EXCEPT ![t].pc = "rewrite"]
        /\ fds' = [fds EXCEPT ![f].peer = IF logd.up THEN logd.incarnation ELSE @]
        /\ fds \in [Fds -> [kind : {"closed", "stdin", "sock", "pmsg"}, peer : Nat]]
    BY DEF Reconnect, Goto, DescriptorInv, TypesAreKept
  <1>2. f \in Fds
    BY <1>1, SocketOf DEF HasSocket
  <1> HIDE DEF f
  <1>3. \A g \in Fds : g # f => fds'[g] = fds[g]
    BY <1>1, <1>2
  <1>4. logd.up => fds'[f].peer = logd.incarnation
    BY <1>1, <1>2
  <1>5. ~logd.up => fds'[f].peer = fds[f].peer
    BY <1>1, <1>2
  <1>6. /\ th'[t].pc = "rewrite" /\ th'[t].msg = th[t].msg /\ th'[t].excused = th[t].excused
        /\ \A u \in Threads : u # t => th'[u] = th[u]
    BY <1>1 DEF ThreadValues
  <1> SUFFICES ASSUME NEW u \in Threads PROVE Excusable(th[u])'
    BY DEF CauseInv
  <1>7. CASE u = t
    <2>1. th[t].excused \/ logd.up
      BY <1>1 DEF CauseInv, Excusable
    <2>2. logd.up => Connected(TheSocket(th[t].msg))'
      BY <1>1, <1>4, <1>6 DEF Connected, f
    <2> QED BY <1>1, <1>6, <1>7, <2>1, <2>2 DEF Excusable
  <1>8. CASE u # t
    <2>1. th'[u] = th[u] /\ Excusable(th[u])
      BY <1>6, <1>8 DEF CauseInv
    <2>2. th[u].pc = "rewrite" /\ Connected(TheSocket(th[u].msg)) => Connected(TheSocket(th[u].msg))'
      <3> SUFFICES ASSUME th[u].pc = "rewrite", Connected(TheSocket(th[u].msg))
                   PROVE  Connected(TheSocket(th[u].msg))'
        OBVIOUS
      <3>1. sock[TheSocket(th[u].msg)] \in Fds
        BY SocketOf DEF HasSocket
      <3> QED BY <1>1, <1>3, <1>4, <2>1, <3>1 DEF Connected
    <2> QED BY <1>1, <2>1, <2>2 DEF Excusable
  <1> QED BY <1>7, <1>8

LEMMA WriteCause ==
    ASSUME DescriptorInv, DescriptorInv', CauseInv, NEW t \in Threads, NEW m \in Messages, Write(t, m)
    PROVE  CauseInv'
  <1> DEFINE x == [Idle EXCEPT !.msg = m, !.n = writes, !.excused = ~logd.up,
                     !.pc = IF text_error(m) \/ write_to_log_error(m) THEN "idle" ELSE "sock"]
  <1>1. th' = [th EXCEPT ![t] = x] /\ UNCHANGED <<sock, pmsg_fd, fds, logd>>
    BY DEF Write, kernel
  <1>2. x.pc \in {"idle", "sock"} /\ (~logd.up => x.excused)
    BY DEF Idle
  <1> HIDE DEF x
  <1>3. th'[t] = x /\ \A u \in Threads : u # t => th'[u] = th[u]
    BY <1>1 DEF DescriptorInv, TypesAreKept
  <1> SUFFICES ASSUME NEW u \in Threads PROVE Excusable(th[u])'
    BY DEF CauseInv
  <1>4. CASE u = t
    BY <1>1, <1>2, <1>3, <1>4 DEF Excusable
  <1>5. CASE u # t
    BY <1>1, <1>3, <1>5 DEF CauseInv, Excusable, Connected
  <1> QED BY <1>4, <1>5

LEMMA LogdCause ==
    ASSUME DescriptorInv, CauseInv, HandleData \/ LogdStart \/ LogdDie \/ Close \/ UNCHANGED vars
    PROVE  CauseInv'
  <1> SUFFICES ASSUME NEW u \in Threads PROVE Excusable(th[u])'
    BY DEF CauseInv
  <1>1. Excusable(th[u])
    BY DEF CauseInv
  <1>2. CASE HandleData \/ UNCHANGED vars
    BY <1>1, <1>2 DEF HandleData, vars, kernel, Excusable, Connected
  <1>3. CASE LogdStart
    <2>1. th' = th /\ logd'.up /\ ~logd.up
      BY <1>3 DEF LogdStart
    <2> QED BY <1>1, <2>1 DEF Excusable, Connected
  <1>4. CASE LogdDie
    <2>1. th' = [t \in Threads |-> [th[t] EXCEPT !.excused = TRUE]] /\ th[u] \in ThreadValues
      BY <1>4 DEF LogdDie, DescriptorInv, TypesAreKept
    <2>2. th'[u].excused
      BY <2>1 DEF ThreadValues
    <2> QED BY <2>2 DEF Excusable
  <1>5. CASE Close
    BY <1>5 DEF Close, Excusable
  <1> QED BY <1>2, <1>3, <1>4, <1>5

LEMMA NextCause ==
    ASSUME WriterConstants, DescriptorInv, DescriptorInv', CauseInv, [Next]_vars
    PROVE  CauseInv'
  <1>1. MaxFd \in Nat
    BY DEF WriterConstants
  <1>2. ASSUME NEW t \in Threads, Step(t) PROVE CauseInv'
    <2>1. CASE \/ GetSocket(t) \/ ExchangeSocket(t) \/ TakeDropped(t) \/ ReportDropped(t)
               \/ PutBackDropped(t) \/ CountDropped(t) \/ GetPmsgFd(t) \/ ReopenPmsg(t)
               \/ ExchangePmsg(t) \/ PmsgWrite(t)
      <3>1. PICK pc : Advances(t, pc) /\ pc \notin {"rewrite", "count"} /\ logd' = logd
        BY <2>1, OpeningSteps, CountingSteps
      <3>2. SocketsStay
        BY <1>1, <2>1, QuietStay
      <3> QED BY <3>1, <3>2, CauseStays
    <2> QED BY <1>2, <2>1, WriteCause, WriteVCause, ReconnectCause DEF Step
  <1> QED BY <1>2, LogdCause DEF Next

-----------------------------------------------------------------------------
(***************************************************************************)
(* Counts.  MapThenSumSet() adds up a set from any of its elements on; the  *)
(* order does not depend on what is added, so it is enough to follow it.    *)
(***************************************************************************)

\* g adds up the values v, from the elements ch on.
IsFold(g, D, ch, v) ==
    /\ g \in [SUBSET D -> Nat]
    /\ \A S \in SUBSET D : g[S] = IF S = {} THEN 0 ELSE v[S] + g[S \ {ch[S]}]

MayFold(D, ch, v) ==
    IsFiniteSet(D) /\ \A S \in SUBSET D : S # {} => ch[S] \in S /\ v[S] \in Nat

LEMMA FoldsExist ==
    ASSUME NEW D, NEW ch, NEW v, MayFold(D, ch, v)
    PROVE  \E g : IsFold(g, D, ch, v)
  <1> DEFINE Rule(g, S) == g[S] = IF S = {} THEN 0 ELSE v[S] + g[S \ {ch[S]}]
             UpTo(g, n) == \A S \in SUBSET D : Cardinality(S) <= n => Rule(g, S)
             T == {n \in Nat : \E g \in [SUBSET D -> Nat] : UpTo(g, n)}
  <1>1. ASSUME NEW S \in SUBSET D
        PROVE  /\ Cardinality(S) \in Nat /\ Cardinality(S) <= Cardinality(D)
               /\ S # {} => /\ S \ {ch[S]} \in SUBSET D /\ Cardinality(S) # 0
                            /\ Cardinality(S \ {ch[S]}) = Cardinality(S) - 1
    BY FS_Subset, FS_CardinalityType, FS_EmptySet, FS_RemoveElement DEF MayFold
  <1>2. 0 \in T
    <2> DEFINE g == [S \in SUBSET D |-> 0]
    <2>1. ASSUME NEW S \in SUBSET D, Cardinality(S) <= 0 PROVE Rule(g, S)
      <3>1. Cardinality(S) \in Nat /\ (S # {} => Cardinality(S) # 0)
        BY <1>1
      <3>2. S = {}
        BY <2>1, <3>1
      <3> QED BY <3>2
    <2>2. UpTo(g, 0) /\ g \in [SUBSET D -> Nat]
      BY <2>1
    <2> HIDE DEF UpTo, g
    <2> QED BY <2>2
  <1>3. ASSUME NEW n \in Nat, n \in T PROVE n + 1 \in T
    <2>1. PICK g \in [SUBSET D -> Nat] : UpTo(g, n)
      BY <1>3
    <2> DEFINE h == [S \in SUBSET D |-> IF S = {} THEN 0 ELSE v[S] + g[S \ {ch[S]}]]
    <2>2. \A S \in SUBSET D : Cardinality(S) <= n => h[S] = g[S]
      BY <2>1
    <2>3. ASSUME NEW S \in SUBSET D, Cardinality(S) <= n + 1 PROVE Rule(h, S)
      <3>1. CASE S = {}
        BY <3>1
      <3>2. CASE S # {}
        <4> DEFINE R == S \ {ch[S]}
        <4>1. R \in SUBSET D /\ Cardinality(R) <= n
          BY <1>1, <2>3, <3>2
        <4>2. h[R] = g[R]
          BY <2>2, <4>1
        <4>3. h[S] = v[S] + g[R]
          BY <3>2
        <4> QED BY <3>2, <4>2, <4>3
      <3> QED BY <3>1, <3>2
    <2>4. h \in [SUBSET D -> Nat]
      BY <2>1 DEF MayFold
    <2> HIDE DEF h
    <2>5. UpTo(h, n + 1)
      BY <2>3
    <2> HIDE DEF UpTo
    <2> QED BY <2>4, <2>5
  <1>4. Nat \subseteq T
    <2> HIDE DEF T
    <2> QED BY <1>2, <1>3, Induction
  <1>5. PICK g \in [SUBSET D -> Nat] : UpTo(g, Cardinality(D))
    BY <1>4, FS_CardinalityType DEF MayFold
  <1>6. \A S \in SUBSET D : Rule(g, S)
    BY <1>1, <1>5
  <1>7. IsFold(g, D, ch, v)
    BY <1>6 DEF IsFold
  <1> QED BY <1>7

Pick(S) == CHOOSE t \in S : TRUE
Rest(S) == S \ {Pick(S)}

\* g adds up the snapshots of x over sets of threads.
AddsUp(g, x) ==
    g = [S \in SUBSET Threads |-> IF S = {} THEN 0 ELSE x[Pick(S)].snapshot + g[Rest(S)]]

Totals(x) == CHOOSE g : AddsUp(g, x)

Total == MapThenSumSet(LAMBDA t : th[t].snapshot, Threads)

LEMMA TotalIsOfThreads == Total = Totals(th)[Threads]
  BY DEF Total, MapThenSumSet, MapThenFoldSet, Totals, AddsUp, Pick, Rest

LEMMA RestIsSmaller ==
    ASSUME IsFiniteSet(Threads), NEW S \in SUBSET Threads, S # {}
    PROVE  /\ Pick(S) \in S /\ Pick(S) \in Threads /\ Rest(S) \in SUBSET Threads
           /\ Cardinality(S) \in Nat /\ Cardinality(S) # 0
           /\ Cardinality(Rest(S)) = Cardinality(S) - 1
  <1>1. Pick(S) \in S
    BY DEF Pick
  <1>2. IsFiniteSet(S)
    BY FS_Subset
  <1>3. Cardinality(S) \in Nat /\ Cardinality(S) # 0
    BY <1>2, FS_CardinalityType, FS_EmptySet
  <1>4. Cardinality(Rest(S)) = Cardinality(S) - 1
    BY <1>1, <1>2, FS_RemoveElement DEF Rest
  <1> QED BY <1>1, <1>3, <1>4 DEF Rest

LEMMA TotalsRule ==
    ASSUME IsFiniteSet(Threads), NEW x, \A u \in Threads : x[u].snapshot \in Nat
    PROVE  /\ Totals(x) \in [SUBSET Threads -> Nat]
           /\ \A S \in SUBSET Threads :
                 Totals(x)[S] = IF S = {} THEN 0 ELSE x[Pick(S)].snapshot + Totals(x)[Rest(S)]
  <1> DEFINE v  == [S \in SUBSET Threads |-> x[Pick(S)].snapshot]
             ch == [S \in SUBSET Threads |-> Pick(S)]
  <1>1. MayFold(Threads, ch, v)
    BY RestIsSmaller DEF MayFold
  <1>2. PICK g : IsFold(g, Threads, ch, v)
    <2> HIDE DEF v, ch
    <2> QED BY <1>1, FoldsExist
  <1>3. AddsUp(g, x)
    BY <1>2 DEF AddsUp, Rest, IsFold
  <1>4. AddsUp(Totals(x), x)
    BY <1>3 DEF Totals
  <1> DEFINE h == Totals(x)
             T == {n \in Nat : \A S \in SUBSET Threads : Cardinality(S) = n => h[S] \in Nat}
  <1> HIDE DEF h
  <1>5. h = [S \in SUBSET Threads |-> IF S = {} THEN 0 ELSE x[Pick(S)].snapshot + h[Rest(S)]]
    BY <1>4 DEF AddsUp, h
  <1>11. \A S \in SUBSET Threads : h[S] = IF S = {} THEN 0 ELSE x[Pick(S)].snapshot + h[Rest(S)]
    BY <1>5, Zenon
  <1>6. 0 \in T
    <2>1. ASSUME NEW S \in SUBSET Threads, Cardinality(S) = 0 PROVE h[S] \in Nat
      <3>1. S = {}
        BY <2>1, RestIsSmaller
      <3> QED BY <1>11, <3>1
    <2> QED BY <2>1
  <1>7. ASSUME NEW n \in Nat, n \in T PROVE n + 1 \in T
    <2> SUFFICES ASSUME NEW S \in SUBSET Threads, Cardinality(S) = n + 1 PROVE h[S] \in Nat
      OBVIOUS
    <2>1. CASE S = {}
      BY <1>11, <2>1
    <2>2. CASE S # {}
      <3>1. Pick(S) \in Threads /\ Rest(S) \in SUBSET Threads /\ Cardinality(Rest(S)) = n
        BY <2>2, RestIsSmaller
      <3>2. h[Rest(S)] \in Nat
        BY <1>7, <3>1
      <3>3. h[S] = x[Pick(S)].snapshot + h[Rest(S)]
        BY <1>11, <2>2
      <3> QED BY <3>1, <3>2, <3>3
    <2> QED BY <2>1, <2>2
  <1>8. Nat \subseteq T
    <2> HIDE DEF T
    <2> QED BY <1>6, <1>7, Induction
  <1>9. \A S \in SUBSET Threads : h[S] \in Nat
    BY <1>8, FS_Subset, FS_CardinalityType
  <1>10. h \in [SUBSET Threads -> Nat]
    <2>1. h = [S \in SUBSET Threads |-> h[S]]
      BY <1>5, Zenon
    <2> QED BY <1>9, <2>1
  <1> QED BY <1>11, <1>10 DEF h

\* If only thread t has another snapshot, the total differs by as much.
LEMMA TotalsDiffer ==
    ASSUME IsFiniteSet(Threads), NEW x, NEW y, NEW t \in Threads,
           \A u \in Threads : x[u].snapshot \in Nat /\ y[u].snapshot \in Nat,
           \A u \in Threads : u # t => y[u].snapshot = x[u].snapshot
    PROVE  /\ Totals(x)[Threads] \in Nat /\ Totals(y)[Threads] \in Nat
           /\ Totals(y)[Threads] + x[t].snapshot = Totals(x)[Threads] + y[t].snapshot
  <1> DEFINE Differ(S) ==
                /\ Totals(x)[S] \in Nat /\ Totals(y)[S] \in Nat
                /\ t \in S => Totals(y)[S] + x[t].snapshot = Totals(x)[S] + y[t].snapshot
                /\ t \notin S => Totals(y)[S] = Totals(x)[S]
             T == {n \in Nat : \A S \in SUBSET Threads : Cardinality(S) = n => Differ(S)}
  <1>1. 0 \in T
    <2>1. ASSUME NEW S \in SUBSET Threads, Cardinality(S) = 0 PROVE Differ(S)
      <3>1. S = {}
        BY <2>1, RestIsSmaller
      <3>2. Totals(x)[S] = 0 /\ Totals(y)[S] = 0
        BY <3>1, TotalsRule
      <3> QED BY <3>1, <3>2
    <2> HIDE DEF Differ
    <2> QED BY <2>1
  <1>2. ASSUME NEW n \in Nat, n \in T PROVE n + 1 \in T
    <2>1. ASSUME NEW S \in SUBSET Threads, Cardinality(S) = n + 1 PROVE Differ(S)
      <3> DEFINE p == Pick(S)
                 R == Rest(S)
      <3>1. S # {}
        BY <2>1, FS_EmptySet
      <3>2. p \in S /\ p \in Threads /\ R \in SUBSET Threads /\ Cardinality(R) = n /\ R = S \ {p}
        BY <2>1, <3>1, RestIsSmaller DEF Rest
      <3>3. Differ(R)
        <4> HIDE DEF Differ
        <4> QED BY <1>2, <3>2
      <3>4. /\ Totals(x)[S] = x[p].snapshot + Totals(x)[R]
            /\ Totals(y)[S] = y[p].snapshot + Totals(y)[R]
        BY <3>1, TotalsRule
      <3> HIDE DEF p, R
      <3>5. CASE p = t
        <4>1. t \notin R /\ t \in S
          BY <3>2, <3>5
        <4> QED BY <3>2, <3>3, <3>4, <3>5, <4>1
      <3>6. CASE p # t
        <4>1. (t \in R <=> t \in S) /\ x[p].snapshot = y[p].snapshot
          BY <3>2, <3>6
        <4> QED BY <3>2, <3>3, <3>4, <4>1
      <3> QED BY <3>5, <3>6
    <2> HIDE DEF Differ
    <2> QED BY <2>1
  <1>3. Nat \subseteq T
    <2> HIDE DEF T
    <2> QED BY <1>1, <1>2, Induction
  <1>4. Differ(Threads)
    <2>1. Cardinality(Threads) \in Nat /\ Threads \in SUBSET Threads
      BY FS_CardinalityType
    <2> HIDE DEF Differ
    <2> QED BY <1>3, <2>1
  <1> QED BY <1>4

\* A step in which at most the snapshot of t changes
LEMMA TotalChanges ==
    ASSUME WriterConstants, DescriptorInv, DescriptorInv', NEW t \in Threads,
           \A u \in Threads : u # t => th'[u].snapshot = th[u].snapshot
    PROVE  /\ Total \in Nat /\ Total' \in Nat /\ th[t].snapshot \in Nat /\ th'[t].snapshot \in Nat
           /\ Total' + th[t].snapshot = Total + th'[t].snapshot
  <1>1. \A u \in Threads : th[u].snapshot \in Nat /\ th'[u].snapshot \in Nat
    BY DEF DescriptorInv, TypesAreKept, ThreadValues
  <1>2. IsFiniteSet(Threads)
    BY DEF WriterConstants
  <1>3. Total = Totals(th)[Threads] /\ Total' = Totals(th')[Threads]
    <2>1. Total = Totals(th)[Threads]
      BY TotalIsOfThreads
    <2>2. Total' = Totals(th')[Threads]
      BY DEF Total, MapThenSumSet, MapThenFoldSet, Totals, AddsUp, Pick, Rest
    <2> QED BY <2>1, <2>2
  <1> QED BY <1>1, <1>2, <1>3, TotalsDiffer

LEMMA AccountedIsTotal ==
    DroppedIsAccounted <=> failed = dropped + reported + forgotten + Total
  BY DEF DroppedIsAccounted, Total

LEMMA CountFrame ==
    ASSUME WriterConstants, DescriptorInv, DescriptorInv', CountInv,
           \A u \in Threads : th'[u].snapshot = th[u].snapshot,
           \A u \in Threads : th[u].snapshot # 0 => th'[u].pc \in {"report", "putback"},
           UNCHANGED <<dropped, failed, reported, forgotten>>
    PROVE  CountInv'
  <1>1. Total' = Total
    <2>1. CASE Threads = {}
      <3>1. IsFiniteSet(Threads) /\ {} \in SUBSET Threads
        BY DEF WriterConstants
      <3>2. Totals(th)[{}] = 0 /\ Totals(th')[{}] = 0
        <4>1. \A u \in Threads : th[u].snapshot \in Nat /\ th'[u].snapshot \in Nat
          BY <2>1
        <4> QED BY <3>1, <4>1, TotalsRule
      <3>3. Total = Totals(th)[Threads]
        BY TotalIsOfThreads
      <3>4. Total' = Totals(th')[Threads]
        BY DEF Total, MapThenSumSet, MapThenFoldSet, Totals, AddsUp, Pick, Rest
      <3> QED BY <2>1, <3>2, <3>3, <3>4
    <2>2. ASSUME NEW t \in Threads PROVE Total' = Total
      <3>1. /\ Total \in Nat /\ Total' \in Nat /\ th[t].snapshot \in Nat
            /\ Total' + th[t].snapshot = Total + th'[t].snapshot
        BY TotalChanges
      <3> QED BY <3>1
    <2> QED BY <2>1, <2>2
  <1>2. DroppedIsAccounted <=> failed = dropped + reported + forgotten + Total
    BY AccountedIsTotal
  <1>3. DroppedIsAccounted' <=> failed' = dropped' + reported' + forgotten' + Total'
    BY DEF DroppedIsAccounted, Total
  <1> HIDE DEF DroppedIsAccounted, Total
  <1>4. DroppedIsAccounted'
    BY <1>1, <1>2, <1>3 DEF CountInv
  <1>5. SnapshotIsHeld'
    BY DEF SnapshotIsHeld
  <1> QED BY <1>4, <1>5 DEF CountInv

LEMMA CountStep ==
    ASSUME WriterConstants, DescriptorInv, DescriptorInv', CountInv, NEW t \in Threads,
           TakeDropped(t) \/ ReportDropped(t) \/ PutBackDropped(t) \/ CountDropped(t)
    PROVE  CountInv'
  <1> DEFINE old == th[t].snapshot
             new == th'[t].snapshot
  <1>1. PICK pc : Advances(t, pc)
    BY CountingSteps
  <1>2. /\ \A u \in Threads : u # t => th'[u] = th[u]
        /\ th'[t].pc = pc
    BY <1>1 DEF Advances
  <1>3. /\ Total \in Nat /\ Total' \in Nat /\ old \in Nat /\ new \in Nat
        /\ Total' + old = Total + new
    BY <1>2, TotalChanges
  <1>4. DroppedIsAccounted <=> failed = dropped + reported + forgotten + Total
    BY AccountedIsTotal
  <1>5. DroppedIsAccounted' <=> failed' = dropped' + reported' + forgotten' + Total'
    BY DEF DroppedIsAccounted, Total
  <1> HIDE DEF DroppedIsAccounted, Total
  <1>6. /\ dropped \in Nat /\ failed \in Nat /\ reported \in Nat /\ forgotten \in Nat
        /\ failed = dropped + reported + forgotten + Total
        /\ old # 0 => th[t].pc \in {"report", "putback"}
    BY <1>4 DEF CountInv, SnapshotIsHeld
  <1>7. /\ new # 0 => pc \in {"report", "putback"}
        /\ \/ new = old /\ UNCHANGED <<dropped, failed, reported, forgotten>>
           \/ old = 0 /\ new = dropped /\ dropped' = 0 /\ UNCHANGED <<failed, reported, forgotten>>
           \/ /\ new = old /\ dropped' = 0 /\ forgotten' = forgotten + dropped
              /\ UNCHANGED <<failed, reported>>
           \/ new = 0 /\ reported' = reported + old /\ UNCHANGED <<dropped, failed, forgotten>>
           \/ new = 0 /\ dropped' = dropped + old /\ UNCHANGED <<failed, reported, forgotten>>
           \/ /\ new = old /\ dropped' = dropped + 1 /\ failed' = failed + 1
              /\ UNCHANGED <<reported, forgotten>>
    <2>1. \A p : Advances(t, p) => p = pc
      BY <1>2 DEF Advances
    <2> HIDE DEF new, old
    <2>2. old = th[t].snapshot /\ new = th'[t].snapshot
      BY DEF old, new
    <2> QED BY <1>6, <2>1, <2>2, CountingSteps
  <1> HIDE DEF new, old
  <1>8. /\ dropped' \in Nat /\ failed' \in Nat /\ reported' \in Nat /\ forgotten' \in Nat
        /\ failed' = dropped' + reported' + forgotten' + Total'
    <2>1. PICK a \in Nat, b \in Nat, k \in Nat, l \in Nat :
             a = Total /\ b = Total' /\ k = old /\ l = new /\ b + k = a + l
      BY <1>3
    <2>2. dropped' \in Nat /\ failed' \in Nat /\ reported' \in Nat /\ forgotten' \in Nat
      BY <1>6, <1>7, <2>1
    <2>3. PICK d \in Nat, f \in Nat, r \in Nat, g \in Nat :
             d = dropped /\ f = failed /\ r = reported /\ g = forgotten
      BY <1>6
    <2>4. PICK dd \in Nat, ff \in Nat, rr \in Nat, gg \in Nat :
             dd = dropped' /\ ff = failed' /\ rr = reported' /\ gg = forgotten'
      BY <2>2
    <2>5. f = d + r + g + a
      BY <1>6, <2>1, <2>3
    \* Taking, forgetting, reporting and putting back move a count to another place.
    <2>6. \/ l = k /\ dd = d /\ ff = f /\ rr = r /\ gg = g
          \/ k = 0 /\ l = d /\ dd = 0 /\ ff = f /\ rr = r /\ gg = g
          \/ l = k /\ dd = 0 /\ ff = f /\ rr = r /\ gg = g + d
          \/ l = 0 /\ dd = d /\ ff = f /\ rr = r + k /\ gg = g
          \/ l = 0 /\ dd = d + k /\ ff = f /\ rr = r /\ gg = g
          \/ l = k /\ dd = d + 1 /\ ff = f + 1 /\ rr = r /\ gg = g
      BY <1>7, <2>1, <2>3, <2>4
    <2>7. b + k = a + l
      BY <2>1
    <2>8. ff = dd + rr + gg + b
      BY <2>5, <2>6, <2>7
    <2> QED BY <2>1, <2>2, <2>4, <2>8
  <1>9. SnapshotIsHeld'
    BY <1>2, <1>7 DEF SnapshotIsHeld, CountInv, new
  <1> QED BY <1>5, <1>8, <1>9 DEF CountInv

LEMMA NextCount ==
    ASSUME WriterConstants, DescriptorInv, DescriptorInv', CountInv, [Next]_vars
    PROVE  CountInv'
  <1>1. \A u \in Threads : th[u] \in ThreadValues
                         /\ (th[u].snapshot # 0 => th[u].pc \in {"report", "putback"})
    BY DEF CountInv, SnapshotIsHeld, DescriptorInv, TypesAreKept
  <1>2. ASSUME NEW t \in Threads, Step(t) PROVE CountInv'
    <2>1. ASSUME NEW m \in Messages, Write(t, m) PROVE CountInv'
      <3> DEFINE x == [Idle EXCEPT !.msg = m, !.n = writes, !.excused = ~logd.up,
                     !.pc = IF text_error(m) \/ write_to_log_error(m) THEN "idle" ELSE "sock"]
      <3>1. /\ th' = [th EXCEPT ![t] = x] /\ th[t].pc = "idle"
            /\ UNCHANGED <<dropped, failed, reported, forgotten>>
        BY <2>1 DEF Write, kernel, history
      <3>2. x.snapshot = 0
        BY DEF Idle
      <3> HIDE DEF x
      <3>3. th'[t] = x /\ \A u \in Threads : u # t => th'[u] = th[u]
        BY <3>1 DEF DescriptorInv, TypesAreKept
      <3>4. th[t].snapshot = 0
        BY <1>1, <3>1
      <3> QED BY <1>1, <3>1, <3>2, <3>3, <3>4, CountFrame
    <2>2. CASE \/ GetSocket(t) \/ ExchangeSocket(t) \/ GetPmsgFd(t) \/ ReopenPmsg(t)
               \/ ExchangePmsg(t) \/ PmsgWrite(t)
      <3>1. /\ UNCHANGED <<dropped, failed, reported, forgotten>> /\ th'[t].snapshot = th[t].snapshot
            /\ \A u \in Threads : u # t => th'[u] = th[u]
            /\ th[t].pc \in {"sock", "cas", "pmsg", "reopen", "pcas", "pwrite"}
        BY <2>2, OpeningSteps DEF Advances
      <3> QED BY <1>1, <3>1, CountFrame
    <2>3. CASE WriteV(t)
      <3>1. /\ UNCHANGED <<dropped, failed, reported, forgotten>> /\ th[t].pc \in {"write", "rewrite"}
        BY <2>3 DEF WriteV, history
      <3>2. th'[t].snapshot = th[t].snapshot /\ \A u \in Threads : u # t => th'[u] = th[u]
        <4>1. CASE Sends(t) \/ TriesAgain(t)
          <5>1. PICK pc : th' = [th EXCEPT ![t].pc = pc]
            BY <4>1 DEF Sends, TriesAgain
          <5>2. Advances(t, pc) /\ th'[t].snapshot = th[t].snapshot
            BY <3>1, <5>1, AdvancesPc
          <5> QED BY <5>2 DEF Advances
        <4>2. ASSUME NEW b, IsRefused(t, b)
              PROVE  th'[t].snapshot = th[t].snapshot /\ \A u \in Threads : u # t => th'[u] = th[u]
          BY <1>1, <4>2 DEF IsRefused, DescriptorInv, TypesAreKept, ThreadValues
        <4> QED BY <2>3, <4>1, <4>2, WriteVCases
      <3> QED BY <1>1, <3>1, <3>2, CountFrame
    <2>4. CASE Reconnect(t)
      <3>1. /\ UNCHANGED <<dropped, failed, reported, forgotten>> /\ th[t].pc = "reconnect"
            /\ th' = [th EXCEPT ![t].pc = "rewrite"]
        BY <2>4 DEF Reconnect, Goto, history
      <3>2. th'[t].snapshot = th[t].snapshot /\ \A u \in Threads : u # t => th'[u] = th[u]
        BY <3>1, AdvancesPc DEF Advances
      <3> QED BY <1>1, <3>1, <3>2, CountFrame
    <2> QED BY <1>2, <2>1, <2>2, <2>3, <2>4, CountStep DEF Step
  <1>3. CASE Close \/ HandleData \/ LogdStart \/ UNCHANGED vars
    <2>1. UNCHANGED <<th, dropped, failed, reported, forgotten>>
      BY <1>3 DEF Close, HandleData, LogdStart, vars, history
    <2> QED BY <1>1, <2>1, CountFrame
  <1>4. CASE LogdDie
    <2>1. /\ th' = [t \in Threads |-> [th[t] EXCEPT !.excused = TRUE]]
          /\ UNCHANGED <<dropped, failed, reported, forgotten>>
      BY <1>4 DEF LogdDie, history
    <2>2. \A u \in Threads : th'[u].snapshot = th[u].snapshot /\ th'[u].pc = th[u].pc
      BY <1>1, <2>1 DEF ThreadValues
    <2> QED BY <1>1, <2>1, <2>2, CountFrame
  <1> QED BY <1>2, <1>3, <1>4 DEF Next

-----------------------------------------------------------------------------
(***************************************************************************)
(* Arrivals: Sum() of a sequence, and what the cut at LOGGER_ENTRY_MAX_     *)
(* PAYLOAD leaves of it                                                     *)
(***************************************************************************)

LEMMA GreatestOf ==
    ASSUME NEW n \in Nat, NEW S, S \subseteq 1 .. n, S # {}
    PROVE  Max(S) \in S /\ \A y \in S : Max(S) >= y
  <1> DEFINE T == {k \in Nat : \A y \in S : y <= k}
  <1>1. n \in T
    OBVIOUS
  <1>2. Min(T) \in T /\ \A k \in T : Min(T) <= k
    BY <1>1, LeastOf
  <1>3. PICK m : m \in T /\ \A k \in T : m <= k
    BY <1>2
  <1>4. m \in S
    <2> SUFFICES ASSUME m \notin S PROVE FALSE
      OBVIOUS
    <2>1. PICK y : y \in S
      OBVIOUS
    <2>2. m >= 1
      BY <1>3, <2>1
    <2>3. \A z \in S : z <= m - 1
      BY <1>3
    <2>4. m - 1 \in T
      BY <1>3, <2>2, <2>3
    <2> QED BY <1>3, <2>4
  <1>5. \E x \in S : \A y \in S : x >= y
    BY <1>3, <1>4
  <1> QED BY <1>5 DEF Max

SumsUp(g, q) ==
    g = [S \in SUBSET DOMAIN q |-> IF S = {} THEN 0 ELSE g[S \ {Max(S)}] + q[Max(S)]]

Sums(q) == CHOOSE g : SumsUp(g, q)

\* The sum of the first k numbers
Upto(q, k) == Sums(q)[1 .. k]

LEMMA SumIsOfAll ==
    ASSUME NEW q
    PROVE  Sum(q) = Sums(q)[DOMAIN q]
  BY DEF Sum, FoldLeft, MapThenFoldSet, Sums, SumsUp

LEMMA UptoRule ==
    ASSUME NEW q \in Seq(Nat)
    PROVE  /\ Sum(q) = Upto(q, Len(q)) /\ Upto(q, 0) = 0
           /\ \A k \in 1 .. Len(q) : Upto(q, k) = Upto(q, k - 1) + q[k]
  <1> DEFINE n  == Len(q)
             v  == [S \in SUBSET (1 .. n) |-> q[Max(S)]]
             ch == [S \in SUBSET (1 .. n) |-> Max(S)]
  <1>1. n \in Nat /\ DOMAIN q = 1 .. n /\ \A k \in 1 .. n : q[k] \in Nat
    BY LenProperties, ElementOfSeq
  <1> HIDE DEF n
  <1>2. \A S \in SUBSET (1 .. n) : S # {} => Max(S) \in S
    BY <1>1, GreatestOf
  <1>3. MayFold(1 .. n, ch, v)
    <2>1. IsFiniteSet(1 .. n)
      BY <1>1, FS_Interval
    <2> QED BY <1>1, <1>2, <2>1 DEF MayFold
  <1>4. PICK g : IsFold(g, 1 .. n, ch, v)
    <2> HIDE DEF v, ch
    <2> QED BY <1>3, FoldsExist
  <1> DEFINE e == [S \in SUBSET (1 .. n) |-> IF S = {} THEN 0 ELSE g[S \ {Max(S)}] + q[Max(S)]]
  <1>5. g = e
    <2>1. g \in [SUBSET (1 .. n) -> Nat]
      BY <1>4 DEF IsFold
    <2>2. ASSUME NEW S \in SUBSET (1 .. n) PROVE g[S] = e[S]
      <3>1. CASE S = {}
        BY <1>4, <3>1 DEF IsFold
      <3>2. CASE S # {}
        <4>1. g[S] = q[Max(S)] + g[S \ {Max(S)}]
          BY <1>4, <3>2 DEF IsFold
        <4>2. q[Max(S)] \in Nat /\ g[S \ {Max(S)}] \in Nat
          BY <1>1, <1>2, <2>1, <3>2
        <4>3. e[S] = g[S \ {Max(S)}] + q[Max(S)]
          BY <3>2
        <4> QED BY <4>1, <4>2, <4>3
      <3> QED BY <3>1, <3>2
    <2> HIDE DEF e
    <2>3. e = [S \in SUBSET (1 .. n) |-> e[S]]
      BY DEF e
    <2> QED BY <2>1, <2>2, <2>3
  <1>6. SumsUp(g, q)
    BY <1>1, <1>5 DEF SumsUp
  <1>7. SumsUp(Sums(q), q)
    BY <1>6 DEF Sums
  <1> DEFINE h == Sums(q)
  <1> HIDE DEF h
  <1>8. \A S \in SUBSET (1 .. n) : h[S] = IF S = {} THEN 0 ELSE h[S \ {Max(S)}] + q[Max(S)]
    <2>1. h = [S \in SUBSET (1 .. n) |-> IF S = {} THEN 0 ELSE h[S \ {Max(S)}] + q[Max(S)]]
      BY <1>1, <1>7 DEF SumsUp, h
    <2> QED BY <2>1, Zenon
  <1>9. h[1 .. 0] = 0
    <2>1. 1 .. 0 = {}
      OBVIOUS
    <2> QED BY <1>8, <2>1
  <1>10. ASSUME NEW k \in 1 .. n PROVE h[1 .. k] = h[1 .. (k - 1)] + q[k]
    <2>1. k \in Nat /\ 1 .. k \in SUBSET (1 .. n) /\ 1 .. k # {} /\ k \in 1 .. k
      <3>1. n \in Nat
        BY <1>1
      <3>2. k \in Nat /\ 1 <= k /\ k <= n
        BY <3>1
      <3>3. \A i \in 1 .. k : i \in 1 .. n
        BY <3>1, <3>2
      <3>4. k \in 1 .. k
        BY <3>2
      <3> QED BY <3>2, <3>3, <3>4
    <2>2. Max(1 .. k) \in 1 .. k /\ Max(1 .. k) >= k
      BY <2>1, GreatestOf
    <2>3. Max(1 .. k) = k
      BY <2>1, <2>2
    <2>4. (1 .. k) \ {k} = 1 .. (k - 1)
      BY <2>1
    <2> QED BY <1>8, <2>1, <2>3, <2>4
  <1>11. Sum(q) = h[1 .. n]
    BY <1>1, SumIsOfAll DEF h
  <1> QED BY <1>9, <1>10, <1>11 DEF Upto, h, n

LEMMA UptoType ==
    ASSUME NEW q \in Seq(Nat)
    PROVE  /\ \A k \in 0 .. Len(q) : Upto(q, k) \in Nat
           /\ \A k \in 1 .. Len(q) : Upto(q, k) <= Upto(q, Len(q))
  <1> DEFINE n == Len(q)
             f == [k \in Nat |-> Upto(q, k)]
             T == {k \in Nat : k <= n => f[k] \in Nat /\ \A j \in 0 .. k : f[j] \in Nat /\ f[j] <= f[k]}
  <1>1. n \in Nat /\ \A k \in 1 .. n : q[k] \in Nat
    BY LenProperties, ElementOfSeq
  <1>2. f[0] = 0 /\ \A k \in 1 .. n : f[k] = f[k - 1] + q[k]
    BY <1>1, UptoRule
  <1> HIDE DEF f, n
  <1>3. 0 \in T
    BY <1>2
  <1>4. ASSUME NEW k \in Nat, k \in T PROVE k + 1 \in T
    <2> SUFFICES ASSUME k + 1 <= n PROVE f[k + 1] \in Nat /\ \A j \in 0 .. (k + 1) : f[j] \in Nat /\ f[j] <= f[k + 1]
      OBVIOUS
    <2>1. k + 1 \in 1 .. n /\ (k + 1) - 1 = k /\ k <= n
      BY <1>1
    <2>2. f[k] \in Nat /\ \A j \in 0 .. k : f[j] \in Nat /\ f[j] <= f[k]
      BY <1>4, <2>1
    <2>3. f[k + 1] = f[k] + q[k + 1] /\ q[k + 1] \in Nat
      BY <1>1, <1>2, <2>1
    <2>4. f[k + 1] \in Nat /\ f[k] <= f[k + 1]
      BY <2>2, <2>3
    <2>5. ASSUME NEW j \in 0 .. (k + 1) PROVE f[j] \in Nat /\ f[j] <= f[k + 1]
      <3>1. CASE j = k + 1
        BY <2>4, <3>1
      <3>2. CASE j # k + 1
        <4>1. j \in 0 .. k
          BY <3>2
        <4>2. f[j] \in Nat /\ f[j] <= f[k]
          BY <2>2, <4>1
        <4> QED BY <2>2, <2>4, <4>2
      <3> QED BY <3>1, <3>2
    <2> QED BY <2>4, <2>5
  <1>5. Nat \subseteq T
    <2> HIDE DEF T
    <2> QED BY <1>3, <1>4, Induction
  <1>6. \A j \in 0 .. n : f[j] \in Nat /\ f[j] <= f[n]
    BY <1>1, <1>5
  <1>7. \A k \in 0 .. n : f[k] = Upto(q, k)
    BY <1>1 DEF f
  <1>8. \A k \in 0 .. n : Upto(q, k) \in Nat /\ Upto(q, k) <= Upto(q, n)
    BY <1>1, <1>6, <1>7
  <1> QED BY <1>1, <1>8 DEF n

\* Sequences that begin alike have the same sums up to there.
LEMMA UptoAlike ==
    ASSUME NEW p \in Seq(Nat), NEW q \in Seq(Nat), NEW n \in Nat, n <= Len(p), n <= Len(q),
           \A k \in 1 .. n : p[k] = q[k]
    PROVE  Upto(p, n) = Upto(q, n)
  <1> DEFINE T == {k \in Nat : k <= n => Upto(p, k) = Upto(q, k)}
  <1>1. Len(p) \in Nat /\ Len(q) \in Nat
    BY LenProperties
  <1>2. 0 \in T
    BY UptoRule
  <1>3. ASSUME NEW k \in Nat, k \in T PROVE k + 1 \in T
    <2> SUFFICES ASSUME k + 1 <= n PROVE Upto(p, k + 1) = Upto(q, k + 1)
      OBVIOUS
    <2>1. /\ k + 1 \in 1 .. Len(p) /\ k + 1 \in 1 .. Len(q) /\ k + 1 \in 1 .. n
          /\ (k + 1) - 1 = k /\ k <= n
      BY <1>1
    <2>2. Upto(p, k) = Upto(q, k) /\ p[k + 1] = q[k + 1]
      BY <1>3, <2>1
    <2>3. Upto(p, k + 1) = Upto(p, k) + p[k + 1]
      BY <2>1, UptoRule
    <2>4. Upto(q, k + 1) = Upto(q, k) + q[k + 1]
      BY <2>1, UptoRule
    <2> QED BY <2>2, <2>3, <2>4
  <1>4. Nat \subseteq T
    <2> HIDE DEF T
    <2> QED BY <1>2, <1>3, Induction
  <1> QED BY <1>4

LEMMA SumOfFirst ==
    ASSUME NEW q \in Seq(Nat), NEW n \in 0 .. Len(q)
    PROVE  SubSeq(q, 1, n) \in Seq(Nat) /\ Len(SubSeq(q, 1, n)) = n /\ Sum(SubSeq(q, 1, n)) = Upto(q, n)
  <1> DEFINE p == SubSeq(q, 1, n)
  <1>1. Len(q) \in Nat /\ n \in Nat /\ n <= Len(q)
    BY LenProperties
  <1>2. p \in Seq(Nat) /\ Len(p) = n /\ \A k \in 1 .. n : p[k] = q[k]
    BY <1>1, SubSeqProperties, ElementOfSeq
  <1> HIDE DEF p
  <1>3. Sum(p) = Upto(p, n)
    BY <1>2, UptoRule
  <1>4. Upto(p, n) = Upto(q, n)
    BY <1>1, <1>2, UptoAlike
  <1> QED BY <1>2, <1>3, <1>4 DEF p

LEMMA SumAppended ==
    ASSUME NEW q \in Seq(Nat), NEW x \in Nat
    PROVE  Sum(q \o <<x>>) = Sum(q) + x
  <1> DEFINE p == q \o <<x>>
             n == Len(q)
  <1>1. /\ n \in Nat /\ p \in Seq(Nat) /\ Len(p) = n + 1 /\ p[n + 1] = x
        /\ \A k \in 1 .. n : p[k] = q[k]
        /\ n <= Len(p) /\ n <= Len(q)
    BY LenProperties, ConcatProperties
  <1> HIDE DEF p, n
  <1>2. Upto(p, n) = Upto(q, n)
    BY <1>1, UptoAlike
  <1>3. Sum(p) = Upto(p, n + 1) /\ Upto(p, n + 1) = Upto(p, n) + x
    <2>1. n + 1 \in 1 .. Len(p) /\ (n + 1) - 1 = n
      BY <1>1
    <2>2. Upto(p, n + 1) = Upto(p, (n + 1) - 1) + p[n + 1]
      BY <1>1, <2>1, UptoRule
    <2> QED BY <1>1, <2>1, <2>2, UptoRule
  <1>4. Sum(q) = Upto(q, n)
    BY UptoRule DEF n
  <1> QED BY <1>2, <1>3, <1>4 DEF p

\* LogdWrite() sends the payload, up to LOGGER_ENTRY_MAX_PAYLOAD of it.
LEMMA CutAtPayload ==
    ASSUME NEW vec \in Seq(Nat), MaxPayload \in Nat
    PROVE  /\ Sum(vec) \in Nat /\ Sum(NewVec(vec)) \in Nat
           /\ Sum(NewVec(vec)) = IF Sum(vec) <= MaxPayload THEN Sum(vec) ELSE MaxPayload
  <1> DEFINE n    == Len(vec)
             over == {i \in 1 .. n : Sum(SubSeq(vec, 1, i)) > MaxPayload}
  <1>1. /\ n \in Nat /\ Sum(vec) = Upto(vec, n) /\ Upto(vec, 0) = 0 /\ Sum(vec) \in Nat
        /\ \A k \in 0 .. n : Upto(vec, k) \in Nat
        /\ \A k \in 1 .. n : Upto(vec, k) = Upto(vec, k - 1) + vec[k] /\ vec[k] \in Nat
        /\ \A k \in 1 .. n : Upto(vec, k) <= Upto(vec, n)
    BY LenProperties, ElementOfSeq, UptoRule, UptoType
  <1>2. \A k \in 0 .. n : SubSeq(vec, 1, k) \in Seq(Nat) /\ Sum(SubSeq(vec, 1, k)) = Upto(vec, k)
    BY SumOfFirst
  <1>3. NewVec(vec) =
          IF over = {} THEN vec
          ELSE LET i == Min(over)
                   iov_len == vec[i] - (Sum(SubSeq(vec, 1, i)) - MaxPayload)
               IN  SubSeq(vec, 1, i - 1) \o (IF iov_len # 0 THEN <<iov_len>> ELSE << >>)
    BY DEF NewVec
  <1> HIDE DEF n
  <1>4. CASE over = {}
    <2>1. CASE n = 0
      BY <1>1, <1>3, <1>4, <2>1
    <2>2. CASE n # 0
      <3>1. n \in 1 .. n /\ n \in 0 .. n
        BY <1>1, <2>2
      <3>2. ~(Upto(vec, n) > MaxPayload)
        BY <1>2, <1>4, <3>1
      <3>3. Sum(vec) <= MaxPayload
        BY <1>1, <3>2
      <3> QED BY <1>1, <1>3, <1>4, <3>3
    <2> QED BY <2>1, <2>2
  <1>5. CASE over # {}
    <2>1. over \subseteq Nat
      BY <1>1
    <2>2. Min(over) \in over /\ \A j \in over : Min(over) <= j
      BY <1>5, <2>1, LeastOf
    <2>3. PICK i : i = Min(over) /\ i \in over /\ \A j \in over : i <= j
      BY <2>2
    <2>4. i \in 1 .. n /\ i \in 0 .. n /\ i - 1 \in 0 .. n /\ Upto(vec, i) > MaxPayload
      BY <1>1, <1>2, <2>3
    <2>5. Upto(vec, i - 1) <= MaxPayload /\ Upto(vec, i - 1) \in Nat
      <3>1. CASE i = 1
        BY <1>1, <3>1
      <3>2. CASE i # 1
        <4>1. i - 1 \in 1 .. n /\ ~(i <= i - 1)
          BY <1>1, <2>4, <3>2
        <4>2. i - 1 \notin over
          <5> HIDE DEF over
          <5> QED BY <2>3, <4>1
        <4>3. ~(Upto(vec, i - 1) > MaxPayload)
          BY <1>2, <2>4, <4>1, <4>2
        <4> QED BY <1>1, <2>4, <4>3
      <3> QED BY <3>1, <3>2
    <2> DEFINE len == vec[i] - (Sum(SubSeq(vec, 1, i)) - MaxPayload)
               p == SubSeq(vec, 1, i - 1)
    <2>6. len \in Nat /\ Upto(vec, i - 1) + len = MaxPayload
      <3>1. Sum(SubSeq(vec, 1, i)) = Upto(vec, i - 1) + vec[i] /\ vec[i] \in Nat
        BY <1>1, <1>2, <2>4
      <3>2. PICK u \in Nat, w \in Nat : u = Upto(vec, i - 1) /\ w = vec[i] /\ u <= MaxPayload
        BY <2>5, <3>1
      <3>3. w - ((u + w) - MaxPayload) \in Nat /\ u + (w - ((u + w) - MaxPayload)) = MaxPayload
        BY <3>2
      <3> QED BY <3>1, <3>2, <3>3
    <2>7. p \in Seq(Nat) /\ Sum(p) = Upto(vec, i - 1)
      BY <1>2, <2>4
    <2>8. NewVec(vec) = p \o (IF len # 0 THEN <<len>> ELSE << >>)
      BY <1>3, <1>5, <2>3
    <2> HIDE DEF len, p
    <2>9. Sum(NewVec(vec)) = MaxPayload
      <3>1. CASE len # 0
        BY <2>6, <2>7, <2>8, <3>1, SumAppended
      <3>2. CASE len = 0
        <4>1. NewVec(vec) = p
          BY <2>7, <2>8, <3>2, ConcatEmptySeq
        <4> QED BY <2>5, <2>6, <2>7, <3>2, <4>1
      <3> QED BY <3>1, <3>2
    <2>10. ~(Sum(vec) <= MaxPayload)
      BY <1>1, <2>4
    <2> QED BY <1>1, <2>9, <2>10
  <1> QED BY <1>4, <1>5

LEMMA VecType ==
    ASSUME WriterConstants, NEW m \in Messages
    PROVE  Vec(m) \in Seq(Nat)
  <1>1. m.api \in Apis /\ m.tag \in Nat /\ m.len \in Nat /\ LogBufSize - 1 \in Nat /\ LogBufSize - 2 \in Nat
    BY DEF WriterConstants
  <1>2. MessageLen(m) \in Nat
    <2>1. ASSUME NEW a \in Nat, NEW b \in Nat PROVE Min({a, b}) \in Nat
      <3>1. Min({a, b}) \in {a, b}
        BY LeastOf
      <3> QED BY <3>1
    <2> QED BY <1>1, <2>1 DEF MessageLen
  <1> QED BY <1>1, <1>2 DEF Vec, Apis, TextApi

-----------------------------------------------------------------------------
(***************************************************************************)
(* Arrivals: each action                                                    *)
(***************************************************************************)

\* What SentBefore() says of thread t still holds of what t has become.
KeepsUp(t) ==
    /\ th'[t].pc # "idle" => th'[t].n < writes'
    /\ \A d \in Datagrams : d.from = t /\ SentBefore(d, th[t]) => SentBefore(d, th[t])'

LEMMA SoundStays ==
    ASSUME \A t \in Threads : KeepsUp(t), NEW d \in Datagrams, Sound(d)
    PROVE  Sound(d)'
  <1>1. d.from \in Threads
    BY DEF Datagrams
  <1>2. SentBefore(d, th[d.from])'
    BY <1>1 DEF KeepsUp, Sound
  <1> QED BY <1>2 DEF Sound

LEMMA ArrivalsStay ==
    ASSUME ArrivalInv, writes' \in Nat, UNCHANGED <<queue, logged>>, \A t \in Threads : KeepsUp(t)
    PROVE  ArrivalInv'
  <1>1. /\ queue \in Seq(Datagrams) /\ logged \in Seq(Datagrams)
        /\ \A i \in 1 .. Len(queue) : queue[i] \in Datagrams /\ Sound(queue[i])
        /\ \A i \in 1 .. Len(logged) : logged[i] \in Datagrams /\ Sound(logged[i])
    BY ElementOfSeq DEF ArrivalInv
  <1>2. \A i \in 1 .. Len(queue) : Sound(queue[i])'
    <2> SUFFICES ASSUME NEW i \in 1 .. Len(queue) PROVE Sound(queue[i])'
      OBVIOUS
    <2>1. PICK d \in Datagrams : d = queue[i] /\ d = queue'[i] /\ Sound(d)
      BY <1>1
    <2>2. Sound(d)'
      BY <2>1, SoundStays
    <2> QED BY <2>1, <2>2 DEF Sound, SentBefore
  <1>3. \A i \in 1 .. Len(logged) : Sound(logged[i])'
    <2> SUFFICES ASSUME NEW i \in 1 .. Len(logged) PROVE Sound(logged[i])'
      OBVIOUS
    <2>1. PICK d \in Datagrams : d = logged[i] /\ d = logged'[i] /\ Sound(d)
      BY <1>1
    <2>2. Sound(d)'
      BY <2>1, SoundStays
    <2> QED BY <2>1, <2>2 DEF Sound, SentBefore
  <1>4. Ordered(logged)' /\ Ordered(queue)'
    BY DEF ArrivalInv, Ordered
  <1>5. \A t \in Threads : th'[t].pc # "idle" => th'[t].n < writes'
    BY DEF KeepsUp
  <1> QED BY <1>1, <1>2, <1>3, <1>4, <1>5 DEF ArrivalInv

\* A datagram is sent that follows all others of its thread.
LEMMA ArrivalsGrow ==
    ASSUME ArrivalInv, writes' \in Nat, logged' = logged, \A t \in Threads : KeepsUp(t),
           NEW d \in Datagrams, queue' = Append(queue, d), Sound(d)',
           \A e \in Datagrams : Sound(e) => Precedes(e, d)
    PROVE  ArrivalInv'
  <1> DEFINE n == Len(queue)
  <1>1. /\ queue \in Seq(Datagrams) /\ logged \in Seq(Datagrams) /\ n \in Nat /\ Len(logged) \in Nat
        /\ \A i \in 1 .. n : queue[i] \in Datagrams /\ Sound(queue[i])
        /\ \A i \in 1 .. Len(logged) : logged[i] \in Datagrams /\ Sound(logged[i])
    BY ElementOfSeq, LenProperties DEF ArrivalInv
  <1>2. /\ queue' \in Seq(Datagrams) /\ Len(queue') = n + 1 /\ queue'[n + 1] = d
        /\ \A i \in 1 .. n : queue'[i] = queue[i]
    BY <1>1, AppendProperties
  <1> HIDE DEF n
  <1>3. \A i \in 1 .. n + 1 : i = n + 1 \/ i \in 1 .. n
    BY <1>1
  <1>4. ASSUME NEW i \in 1 .. Len(queue') PROVE Sound(queue[i])'
    <2>1. CASE i = n + 1
      BY <1>2, <2>1 DEF Sound, SentBefore
    <2>2. CASE i \in 1 .. n
      <3>1. PICK e \in Datagrams : e = queue'[i] /\ Sound(e)
        BY <1>1, <1>2, <2>2
      <3>2. Sound(e)'
        BY <3>1, SoundStays
      <3> QED BY <3>1, <3>2 DEF Sound, SentBefore
    <2> QED BY <1>2, <1>3, <2>1, <2>2
  <1>5. ASSUME NEW i \in 1 .. Len(logged') PROVE Sound(logged[i])'
    <2>1. PICK e \in Datagrams : e = logged'[i] /\ Sound(e)
      BY <1>1
    <2>2. Sound(e)'
      BY <2>1, SoundStays
    <2> QED BY <2>1, <2>2 DEF Sound, SentBefore
  <1>6. Ordered(queue')
    <2> SUFFICES ASSUME NEW i \in 1 .. n + 1, NEW j \in 1 .. n + 1, i < j
                 PROVE  Precedes(queue'[i], queue'[j])
      BY <1>2 DEF Ordered
    <2>1. i \in 1 .. n
      BY <1>1
    <2>2. CASE j = n + 1
      BY <1>1, <1>2, <2>1, <2>2
    <2>3. CASE j \in 1 .. n
      <3>1. Precedes(queue[i], queue[j])
        BY <2>1, <2>3 DEF ArrivalInv, Ordered, n
      <3> QED BY <1>2, <2>1, <2>3, <3>1
    <2> QED BY <1>3, <2>2, <2>3
  <1>7. ASSUME NEW i \in 1 .. Len(logged), NEW j \in 1 .. n + 1
        PROVE  Precedes(logged[i], queue'[j])
    <2>1. CASE j = n + 1
      BY <1>1, <1>2, <2>1
    <2>2. CASE j \in 1 .. n
      <3>1. Precedes(logged[i], queue[j])
        BY <2>2 DEF ArrivalInv, n
      <3> QED BY <1>2, <2>2, <3>1
    <2> QED BY <1>3, <2>1, <2>2
  <1>8. Ordered(logged)' /\ Ordered(queue)'
    BY <1>6 DEF ArrivalInv, Ordered, Precedes
  <1>9. \A i \in 1 .. Len(logged'), j \in 1 .. Len(queue') : Precedes(logged[i], queue[j])'
    BY <1>2, <1>7 DEF Precedes
  <1>10. \A t \in Threads : th'[t].pc # "idle" => th'[t].n < writes'
    BY DEF KeepsUp
  <1> QED BY <1>1, <1>2, <1>4, <1>5, <1>8, <1>9, <1>10 DEF ArrivalInv

Early == {"sock", "cas", "exchange", "report"}
Late  == {"putback", "write", "reconnect", "rewrite"}

\* A thread that moves on does not go back to before what it sent.
LEMMA AdvanceKeepsUp ==
    ASSUME ArrivalInv, writes' = writes, NEW t \in Threads, NEW pc, Advances(t, pc),
           pc \in Early => th[t].pc \in Early,
           pc \in Late => th[t].pc \in Early \cup Late
    PROVE  \A u \in Threads : KeepsUp(u)
  <1>1. ASSUME NEW u \in Threads, u # t PROVE KeepsUp(u)
    <2>1. th'[u] = th[u]
      BY <1>1 DEF Advances
    <2> QED BY <2>1 DEF KeepsUp, SentBefore, ArrivalInv
  <1>2. KeepsUp(t)
    <2>1. th'[t].n = th[t].n /\ th'[t].pc = pc /\ th[t].n < writes
      BY DEF Advances, ArrivalInv
    <2> QED BY <2>1 DEF KeepsUp, SentBefore, Early, Late
  <1> QED BY <1>1, <1>2

LEMMA StillKeepsUp ==
    ASSUME ArrivalInv, writes' = writes,
           \A u \in Threads : th'[u].pc = th[u].pc /\ th'[u].n = th[u].n
    PROVE  \A u \in Threads : KeepsUp(u)
  BY DEF KeepsUp, SentBefore, ArrivalInv

LEMMA WriteArrivals ==
    ASSUME DescriptorInv, ArrivalInv, NEW t \in Threads, NEW m \in Messages, Write(t, m)
    PROVE  ArrivalInv'
  <1> DEFINE x == [Idle EXCEPT !.msg = m, !.n = writes, !.excused = ~logd.up,
                     !.pc = IF text_error(m) \/ write_to_log_error(m) THEN "idle" ELSE "sock"]
  <1>1. th' = [th EXCEPT ![t] = x] /\ UNCHANGED <<queue, logged>> /\ writes' = writes + 1
    BY DEF Write, kernel
  <1>2. x.pc \in {"idle", "sock"} /\ x.n = writes
    BY DEF Idle
  <1> HIDE DEF x
  <1>3. th'[t] = x /\ \A u \in Threads : u # t => th'[u] = th[u]
    BY <1>1 DEF DescriptorInv, TypesAreKept
  <1>4. writes \in Nat
    BY DEF ArrivalInv
  <1>5. ASSUME NEW u \in Threads PROVE KeepsUp(u)
    <2>1. \A d \in Datagrams : d.n \in Nat
      BY DEF Datagrams
    <2>2. CASE u = t
      BY <1>1, <1>2, <1>3, <1>4, <2>1, <2>2 DEF KeepsUp, SentBefore
    <2>3. CASE u # t
      <3>1. th'[u] = th[u] /\ th[u].n \in Nat /\ (th[u].pc # "idle" => th[u].n < writes)
        BY <1>3, <2>3 DEF ArrivalInv, DescriptorInv, TypesAreKept, ThreadValues
      <3> QED BY <1>1, <1>4, <2>1, <3>1 DEF KeepsUp, SentBefore
    <2> QED BY <2>2, <2>3
  <1> QED BY <1>1, <1>4, <1>5, ArrivalsStay

LEMMA OpeningArrivals ==
    ASSUME DescriptorInv, DescriptorInv', ArrivalInv, NEW t \in Threads,
           \/ GetSocket(t) \/ ExchangeSocket(t) \/ GetPmsgFd(t) \/ ReopenPmsg(t) \/ ExchangePmsg(t)
           \/ PmsgWrite(t)
    PROVE  ArrivalInv'
  <1>1. UNCHANGED <<queue, logged, writes>>
    BY OpeningSteps
  <1>2. PICK pc : /\ Advances(t, pc) /\ (pc \in Early => th[t].pc \in Early) /\ pc \notin Late
    BY OpeningSteps DEF Early, Late
  <1>3. \A u \in Threads : KeepsUp(u)
    BY <1>1, <1>2, AdvanceKeepsUp
  <1> QED BY <1>1, <1>3, ArrivalsStay DEF ArrivalInv

\* The report of dropped messages goes before the message itself.
LEMMA CountingArrivals ==
    ASSUME WriterConstants, DescriptorInv, DescriptorInv', ArrivalInv, NEW t \in Threads,
           TakeDropped(t) \/ ReportDropped(t) \/ PutBackDropped(t) \/ CountDropped(t)
    PROVE  ArrivalInv'
  <1> DEFINE d == [from |-> t, n |-> th[t].n, id |-> "liblog", size |-> 0, full |-> 0]
  <1>1. UNCHANGED <<logged, writes>> /\ writes \in Nat
    BY CountingSteps DEF ArrivalInv
  <1>2. PICK pc : /\ Advances(t, pc) /\ (pc \in Early => th[t].pc \in Early)
                  /\ (pc \in Late => th[t].pc \in Early \cup Late)
                  /\ \/ queue' = queue
                     \/ queue' = Append(queue, d) /\ th[t].pc = "report" /\ pc = "write"
    BY CountingSteps DEF Early, Late
  <1>3. \A u \in Threads : KeepsUp(u)
    BY <1>1, <1>2, AdvanceKeepsUp
  <1>4. CASE queue' = queue
    BY <1>1, <1>3, <1>4, ArrivalsStay
  <1>5. CASE queue' = Append(queue, d) /\ th[t].pc = "report" /\ pc = "write"
    <2>1. d \in Datagrams /\ d.from = t /\ d.n = th[t].n /\ d.id = "liblog" /\ d.size = 0 /\ d.full = 0
      <3>1. th[t].n \in Nat
        BY DEF DescriptorInv, TypesAreKept, ThreadValues
      <3> QED BY <3>1 DEF Datagrams
    <2>2. \A e \in Datagrams : Sound(e) => Precedes(e, d)
      BY <1>5, <2>1 DEF Sound, SentBefore, Precedes
    <2>3. PICK g \in Datagrams : g = d
      BY <2>1
    <2>4. /\ th'[t].pc = "write" /\ th'[t].n = th[t].n /\ th[t].n < writes
      BY <1>2, <1>5 DEF Advances, ArrivalInv
    <2>5. g.from = t /\ g.n = th[t].n /\ g.id = "liblog" /\ g.size = 0 /\ g.full = 0
      BY <2>1, <2>3
    <2>6. Sound(g)'
      <3>1. MaxPayload \in Nat
        BY DEF WriterConstants
      <3>2. g.size = IF g.full <= MaxPayload THEN g.full ELSE MaxPayload
        BY <2>5, <3>1
      <3>3. th'[g.from] = th'[t]
        BY <2>5
      <3> QED BY <1>1, <2>4, <2>5, <3>2, <3>3 DEF Sound, SentBefore
    <2>7. queue' = Append(queue, g) /\ \A e \in Datagrams : Sound(e) => Precedes(e, g)
      BY <1>5, <2>2, <2>3
    <2> HIDE DEF d
    <2> QED BY <1>1, <1>3, <2>6, <2>7, ArrivalsGrow
  <1> QED BY <1>2, <1>4, <1>5

LEMMA WriteVArrivals ==
    ASSUME WriterConstants, DescriptorInv, DescriptorInv', ArrivalInv, NEW t \in Threads, WriteV(t)
    PROVE  ArrivalInv'
  <1>1. UNCHANGED <<logged, writes>> /\ writes \in Nat /\ th[t].pc \in {"write", "rewrite"}
    BY DEF WriteV, ArrivalInv
  <1>2. ASSUME NEW pc \in {"pmsg", "reconnect", "count"}, Advances(t, pc)
        PROVE  \A u \in Threads : KeepsUp(u)
    BY <1>1, <1>2, AdvanceKeepsUp DEF Early, Late
  <1>3. CASE TriesAgain(t)
    <2>1. Advances(t, "reconnect") /\ queue' = queue
      BY <1>1, <1>3, AdvancesPc DEF TriesAgain
    <2>2. \A u \in Threads : KeepsUp(u)
      BY <1>2, <2>1
    <2> QED BY <1>1, <2>1, <2>2, ArrivalsStay
  <1>4. ASSUME NEW b, IsRefused(t, b) PROVE ArrivalInv'
    <2>1. th \in [Threads -> ThreadValues] /\ th[t] \in ThreadValues /\ th'[t] \in ThreadValues
      BY DEF DescriptorInv, TypesAreKept
    <2>2. Advances(t, "count") /\ queue' = queue
      BY <1>1, <1>4, <2>1 DEF Advances, IsRefused, ThreadValues
    <2>3. \A u \in Threads : KeepsUp(u)
      BY <1>2, <2>2
    <2> QED BY <1>1, <2>2, <2>3, ArrivalsStay
  <1>5. CASE Sends(t)
    <2> DEFINE m == th[t].msg
               d == [from |-> t, n |-> th[t].n, id |-> buffer_id(m),
                     size |-> Sum(NewVec(Vec(m))), full |-> Sum(Vec(m))]
    <2>1. Advances(t, "pmsg") /\ queue' = Append(queue, d)
      BY <1>1, <1>5, AdvancesPc DEF Sends
    <2>2. \A u \in Threads : KeepsUp(u)
      BY <1>2, <2>1
    <2>3. m \in Messages /\ th[t].n \in Nat
      BY DEF DescriptorInv, TypesAreKept, ThreadValues
    <2>4. MaxPayload \in Nat /\ Vec(m) \in Seq(Nat) /\ buffer_id(m) # "liblog"
      BY <2>3, VecType DEF WriterConstants, buffer_id
    <2>5. /\ Sum(Vec(m)) \in Nat /\ Sum(NewVec(Vec(m))) \in Nat
          /\ Sum(NewVec(Vec(m))) = IF Sum(Vec(m)) <= MaxPayload THEN Sum(Vec(m)) ELSE MaxPayload
      BY <2>4, CutAtPayload
    <2> HIDE DEF m
    <2>6. /\ d \in Datagrams /\ d.from = t /\ d.n = th[t].n /\ d.id # "liblog"
          /\ d.size = IF d.full <= MaxPayload THEN d.full ELSE MaxPayload
      BY <2>3, <2>4, <2>5 DEF Datagrams
    <2> HIDE DEF d
    <2>7. PICK g \in Datagrams : g = d
      BY <2>6
    <2>8. /\ g.from = t /\ g.n = th[t].n /\ g.id # "liblog" /\ queue' = Append(queue, g)
          /\ g.size = IF g.full <= MaxPayload THEN g.full ELSE MaxPayload
      BY <2>1, <2>6, <2>7
    <2>9. \A e \in Datagrams : Sound(e) => Precedes(e, g)
      BY <1>1, <2>8 DEF Sound, SentBefore, Precedes
    <2>10. Sound(g)'
      <3>1. th'[t].pc = "pmsg" /\ th[t].n < writes /\ th'[g.from] = th'[t]
        BY <1>1, <2>1, <2>8 DEF Advances, ArrivalInv
      <3> QED BY <1>1, <2>8, <3>1 DEF Sound, SentBefore
    <2> QED BY <1>1, <2>2, <2>8, <2>9, <2>10, ArrivalsGrow
  <1> QED BY <1>3, <1>4, <1>5, WriteVCases

LEMMA ReconnectArrivals ==
    ASSUME DescriptorInv, DescriptorInv', ArrivalInv, NEW t \in Threads, Reconnect(t)
    PROVE  ArrivalInv'
  <1>1. /\ UNCHANGED <<queue, logged, writes>> /\ writes \in Nat /\ th[t].pc = "reconnect"
        /\ th' = [th EXCEPT ![t].pc = "rewrite"]
    BY DEF Reconnect, Goto, ArrivalInv
  <1>2. Advances(t, "rewrite")
    BY <1>1, AdvancesPc
  <1>3. \A u \in Threads : KeepsUp(u)
    BY <1>1, <1>2, AdvanceKeepsUp DEF Early, Late
  <1> QED BY <1>1, <1>3, ArrivalsStay

\* HandleData() takes the oldest datagram from the queue; it may refuse it.
LEMMA HandleDataArrivals ==
    ASSUME ArrivalInv, HandleData
    PROVE  ArrivalInv'
  <1> DEFINE h == queue[1]
             n == Len(queue)
             l == Len(logged)
  <1>1. /\ queue # <<>> /\ queue' = Tail(queue) /\ UNCHANGED <<th, writes>>
        /\ logged' = logged \/ logged' = Append(logged, Head(queue))
    BY DEF HandleData
  <1>2. /\ queue \in Seq(Datagrams) /\ logged \in Seq(Datagrams) /\ n \in Nat /\ l \in Nat
    BY LenProperties DEF ArrivalInv
  <1>3. /\ n >= 1 /\ h \in Datagrams /\ Head(queue) = h
    BY <1>1, <1>2, EmptySeq
  <1>4. /\ queue' \in Seq(Datagrams) /\ Len(queue') = n - 1
        /\ \A i \in 1 .. n - 1 : queue'[i] = queue[i + 1]
    BY <1>1, <1>2, HeadTailProperties
  <1>5. /\ Ordered(logged) /\ Ordered(queue)
        /\ \A i \in 1 .. l, j \in 1 .. n : Precedes(logged[i], queue[j])
        /\ \A i \in 1 .. l : Sound(logged[i])
        /\ \A j \in 1 .. n : Sound(queue[j])
    BY DEF ArrivalInv
  <1>6. ASSUME NEW q, Sound(q) PROVE Sound(q)'
    BY <1>1, <1>6 DEF Sound, SentBefore
  <1> HIDE DEF h, n, l
  <1>7. h = queue[1]
    BY DEF h
  <1>8. Ordered(queue)'
    <2> SUFFICES ASSUME NEW i \in 1 .. n - 1, NEW j \in 1 .. n - 1, i < j
                 PROVE  Precedes(queue'[i], queue'[j])
      BY <1>4 DEF Ordered, Precedes
    <2>1. i + 1 \in 1 .. n /\ j + 1 \in 1 .. n /\ i + 1 < j + 1
      BY <1>2
    <2>2. Precedes(queue[i + 1], queue[j + 1])
      BY <1>5, <2>1 DEF Ordered, n
    <2> QED BY <1>4, <2>2
  <1>9. ASSUME NEW j \in 1 .. Len(queue') PROVE Sound(queue[j])'
    <2>1. j \in 1 .. n - 1 /\ j + 1 \in 1 .. n
      BY <1>2, <1>4
    <2>2. PICK e : e = queue[j + 1] /\ e = queue'[j] /\ Sound(e)
      BY <1>4, <1>5, <2>1
    <2>3. Sound(e)'
      BY <1>6, <2>2
    <2> QED BY <2>2, <2>3 DEF Sound, SentBefore
  <1>10. ASSUME NEW i \in 1 .. l, NEW j \in 1 .. n - 1 PROVE Precedes(logged[i], queue'[j])
    <2>1. j + 1 \in 1 .. n
      BY <1>2
    <2> QED BY <1>4, <1>5, <2>1
  <1>11. \A t \in Threads : th'[t].pc # "idle" => th'[t].n < writes'
    BY <1>1 DEF ArrivalInv
  <1>12. ASSUME logged' \in Seq(Datagrams),
                \A i, j \in 1 .. Len(logged') : i < j => Precedes(logged'[i], logged'[j]),
                \A i \in 1 .. Len(logged'), j \in 1 .. n - 1 : Precedes(logged'[i], queue'[j]),
                \A i \in 1 .. Len(logged') : Sound(logged'[i])
         PROVE  ArrivalInv'
    <2>1. Ordered(logged)'
      BY <1>12 DEF Ordered, Precedes
    <2>2. \A i \in 1 .. Len(logged'), j \in 1 .. Len(queue') : Precedes(logged[i], queue[j])'
      BY <1>4, <1>12 DEF Precedes
    <2>3. ASSUME NEW i \in 1 .. Len(logged') PROVE Sound(logged[i])'
      <3>1. PICK e : e = logged'[i] /\ Sound(e)
        BY <1>12
      <3>2. Sound(e)'
        BY <1>6, <3>1
      <3> QED BY <3>1, <3>2 DEF Sound, SentBefore
    <2>4. writes' \in Nat
      BY <1>1 DEF ArrivalInv
    <2> QED BY <1>4, <1>8, <1>9, <1>11, <1>12, <2>1, <2>2, <2>3, <2>4 DEF ArrivalInv
  <1>13. CASE logged' = logged
    <2>1. /\ logged' \in Seq(Datagrams) /\ Len(logged') = l
          /\ \A i, j \in 1 .. l : i < j => Precedes(logged'[i], logged'[j])
      BY <1>2, <1>5, <1>13 DEF Ordered, l
    <2> QED BY <1>5, <1>10, <1>12, <1>13, <2>1
  <1>14. CASE logged' = Append(logged, h)
    <2>1. /\ logged' \in Seq(Datagrams) /\ Len(logged') = l + 1 /\ logged'[l + 1] = h
          /\ \A i \in 1 .. l : logged'[i] = logged[i]
      BY <1>2, <1>3, <1>14, AppendProperties DEF l
    <2>2. \A i \in 1 .. l + 1 : i = l + 1 \/ i \in 1 .. l
      BY <1>2
    <2>3. 1 \in 1 .. n
      BY <1>2, <1>3
    <2>4. Sound(h) /\ \A i \in 1 .. l : Precedes(logged[i], h)
      BY <1>5, <1>7, <2>3
    <2>5. ASSUME NEW i \in 1 .. l + 1, NEW j \in 1 .. l + 1, i < j
          PROVE  Precedes(logged'[i], logged'[j])
      <3>1. i \in 1 .. l
        BY <1>2, <2>5
      <3>2. CASE j = l + 1
        BY <2>1, <2>4, <3>1, <3>2
      <3>3. CASE j \in 1 .. l
        <4>1. Precedes(logged[i], logged[j])
          BY <1>5, <2>5, <3>1, <3>3 DEF Ordered, l
        <4> QED BY <2>1, <3>1, <3>3, <4>1
      <3> QED BY <2>2, <3>2, <3>3
    <2>6. ASSUME NEW i \in 1 .. l + 1, NEW j \in 1 .. n - 1
          PROVE  Precedes(logged'[i], queue'[j])
      <3>1. CASE i = l + 1
        <4>1. j + 1 \in 1 .. n /\ 1 < j + 1
          BY <1>2
        <4>2. Precedes(queue[1], queue[j + 1])
          BY <1>5, <2>3, <4>1 DEF Ordered, n
        <4> QED BY <1>4, <1>7, <2>1, <3>1, <4>2
      <3>2. CASE i \in 1 .. l
        BY <1>10, <2>1, <3>2
      <3> QED BY <2>2, <3>1, <3>2
    <2>7. \A i \in 1 .. l + 1 : Sound(logged'[i])
      BY <1>5, <2>1, <2>2, <2>4
    <2> QED BY <1>12, <2>1, <2>5, <2>6, <2>7
  <1> QED BY <1>1, <1>3, <1>13, <1>14

\* A logd that dies takes the queue with it; nothing is sent again.
LEMMA LogdDieArrivals ==
    ASSUME DescriptorInv, ArrivalInv, LogdDie
    PROVE  ArrivalInv'
  <1>1. /\ queue' = <<>> /\ UNCHANGED <<logged, writes>>
        /\ th' = [t \in Threads |-> [th[t] EXCEPT !.excused = TRUE]]
    BY DEF LogdDie
  <1>2. \A u \in Threads : th'[u].pc = th[u].pc /\ th'[u].n = th[u].n
    BY <1>1 DEF DescriptorInv, TypesAreKept, ThreadValues
  <1>3. \A u \in Threads : KeepsUp(u)
    BY <1>1, <1>2, StillKeepsUp
  <1>4. /\ logged \in Seq(Datagrams) /\ \A i \in 1 .. Len(logged) : logged[i] \in Datagrams /\ Sound(logged[i])
    BY ElementOfSeq DEF ArrivalInv
  <1>5. ASSUME NEW i \in 1 .. Len(logged') PROVE Sound(logged[i])'
    <2>1. PICK e \in Datagrams : e = logged'[i] /\ Sound(e)
      BY <1>1, <1>4
    <2>2. Sound(e)'
      BY <1>3, <2>1, SoundStays
    <2> QED BY <2>1, <2>2 DEF Sound, SentBefore
  <1>6. queue' \in Seq(Datagrams) /\ 1 .. Len(queue') = {}
    BY <1>1
  <1>7. Ordered(logged)' /\ Ordered(queue)'
    BY <1>1, <1>6 DEF ArrivalInv, Ordered
  <1>8. \A t \in Threads : th'[t].pc # "idle" => th'[t].n < writes'
    BY <1>3 DEF KeepsUp
  <1> QED BY <1>1, <1>4, <1>5, <1>6, <1>7, <1>8 DEF ArrivalInv

LEMMA NextArrivals ==
    ASSUME WriterConstants, DescriptorInv, DescriptorInv', ArrivalInv, [Next]_vars
    PROVE  ArrivalInv'
  <1>1. ASSUME NEW t \in Threads, Step(t) PROVE ArrivalInv'
    BY <1>1, WriteArrivals, OpeningArrivals, CountingArrivals, WriteVArrivals, ReconnectArrivals
       DEF Step
  <1>2. CASE Close \/ LogdStart \/ UNCHANGED vars
    <2>1. UNCHANGED <<th, queue, logged, writes>>
      BY <1>2 DEF Close, LogdStart, vars, kernel
    <2>2. \A u \in Threads : KeepsUp(u)
      BY <2>1, StillKeepsUp
    <2> QED BY <2>1, <2>2, ArrivalsStay DEF ArrivalInv
  <1> QED BY <1>1, <1>2, HandleDataArrivals, LogdDieArrivals DEF Next

-----------------------------------------------------------------------------
(***************************************************************************)
(* Initial states                                                           *)
(***************************************************************************)

LEMMA NothingTotals ==
    ASSUME IsFiniteSet(Threads), NEW x, \A u \in Threads : x[u].snapshot = 0
    PROVE  Totals(x)[Threads] = 0
  <1> DEFINE T == {n \in Nat : \A S \in SUBSET Threads : Cardinality(S) = n => Totals(x)[S] = 0}
  <1>1. \A u \in Threads : x[u].snapshot \in Nat
    OBVIOUS
  <1>2. 0 \in T
    <2>1. ASSUME NEW S \in SUBSET Threads, Cardinality(S) = 0 PROVE Totals(x)[S] = 0
      <3>1. S = {}
        BY <2>1, RestIsSmaller
      <3> QED BY <1>1, <3>1, TotalsRule
    <2> QED BY <2>1
  <1>3. ASSUME NEW n \in Nat, n \in T PROVE n + 1 \in T
    <2>1. ASSUME NEW S \in SUBSET Threads, Cardinality(S) = n + 1 PROVE Totals(x)[S] = 0
      <3>1. S # {}
        BY <2>1, FS_EmptySet
      <3>2. /\ Pick(S) \in Threads /\ Rest(S) \in SUBSET Threads /\ Cardinality(Rest(S)) = n
        BY <2>1, <3>1, RestIsSmaller
      <3>3. Totals(x)[Rest(S)] = 0
        BY <1>3, <3>2
      <3>4. Totals(x)[S] = x[Pick(S)].snapshot + Totals(x)[Rest(S)]
        BY <1>1, <3>1, TotalsRule
      <3> QED BY <3>2, <3>3, <3>4
    <2> QED BY <2>1
  <1>4. Nat \subseteq T
    <2> HIDE DEF T
    <2> QED BY <1>2, <1>3, Induction
  <1>5. Cardinality(Threads) \in Nat /\ Threads \in SUBSET Threads
    BY FS_CardinalityType
  <1> QED BY <1>4, <1>5

LEMMA InitCounts ==
    ASSUME WriterConstants, Init
    PROVE  CauseInv /\ CountInv
  <1>1. /\ th = [t \in Threads |-> Idle] /\ dropped = 0 /\ failed = 0 /\ reported = 0 /\ forgotten = 0
    BY DEF Init
  <1>2. Idle.pc = "idle" /\ Idle.snapshot = 0
    BY DEF Idle
  <1> HIDE DEF Idle
  <1>3. CauseInv
    BY <1>1, <1>2 DEF CauseInv, Excusable
  <1>4. \A u \in Threads : th[u].snapshot = 0
    BY <1>1, <1>2
  <1>5. IsFiniteSet(Threads)
    BY DEF WriterConstants
  <1>6. Total = 0
    BY <1>4, <1>5, NothingTotals, TotalIsOfThreads
  <1>7. failed = dropped + reported + forgotten + Total
    <2> HIDE DEF Total
    <2> QED BY <1>1, <1>6
  <1>8. DroppedIsAccounted
    BY <1>7, AccountedIsTotal
  <1>9. SnapshotIsHeld
    BY <1>4 DEF SnapshotIsHeld
  <1> HIDE DEF DroppedIsAccounted
  <1> QED BY <1>1, <1>3, <1>8, <1>9 DEF CountInv

LEMMA InitArrivals ==
    ASSUME Init
    PROVE  ArrivalInv
  <1>1. th = [t \in Threads |-> Idle] /\ writes = 0 /\ queue = <<>> /\ logged = <<>>
    BY DEF Init
  <1>2. Idle.pc = "idle"
    BY DEF Idle
  <1> HIDE DEF Idle
  <1>3. 1 .. Len(queue) = {} /\ 1 .. Len(logged) = {} /\ queue \in Seq(Datagrams) /\ logged \in Seq(Datagrams)
    BY <1>1
  <1> QED BY <1>1, <1>2, <1>3 DEF ArrivalInv, Ordered

-----------------------------------------------------------------------------
(***************************************************************************)
(* Theorems                                                                 *)
(***************************************************************************)

(***************************************************************************)
(* The inductive invariant of the write path: what GetSocket() and           *)
(* GetPmsgFd() open, why LogdWrite() refuses a message, where the counts of   *)
(* dropped messages are, and in which order what was sent arrives.           *)
(***************************************************************************)
THEOREM WriterInvariant ==
    ASSUME WriterConstants
    PROVE  Spec => []WriterInv
  <1>1. Init => WriterInv
    BY InitDescriptors, InitCounts, InitArrivals DEF WriterInv
  <1>2. WriterInv /\ [Next]_vars => WriterInv'
    <2> SUFFICES ASSUME WriterInv, [Next]_vars PROVE WriterInv'
      OBVIOUS
    <2>1. DescriptorInv /\ CauseInv /\ CountInv /\ ArrivalInv /\ writes \in Nat /\ dropped \in Nat
      BY DEF WriterInv, CountInv, ArrivalInv
    <2>2. DescriptorInv'
      BY <2>1, NextDescriptors
    <2>3. CauseInv' /\ CountInv' /\ ArrivalInv'
      BY <2>1, <2>2, NextCause, NextCount, NextArrivals
    <2> QED BY <2>2, <2>3 DEF WriterInv
  <1> QED BY <1>1, <1>2, PTL DEF Spec

LEMMA NothingLeaks ==
    ASSUME WriterConstants, DescriptorInv
    PROVE  NoDescriptorLeak
  <1> SUFFICES ASSUME NEW f \in Fds, fds[f].kind \in {"sock", "pmsg"}
               PROVE  Cardinality({s \in Sockets : sock[s] = f} \cup {t \in Threads : th[t].new = f}
                                  \cup {x \in {"pmsg"} : pmsg_fd = f /\ f # 0}) = 1
    BY DEF NoDescriptorLeak
  <1> DEFINE A == {s \in Sockets : sock[s] = f}
             B == {t \in Threads : th[t].new = f}
             C == {x \in {"pmsg"} : pmsg_fd = f /\ f # 0}
             H == A \cup B \cup C
  <1>1. f \in Nat /\ f # NONE /\ (f # 0 => f > 0)
    BY NoneIsApart DEF WriterConstants
  <1>2. HoldersDiffer /\ PublishedIsOpen /\ Holds(f)
    BY DEF DescriptorInv, OpenIsHeld
  <1>3. PICK a : a \in H
    BY <1>2 DEF Holds
  <1>4. ASSUME NEW b \in A, NEW c \in A PROVE b = c
    BY <1>1, <1>2 DEF HoldersDiffer, Sockets
  <1>5. ASSUME NEW b \in B, NEW c \in B PROVE b = c
    BY <1>1, <1>2 DEF HoldersDiffer
  <1>6. ASSUME NEW b \in A, NEW c \in B PROVE FALSE
    BY <1>1, <1>2 DEF HoldersDiffer
  <1>7. ASSUME NEW b \in A, NEW c \in C PROVE FALSE
    BY <1>1, <1>2 DEF PublishedIsOpen, NONE
  <1>8. ASSUME NEW b \in B, NEW c \in C PROVE FALSE
    BY <1>1, <1>2 DEF HoldersDiffer
  <1>9. ASSUME NEW b \in C, NEW c \in C PROVE b = c
    OBVIOUS
  <1> HIDE DEF A, B, C
  <1>10. \A b, c \in H : b = c
    BY <1>4, <1>5, <1>6, <1>7, <1>8, <1>9
  <1>11. H = {a}
    BY <1>3, <1>10
  <1>12. Cardinality(H) = 1
    BY <1>11, FS_Singleton
  <1> QED BY <1>12 DEF A, B, C

(***************************************************************************)
(* A descriptor that GetSocket() or GetPmsgFd() has published is open and of *)
(* its kind until __android_log_close(), and every open one has exactly one  *)
(* holder, however many threads race for it.                                *)
(***************************************************************************)
THEOREM PublishedStaysOpen ==
    ASSUME WriterConstants
    PROVE  Spec => [](PublishedIsOpen /\ NoDescriptorLeak)
  <1>1. WriterInv => PublishedIsOpen /\ NoDescriptorLeak
    BY NothingLeaks DEF WriterInv, DescriptorInv
  <1> QED BY <1>1, WriterInvariant, PTL

(***************************************************************************)
(* Every message LogdWrite() could not send is counted once: in dropped, in  *)
(* the snapshot of a thread between its exchange and its report, in what was *)
(* reported, or in what was taken while "liblog" was not loggable.           *)
(***************************************************************************)
THEOREM DroppedStaysAccounted ==
    ASSUME WriterConstants
    PROVE  Spec => []DroppedIsAccounted
  <1>1. WriterInv => DroppedIsAccounted
    BY DEF WriterInv, CountInv
  <1> QED BY <1>1, WriterInvariant, PTL

(***************************************************************************)
(* LogdWrite() gives a message up only if logd was down at some time during  *)
(* the call, its socket was full, or no descriptor was left: the second      *)
(* attempt after Reconnect() covers every restart of logd.                   *)
(***************************************************************************)
THEOREM RefusedStaysForCause ==
    ASSUME WriterConstants
    PROVE  Spec => []RefusedOnlyForCause
  <1>1. WriterInv => RefusedOnlyForCause
    BY DEF WriterInv, CauseInv, Excusable, RefusedOnlyForCause
  <1> QED BY <1>1, WriterInvariant, PTL

LEMMA InOrder ==
    ASSUME WriterConstants, ArrivalInv
    PROVE  ArriveOnceInOrder
  <1> DEFINE all == logged \o queue
             l   == Len(logged)
             n   == Len(queue)
  <1>1. /\ logged \in Seq(Datagrams) /\ queue \in Seq(Datagrams) /\ l \in Nat /\ n \in Nat
        /\ MaxPayload \in Nat
    BY LenProperties DEF ArrivalInv, WriterConstants
  <1>2. /\ Len(all) = l + n /\ \A i \in 1 .. l : all[i] = logged[i]
        /\ \A i \in l + 1 .. l + n : all[i] = queue[i - l]
    BY <1>1, ConcatProperties
  <1>3. /\ \A i, j \in 1 .. l : i < j => Precedes(logged[i], logged[j])
        /\ \A i, j \in 1 .. n : i < j => Precedes(queue[i], queue[j])
        /\ \A i \in 1 .. l, j \in 1 .. n : Precedes(logged[i], queue[j])
        /\ \A i \in 1 .. l : Sound(logged[i]) /\ logged[i] \in Datagrams
        /\ \A j \in 1 .. n : Sound(queue[j]) /\ queue[j] \in Datagrams
    BY <1>1, ElementOfSeq DEF ArrivalInv, Ordered
  <1> HIDE DEF all, l, n
  <1>4. \A i \in 1 .. l + n :
           \/ i \in 1 .. l
           \/ i \in l + 1 .. l + n /\ i - l \in 1 .. n
    BY <1>1
  <1>5. ASSUME NEW i \in 1 .. l + n, NEW j \in 1 .. l + n, i < j PROVE Precedes(all[i], all[j])
    <2>1. CASE i \in 1 .. l /\ j \in 1 .. l
      BY <1>2, <1>3, <1>5, <2>1
    <2>2. CASE i \in 1 .. l /\ j \in l + 1 .. l + n /\ j - l \in 1 .. n
      BY <1>2, <1>3, <2>2
    <2>3. CASE i \in l + 1 .. l + n /\ i - l \in 1 .. n /\ j \in l + 1 .. l + n /\ j - l \in 1 .. n
      <3>1. i - l < j - l
        BY <1>1, <1>5
      <3> QED BY <1>2, <1>3, <2>3, <3>1
    <2>4. ~(i \in l + 1 .. l + n /\ j \in 1 .. l)
      BY <1>1, <1>5
    <2> QED BY <1>4, <2>1, <2>2, <2>3, <2>4
  <1>6. ASSUME NEW i \in 1 .. l + n PROVE all[i].size = Min({all[i].full, MaxPayload})
    <2>1. PICK d \in Datagrams : d = all[i] /\ Sound(d)
      BY <1>2, <1>3, <1>4
    <2>2. d.full \in Nat /\ d.size = IF d.full <= MaxPayload THEN d.full ELSE MaxPayload
      BY <2>1 DEF Sound, Datagrams
    <2> DEFINE two == {d.full, MaxPayload}
    <2>3. Min(two) \in two /\ \A y \in two : Min(two) <= y
      BY <1>1, <2>2, LeastOf
    <2>4. d.size = Min(two)
      BY <1>1, <2>2, <2>3
    <2> QED BY <2>1, <2>4
  <1> QED BY <1>2, <1>5, <1>6 DEF ArriveOnceInOrder, Precedes, all

(***************************************************************************)
(* What one thread writes reaches the log buffer at most once and in order,  *)
(* the report of dropped messages before the message that carries it, over   *)
(* retries and restarts of logd; and what arrives is the payload up to        *)
(* LOGGER_ENTRY_MAX_PAYLOAD.                                                *)
(***************************************************************************)
THEOREM ArrivalsStayInOrder ==
    ASSUME WriterConstants
    PROVE  Spec => []ArriveOnceInOrder
  <1>1. WriterInv => ArriveOnceInOrder
    BY InOrder DEF WriterInv
  <1> QED BY <1>1, WriterInvariant, PTL
=============================================================================
