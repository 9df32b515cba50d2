------------------------------ MODULE SocketRead ------------------------------
(***************************************************************************)
(* Reading a connection: AbstractSocket::read(std::string &) over          *)
(* TcpSocket::read or SslSocket::read (src/abstract/abstractsocket.cpp,    *)
(* src/core/tcpsocket.cpp, src/core/sslsocket.cpp), in the thread of an    *)
(* event loop, while the client goes on sending.  Bytes are numbered in    *)
(* the order in which the client sends them.                               *)
(***************************************************************************)
EXTENDS Integers, SequencesExt

CONSTANTS
  Kinds,          \* of sockets: subset of {"tcp", "ssl"}
  SOCKET_BUF_SIZE,
  MaxBytes,       \* bound: bytes the client sends
  MaxInterrupts   \* bound: system calls of the thread that fail with EINTR

ASSUME ReadAssumption ==
  /\ Kinds \subseteq {"tcp", "ssl"}
  /\ SOCKET_BUF_SIZE \in Nat \ {0}
  /\ MaxBytes \in Nat
  /\ MaxInterrupts \in Nat

VARIABLES
  kind,      \* TcpSocket or SslSocket
  pc,        \* where the thread is
  buffer,    \* the caller's string, up to start
  space,     \* what was stored behind start, at buf
  leftSize,
  errno,     \* of the thread; only a call that fails sets it
  first,     \* number of the first byte this turn may read
  taken,     \* bytes the kernel (or the TLS layer) has handed out
  arrived,   \* bytes that have arrived
  finished,  \* the client has closed its side
  edge,      \* epoll has an edge to report
  interrupts

thread == <<pc, buffer, space, leftSize, errno, first, taken>>
client == <<arrived, finished>>
vars == <<kind, thread, client, edge, interrupts>>

Available == arrived - taken
Bytes(from, n) == [i \in 1..n |-> from + i]
Least(m, n) == IF m <= n THEN m ELSE n

Init ==
  /\ kind \in Kinds
  /\ pc = "idle"
  /\ buffer = <<>>
  /\ space = <<>>
  /\ leftSize = 0
  /\ errno = "EAGAIN"
  /\ first = 1
  /\ taken = 0
  /\ arrived = 0
  /\ finished = FALSE
  /\ edge = FALSE
  /\ interrupts = 0

-----------------------------------------------------------------------------
\* epoll_wait takes the edge.  The client has gone: an error, the socket is closed.
HangUp ==
  /\ pc = "idle"
  /\ edge /\ finished
  /\ edge' = FALSE
  /\ pc' = "closed"
  /\ UNCHANGED <<buffer, space, leftSize, errno, first, taken, client, interrupts>>

\* Nothing is left of what gave the edge.
Forget ==
  /\ pc = "idle"
  /\ edge /\ ~finished
  /\ Available = 0
  /\ edge' = FALSE
  /\ UNCHANGED <<thread, client, interrupts>>

\* There is input: the event loop has process call read with the empty m_rawData.
Begin ==
  /\ pc = "idle"
  /\ edge /\ ~finished
  /\ Available > 0
  /\ edge' = FALSE
  /\ buffer' = <<>>
  /\ first' = taken + 1
  /\ pc' = "outer"
  /\ UNCHANGED <<space, leftSize, errno, taken, client, interrupts>>

\* epoll_wait in the same thread fails with EINTR; nothing clears errno.
WaitInterrupted ==
  /\ pc = "idle"
  /\ interrupts < MaxInterrupts
  /\ interrupts' = interrupts + 1
  /\ errno' = "EINTR"
  /\ UNCHANGED <<pc, buffer, space, leftSize, first, taken, client, edge>>

Room == SOCKET_BUF_SIZE

\* One turn of AbstractSocket::read: room for SOCKET_BUF_SIZE bytes.
Allocate ==
  /\ pc = "outer"
  /\ space' = <<>>
  /\ leftSize' = Room
  /\ pc' = "inner"
  /\ UNCHANGED <<buffer, errno, first, taken, client, edge, interrupts>>

\* Mutant of KeepsReading: one turn per event.
KeepsReading_once(n) == FALSE
\* while(ret == SOCKET_BUF_SIZE)
KeepsReading(n) == n = SOCKET_BUF_SIZE

\* read(buf, count) has returned n: the string is cut to what was read.
Returns(n, cells) ==
  /\ buffer' = IF n <= 0 THEN buffer ELSE buffer \o SubSeq(cells, 1, n)
  /\ pc' = IF KeepsReading(n) THEN "outer" ELSE "parse"

\* Mutant of TcpAsks: count instead of what is left.
TcpAsks_count == SOCKET_BUF_SIZE
\* TcpSocket::read asks for what is left.
TcpAsks == leftSize
\* SslSocket::read asks for count every time.
SslAsks == SOCKET_BUF_SIZE

\* The call gets n bytes.  More than there is room for: the string is overrun.
Gets(n) ==
  /\ taken' = taken + n
  /\ space' = space \o Bytes(taken, n)
  /\ IF n > leftSize
     THEN pc' = "overrun" /\ UNCHANGED <<buffer, leftSize>>
     ELSE /\ leftSize' = leftSize - n
          /\ IF leftSize' = 0 THEN Returns(SOCKET_BUF_SIZE, space')
                              ELSE UNCHANGED <<buffer, pc>>
  /\ UNCHANGED <<errno, first, client, edge, interrupts>>

\* ::read gives what is there; SSL_read at most one record of it.
TcpGets ==
  /\ pc = "inner" /\ kind = "tcp"
  /\ Available > 0
  /\ Gets(Least(TcpAsks, Available))

SslGets ==
  /\ pc = "inner" /\ kind = "ssl"
  /\ \E n \in 1..Least(SslAsks, Available) : Gets(n)

\* Mutant of TcpReturns: what the last call returned.
TcpReturns_last == 0
\* count - leftSize
TcpReturns == SOCKET_BUF_SIZE - leftSize

\* Mutant of Retries: EAGAIN as well.
Retries_always(reason) == TRUE
\* errno == EINTR
Retries(reason) == reason = "EINTR"

\* The call gets nothing.  TcpSocket::read takes errno for the reason.
TcpGetsNothing(reason) ==
  /\ errno' = reason
  /\ IF Retries(reason) THEN UNCHANGED <<pc, buffer>> ELSE Returns(TcpReturns, space)
  /\ UNCHANGED <<space, leftSize, first, taken, client, edge>>

\* -1 and EAGAIN, for nothing is there.
TcpEmpty ==
  /\ pc = "inner" /\ kind = "tcp"
  /\ Available = 0 /\ ~finished
  /\ TcpGetsNothing("EAGAIN")
  /\ UNCHANGED interrupts

\* -1 and EINTR.
TcpInterrupted ==
  /\ pc = "inner" /\ kind = "tcp"
  /\ interrupts < MaxInterrupts
  /\ interrupts' = interrupts + 1
  /\ TcpGetsNothing("EINTR")

\* 0, the end of the data; errno is what it was.
TcpEnd ==
  /\ pc = "inner" /\ kind = "tcp"
  /\ Available = 0 /\ finished
  /\ TcpGetsNothing(errno)
  /\ UNCHANGED interrupts

\* SSL_read fails, for nothing is there: SslSocket::read returns its -1 or 0.
SslGetsNothing ==
  /\ pc = "inner" /\ kind = "ssl"
  /\ Available = 0
  /\ Returns(0, space)
  /\ UNCHANGED <<space, leftSize, errno, first, taken, client, edge, interrupts>>

\* The request has been parsed and answered; back to the event loop.
Parse ==
  /\ pc = "parse"
  /\ pc' = "idle"
  /\ UNCHANGED <<buffer, space, leftSize, errno, first, taken, client, edge, interrupts>>

Thread ==
  \/ HangUp \/ Forget \/ Begin \/ Allocate \/ Parse
  \/ TcpGets \/ TcpEmpty \/ TcpEnd
  \/ SslGets \/ SslGetsNothing

\* The client sends n bytes or closes; either gives an edge.
Arrive(n) ==
  /\ ~finished
  /\ arrived + n <= MaxBytes
  /\ arrived' = arrived + n
  /\ edge' = TRUE
  /\ UNCHANGED <<thread, finished, interrupts>>

Finish ==
  /\ ~finished
  /\ finished' = TRUE
  /\ edge' = TRUE
  /\ UNCHANGED <<thread, arrived, interrupts>>

Client == (\E n \in 1..MaxBytes : Arrive(n)) \/ Finish

Signal == WaitInterrupted \/ TcpInterrupted

Next == (Thread \/ Signal \/ Client) /\ UNCHANGED kind

Spec == Init /\ [][Next]_vars

\* The thread goes on; nobody has to send, close or interrupt.
FairSpec == Spec /\ WF_vars(Thread /\ UNCHANGED kind)

-----------------------------------------------------------------------------
(* Types; no more is taken from the socket than has arrived.                 *)
TypeOK ==
  /\ kind \in Kinds
  /\ pc \in {"idle", "outer", "inner", "parse", "overrun", "closed"}
  /\ buffer \in Seq(1..MaxBytes)
  /\ space \in Seq(1..MaxBytes)
  /\ leftSize \in 0..SOCKET_BUF_SIZE
  /\ errno \in {"EAGAIN", "EINTR"}
  /\ first \in 1..MaxBytes + 1
  /\ taken \in 0..arrived
  /\ arrived \in 0..MaxBytes
  /\ finished \in BOOLEAN
  /\ edge \in BOOLEAN
  /\ interrupts \in 0..MaxInterrupts

(* A TcpSocket never stores behind the room it was given, however short the  *)
(* reads are (an SslSocket asks for count again after a short record).       *)
TcpKeepsToBuffer == pc = "overrun" => kind = "ssl"

(* What was taken from the socket is in the string, in order, when it is     *)
(* parsed: nothing is dropped or doubled at the seams of the buffers.        *)
ReadDelivers == pc = "parse" => buffer = Bytes(first - 1, taken + 1 - first)

(* A TCP socket delivers; an SslSocket drops what it has read of the last    *)
(* buffer when SSL_read has no more, so ReadDelivers is not true of it.      *)
TcpReadDelivers == kind = "tcp" => ReadDelivers

(* Edge-triggered epoll: what has arrived and was not read has an edge       *)
(* pending, or the thread will ask the socket again.  This is why the event  *)
(* loop may take process for reading everything (ReadAll of EventLoop).      *)
Drained == arrived > taken /\ pc \in {"idle", "parse"} => edge

(* The inductive invariant: within a turn, what is missing from the room is  *)
(* what was stored in it; of a TcpSocket the string, continued by the room,  *)
(* is at every moment all that was taken since the event.                    *)
TakenThisTurn == Bytes(first - 1, taken + 1 - first)
ReadInv ==
  /\ TypeOK
  /\ first <= taken + 1
  /\ Drained
  /\ pc = "inner" => leftSize > 0 /\ Len(space) = SOCKET_BUF_SIZE - leftSize
  /\ kind = "tcp" =>
       /\ pc # "overrun"
       /\ pc \in {"outer", "parse"} => buffer = TakenThisTurn
       /\ pc = "inner" => buffer \o space = TakenThisTurn

(* read comes back, also from a socket whose client has gone.                *)
ReadReturns == (pc = "outer") ~> (pc = "parse")

(* It does unless a system call of the thread was interrupted before (an old *)
(* EINTR makes the end of the data look like an interrupted call) or it has   *)
(* stored behind its room.                                                   *)
UninterruptedReadReturns ==
  (pc = "outer") ~> (pc \in {"parse", "overrun"} \/ interrupts > 0)
=============================================================================
