------------------------------ MODULE SocketWrite ------------------------------
(***************************************************************************)
(* Writing to a non-blocking connection: TcpSocket::write,                 *)
(* SslSocket::write, TcpSocket::sendFile, SslSocket::sendFile and          *)
(* AbstractSocket::sendStream on top of write, while the peer drains the   *)
(* send buffer of the kernel.  Answer makes the calls.                     *)
(*                                                                         *)
(* A unit of data is its place in the string, stream or file part being    *)
(* sent: 1..size.  0 is a unit that is none of them.                       *)
(***************************************************************************)
EXTENDS Integers, SequencesExt

CONSTANTS
  Kinds,           \* of sockets: subset of {"tcp", "ssl"}
  SOCKET_BUF_SIZE, \* the buffer of sendStream
  SendBuffer,      \* the send buffer of the kernel
  MaxDrains,       \* bound: how often the peer drains it during one call
  PageSize         \* mmap wants offsets that are multiples of it

ASSUME WriteAssumption ==
  /\ Kinds \subseteq {"tcp", "ssl"}
  /\ SOCKET_BUF_SIZE \in Nat \ {0}
  /\ SendBuffer \in Nat
  /\ MaxDrains \in Nat
  /\ PageSize \in Nat \ {0}

VARIABLES
  kind,     \* TcpSocket or SslSocket
  room,     \* free space in the send buffer
  length,   \* of the file as it is now
  pc,       \* "idle": no call is being made
  call,     \* the call being made: "write", "sendStream" or "sendFile"
  size,     \* length of the string, the stream or the part of the file
  offset,   \* sendFile: where the part starts
  streamed, \* sendStream: how much was read from the stream
  eof,      \* stream->eof()
  count,    \* the argument of write
  buf,      \* how far write has got: buf points at the place buf + 1
  leftSize,
  ret,      \* what the call returns
  sent,     \* the units the kernel has taken, in order
  drains

args == <<kind, length, call, size, offset>>
callState == <<pc, call, size, offset, streamed, eof, count, buf, leftSize, ret, sent, drains>>
socketVars == <<kind, room, length, callState>>

Least(m, n) == IF m <= n THEN m ELSE n
Prefix(n) == [i \in 1..n |-> i]

\* What lies behind the argument of write is none of the data, and so are the zeros
\* that a mapping shows behind the end of its file.
Unit(i) ==
  IF i > buf + leftSize \/ (kind = "ssl" /\ call = "sendFile" /\ offset + i > length)
  THEN 0 ELSE i
Units(n) == [i \in 1..n |-> Unit(buf + i)]

\* A call is made, or none.
Begin(at, c, s, o) ==
  /\ pc' = at /\ call' = c /\ size' = s /\ offset' = o
  /\ streamed' = 0 /\ eof' = FALSE
  /\ count' = 0 /\ buf' = 0 /\ leftSize' = 0
  /\ ret' = 0 /\ sent' = <<>> /\ drains' = 0
NoCall == Begin("idle", "write", 0, 0)

InitSocket ==
  /\ kind \in Kinds /\ room = SendBuffer
  /\ pc = "idle" /\ call = "write" /\ size = 0 /\ offset = 0
  /\ streamed = 0 /\ eof = FALSE
  /\ count = 0 /\ buf = 0 /\ leftSize = 0
  /\ ret = 0 /\ sent = <<>> /\ drains = 0

-----------------------------------------------------------------------------
\* write(buf, count) at place p: nothing to do is an error.
CallWrite(p, n) ==
  /\ count' = n
  /\ buf' = p
  /\ leftSize' = n
  /\ IF n = 0 THEN pc' = "written" /\ ret' = -1
              ELSE pc' = "write" /\ UNCHANGED ret

Write ==
  /\ pc = "start" /\ call = "write"
  /\ CallWrite(0, size)
  /\ UNCHANGED <<args, streamed, eof, sent, room, drains>>

\* TcpSocket::write passes count again after a short write.  An interrupted ::write has
\* taken nothing and is called again with the same arguments: a stuttering step.
Asks == count

\* ::write takes what fits.  When that is more than was left, leftSize wraps and is
\* not 0 before the send buffer is full: it is shown as a negative number.
TcpTakes ==
  /\ pc = "write" /\ kind = "tcp"
  /\ room > 0
  /\ LET n == Least(Asks, room) IN
       /\ sent' = sent \o Units(n)
       /\ room' = room - n
       /\ buf' = buf + n
       /\ leftSize' = leftSize - n
       /\ IF leftSize' = 0 THEN pc' = "written" /\ ret' = count
                           ELSE UNCHANGED <<pc, ret>>
  /\ UNCHANGED <<args, streamed, eof, count, drains>>

\* Mutant of Unsent: short writes are reported as success.
Unsent_none == 0
\* What a failing ::write leaves.
Unsent == leftSize

\* EAGAIN: count - leftSize, which is short.
TcpFull ==
  /\ pc = "write" /\ kind = "tcp"
  /\ room = 0
  /\ pc' = "written"
  /\ ret' = count - Unsent
  /\ UNCHANGED <<args, streamed, eof, count, buf, leftSize, sent, room, drains>>

\* SslSocket::sendFile: the part is where the mapping is, and the file has not lost
\* the page its end lies on.  Otherwise reading it raises a signal.
Mapped ==
  call = "sendFile" =>
    /\ offset % PageSize = 0
    /\ ((offset + size - 1) \div PageSize) * PageSize < length

\* SSL_write, without partial writes: all or an error, behind the records that fit.
SslTakes ==
  /\ pc = "write" /\ kind = "ssl" /\ Mapped
  /\ IF count <= room
     THEN /\ sent' = sent \o Units(count)
          /\ room' = room - count
          /\ ret' = count
     ELSE \E n \in 0..room :
          /\ sent' = sent \o Units(n)
          /\ room' = room - n
          /\ ret' = -1
  /\ pc' = "written"
  /\ UNCHANGED <<args, streamed, eof, count, buf, leftSize, drains>>

SslFaults ==
  /\ pc = "write" /\ kind = "ssl" /\ ~Mapped
  /\ pc' = "fault"
  /\ UNCHANGED <<args, streamed, eof, count, buf, leftSize, ret, sent, room, drains>>

\* write returns to process (httpservices.cpp) or to sendFile.
WriteReturns ==
  /\ pc = "written" /\ call # "sendStream"
  /\ pc' = "returned"
  /\ UNCHANGED <<args, streamed, eof, count, buf, leftSize, ret, sent, room, drains>>

-----------------------------------------------------------------------------
\* sendStream: stream->read, which sees the end only when it falls short.
ReadStream ==
  /\ pc = "start" /\ call = "sendStream" /\ ~eof
  /\ LET gcount == Least(SOCKET_BUF_SIZE, size - streamed) IN
       /\ CallWrite(streamed, gcount)
       /\ streamed' = streamed + gcount
       /\ eof' = (gcount < SOCKET_BUF_SIZE)
  /\ UNCHANGED <<args, sent, room, drains>>

\* Mutant of WroteAll: the result of write is ignored.
WroteAll_always == TRUE
\* write(...) == stream->gcount()
WroteAll == ret = count

\* It gives up (FALSE is 0) or goes on.
StreamWritten ==
  /\ pc = "written" /\ call = "sendStream"
  /\ IF WroteAll THEN pc' = "start" /\ UNCHANGED ret ELSE pc' = "returned" /\ ret' = 0
  /\ UNCHANGED <<args, streamed, eof, count, buf, leftSize, sent, room, drains>>

\* while(!stream->eof()) ends: TRUE is 1.
StreamEnds ==
  /\ pc = "start" /\ call = "sendStream" /\ eof
  /\ pc' = "returned"
  /\ ret' = 1
  /\ UNCHANGED <<args, streamed, eof, count, buf, leftSize, sent, room, drains>>

-----------------------------------------------------------------------------
\* TcpSocket::sendFile; the state of its loop is count, buf and leftSize.
SendFile ==
  /\ pc = "start" /\ call = "sendFile" /\ kind = "tcp"
  /\ count' = size
  /\ buf' = 0
  /\ leftSize' = size
  /\ pc' = "sendfile"
  /\ UNCHANGED <<args, streamed, eof, ret, sent, room, drains>>

\* Mutant of FileAsks: count, as write does.
FileAsks_count == count
FileAsks == leftSize

\* What is left of the part, if the file has got shorter.
Available == IF offset + buf < length THEN length - offset - buf ELSE 0

\* sendfile64 takes what fits; what it sends depends on its own offset only.
FileTakes ==
  /\ pc = "sendfile"
  /\ room > 0 /\ Available > 0
  /\ LET n == Least(Least(FileAsks, room), Available) IN
       /\ sent' = sent \o Units(n)
       /\ room' = room - n
       /\ buf' = buf + n
       /\ leftSize' = leftSize - n
       /\ IF leftSize' = 0 THEN pc' = "returned" /\ ret' = count
                           ELSE UNCHANGED <<pc, ret>>
  /\ UNCHANGED <<args, streamed, eof, count, drains>>

\* Nothing fits or there is nothing more: the short count is returned.
FileFull ==
  /\ pc = "sendfile"
  /\ room = 0 \/ Available = 0
  /\ pc' = "returned"
  /\ ret' = count - Unsent
  /\ UNCHANGED <<args, streamed, eof, count, buf, leftSize, sent, room, drains>>

\* SslSocket::sendFile: mmap, whose result is not looked at, then write.
SslSendFile ==
  /\ pc = "start" /\ call = "sendFile" /\ kind = "ssl"
  /\ CallWrite(0, size)
  /\ UNCHANGED <<args, streamed, eof, sent, room, drains>>

\* The peer takes some of what was sent.
Drain ==
  /\ pc \notin {"returned", "fault"}
  /\ drains' = IF pc = "idle" THEN drains ELSE drains + 1
  /\ drains' <= MaxDrains
  /\ \E r \in room + 1..SendBuffer : room' = r
  /\ UNCHANGED <<pc, args, streamed, eof, count, buf, leftSize, ret, sent>>

Thread ==
  \/ Write \/ TcpTakes \/ TcpFull \/ SslTakes \/ SslFaults \/ WriteReturns
  \/ ReadStream \/ StreamWritten \/ StreamEnds
  \/ SendFile \/ FileTakes \/ FileFull \/ SslSendFile

-----------------------------------------------------------------------------
\* The peer makes room during a TcpSocket::write, which asks for count again.
Refilled == kind = "tcp" /\ call # "sendFile" /\ drains > 0

\* A file that is being sent over TLS has lost some of the part.
PartLost == kind = "ssl" /\ call = "sendFile" /\ offset + size > length

\* The last chunk of a stream is empty, for which write returns -1.
EndsEmpty == call = "sendStream" /\ size % SOCKET_BUF_SIZE = 0

(* The peer gets the data from its beginning, in order, nothing twice and    *)
(* nothing that is not part of it ("Write Header and text body").            *)
SentIsPrefix == Len(sent) <= size /\ sent = Prefix(Len(sent))

(* Every call keeps to its data but a TcpSocket::write that is refilled      *)
(* (answer_fails.cfg) and a mapped file that gets shorter.                   *)
CallSendsPrefix == ~Refilled /\ ~PartLost => SentIsPrefix

(* process compares the result with the length and keeps or closes the       *)
(* connection by it: success is reported exactly when all of the data was    *)
(* sent, and only the data.                                                  *)
Succeeded == IF call = "sendStream" THEN ret = 1 ELSE ret = size
SuccessExact == pc = "returned" => (Succeeded <=> sent = Prefix(size))

(* It is so for every call but those of a stream that is a multiple of the   *)
(* buffer, which fail (answer_fails.cfg), and for a lost part.               *)
CallSuccessExact == ~PartLost /\ ~EndsEmpty => SuccessExact

(* The inductive invariant.  What write, or the loop of sendFile, was given   *)
(* of the data ends at the place Offered; of what is sent everything up to   *)
(* there is its data and the rest is not.                                    *)
Offered == IF call = "sendStream" THEN streamed ELSE size
Shown(n, last) == [i \in 1..n |-> IF i <= last THEN i ELSE 0]

TypeOK ==
  /\ kind \in Kinds
  /\ room \in 0..SendBuffer
  /\ length \in Nat
  /\ pc \in {"idle", "start", "write", "written", "sendfile", "returned", "fault"}
  /\ call \in {"write", "sendStream", "sendFile"}
  /\ size \in Nat /\ offset \in Nat /\ streamed \in 0..size
  /\ eof \in BOOLEAN
  /\ count \in Nat /\ buf \in Nat /\ leftSize \in Int /\ ret \in Int
  /\ sent \in Seq(Nat)
  /\ drains \in Nat

\* Only a stream may be empty; its chunks are full but the last one.
CallFits ==
  /\ pc = "idle" => call = "write"
  /\ call # "sendStream" => streamed = 0 /\ (pc # "idle" => size > 0)
  /\ call = "sendStream" =>
       IF eof THEN streamed = size
              ELSE \E chunks \in 0..streamed : streamed = chunks * SOCKET_BUF_SIZE

\* Where a call stands, and how much it has sent by then.
SentFits ==
  /\ ~PartLost => sent = Shown(Len(sent), Offered)
  /\ ~Refilled => Len(sent) <= Offered
  /\ pc \in {"idle", "start"} => Len(sent) = streamed
  /\ pc \in {"write", "written"} =>
       /\ call = "sendFile" => kind = "ssl"
       /\ call # "sendStream" => count = size
  /\ pc = "write" =>
       /\ count > 0 /\ leftSize # 0
       /\ buf + leftSize = Offered /\ Len(sent) = buf
       /\ kind = "ssl" => leftSize = count
       /\ ~Refilled => leftSize = count \/ (room = 0 /\ leftSize > 0)
  /\ pc = "written" =>
       IF ret = count THEN Len(sent) = Offered ELSE EndsEmpty \/ Len(sent) # Offered
  /\ pc = "sendfile" =>
       /\ call = "sendFile" /\ kind = "tcp" /\ count = size
       /\ leftSize > 0 /\ buf + leftSize = size /\ Len(sent) = buf
  /\ pc = "returned" =>
       IF Succeeded THEN Len(sent) = size /\ Offered = size
                    ELSE EndsEmpty \/ Len(sent) # Offered

SocketInv == TypeOK /\ CallFits /\ SentFits

(* sendFile over TLS finds the part of the file in memory (answer_fails.cfg: *)
(* it does not when the part starts within a page).                          *)
PartIsMapped == pc # "fault"
=============================================================================
