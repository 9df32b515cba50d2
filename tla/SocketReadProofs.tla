---------------------------- MODULE SocketReadProofs ----------------------------
(***************************************************************************)
(* Proofs about SocketRead for any size of the buffer, any number of bytes *)
(* and of interrupted calls: what a TcpSocket reads is what the client has *)
(* sent, in order, within the room it was given, and nothing is left in    *)
(* the socket without an edge.  The string is right when read returns      *)
(* because string and room together were right after each call.            *)
(***************************************************************************)
EXTENDS SocketRead, SequenceTheorems, TLAPS

-----------------------------------------------------------------------------
(* Runs of bytes. *)

LEMMA BytesShape ==
  ASSUME NEW a \in Int, NEW n \in Nat
  PROVE  /\ Bytes(a, n) \in Seq(Int) /\ Len(Bytes(a, n)) = n
         /\ \A i \in 1..n : Bytes(a, n)[i] = a + i
<1>1. Bytes(a, n) = [i \in 1..n |-> a + i]
  BY DEF Bytes
<1>2. Bytes(a, n) \in [1..n -> Int]
  BY <1>1
<1>3. Bytes(a, n) \in Seq(Int) /\ Len(Bytes(a, n)) = n
  BY <1>2, LenProperties
<1>. QED BY <1>1, <1>3

(* Bytes that come next continue the ones before.                            *)
LEMMA BytesConcat ==
  ASSUME NEW a \in Int, NEW m \in Nat, NEW n \in Nat
  PROVE  Bytes(a, m) \o Bytes(a + m, n) = Bytes(a, m + n)
<1> DEFINE r == Bytes(a, m)
           s == Bytes(a + m, n)
           t == Bytes(a, m + n)
<1>1. /\ r \in Seq(Int) /\ Len(r) = m /\ \A i \in 1..m : r[i] = a + i
      /\ s \in Seq(Int) /\ Len(s) = n /\ \A i \in 1..n : s[i] = a + m + i
      /\ t \in Seq(Int) /\ Len(t) = m + n /\ \A i \in 1..m + n : t[i] = a + i
  BY BytesShape
<1>. HIDE DEF r, s, t
<1>2. /\ r \o s \in Seq(Int) /\ Len(r \o s) = m + n
      /\ \A i \in 1..m + n : (r \o s)[i] = IF i <= m THEN r[i] ELSE s[i - m]
  BY <1>1, ConcatProperties
<1>3. \A i \in 1..m + n : (r \o s)[i] = a + i
  <2> TAKE i \in 1..m + n
  <2>0. i <= m \/ i > m
    OBVIOUS
  <2>1. CASE i <= m
    BY <2>1, <1>1, <1>2
  <2>2. CASE i > m
    <3>1. i - m \in 1..n
      BY <2>2
    <3>. QED BY <2>2, <3>1, <1>1, <1>2
  <2>. QED BY <2>0, <2>1, <2>2
<1>4. \A i \in 1..Len(r \o s) : (r \o s)[i] = t[i]
  BY <1>1, <1>2, <1>3
<1>5. r \o s = t
  BY <1>1, <1>2, <1>4, SeqEqual
<1>. QED BY <1>5 DEF r, s, t

(* Bytes that have arrived are numbers up to MaxBytes.                       *)
LEMMA BytesNumbered ==
  ASSUME NEW a \in Nat, NEW n \in Nat, NEW m \in Nat, a + n <= m
  PROVE  Bytes(a, n) \in Seq(1..m)
<1>1. Bytes(a, n) = [i \in 1..n |-> a + i]
  BY DEF Bytes
<1>2. Bytes(a, n) \in [1..n -> 1..m]
  BY <1>1
<1>. QED BY <1>2

LEMMA NoBytes == ASSUME NEW a \in Int PROVE Bytes(a, 0) = <<>>
<1>1. Bytes(a, 0) \in Seq(Int) /\ Len(Bytes(a, 0)) = 0
  BY BytesShape
<1>. QED BY <1>1, EmptySeq

(* Cutting the string to what was read keeps all that was stored.            *)
LEMMA CutKeepsAll ==
  ASSUME NEW S, NEW b \in Seq(S), NEW c \in Seq(S), NEW n, n = Len(c)
  PROVE  /\ (IF n <= 0 THEN b ELSE b \o SubSeq(c, 1, n)) = b \o c
         /\ b \o c \in Seq(S)
<1>0. n \in Nat /\ b \o c \in Seq(S)
  BY LenProperties, ConcatProperties
<1>1. CASE n = 0
  <2>1. c = <<>>
    BY <1>1, EmptySeq
  <2>2. b \o c = b
    BY <2>1, ConcatEmptySeq
  <2>. QED BY <1>0, <1>1, <2>2
<1>2. CASE n > 0
  <2>1. SubSeq(c, 1, n) = c
    BY SubSeqFull
  <2>. QED BY <1>0, <1>2, <2>1
<1>. QED BY <1>0, <1>1, <1>2

-----------------------------------------------------------------------------
(* A call that gets bytes. *)

(* What was taken, continued by the next n bytes.                            *)
LEMMA TurnGrows ==
  ASSUME NEW f \in Nat \ {0}, NEW k \in Nat, NEW n \in Nat, f <= k + 1
  PROVE  Bytes(f - 1, k + 1 - f) \o Bytes(k, n) = Bytes(f - 1, k + n + 1 - f)
<1>1. k + 1 - f \in Nat /\ f - 1 \in Int /\ (f - 1) + (k + 1 - f) = k
      /\ (k + 1 - f) + n = k + n + 1 - f
  OBVIOUS
<1>2. Bytes(f - 1, k + 1 - f) \o Bytes((f - 1) + (k + 1 - f), n)
        = Bytes(f - 1, (k + 1 - f) + n)
  BY <1>1, BytesConcat
<1>. QED BY <1>1, <1>2

(* The room after a call that gets n bytes.                                  *)
LEMMA RoomGrows ==
  ASSUME ReadInv, pc = "inner", NEW n \in 1..Available
  PROVE  /\ space \o Bytes(taken, n) \in Seq(1..MaxBytes)
         /\ Len(space \o Bytes(taken, n)) = SOCKET_BUF_SIZE - leftSize + n
         /\ kind = "tcp" =>
              buffer \o (space \o Bytes(taken, n))
                = Bytes(first - 1, taken + n + 1 - first)
<1>1. /\ taken \in Nat /\ n \in Nat /\ taken + n <= MaxBytes
      /\ first \in Nat \ {0} /\ first <= taken + 1
      /\ MaxBytes \in Nat
  BY ReadAssumption DEF ReadInv, TypeOK, Available
<1>2. /\ buffer \in Seq(1..MaxBytes) /\ space \in Seq(1..MaxBytes)
      /\ Len(space) = SOCKET_BUF_SIZE - leftSize
  BY DEF ReadInv, TypeOK
<1>3. Bytes(taken, n) \in Seq(1..MaxBytes) /\ Len(Bytes(taken, n)) = n
  <2>1. taken \in Int
    BY <1>1
  <2>2. Bytes(taken, n) \in Seq(1..MaxBytes)
    BY <1>1, BytesNumbered
  <2>3. Len(Bytes(taken, n)) = n
    BY <1>1, <2>1, BytesShape
  <2>. QED BY <2>2, <2>3
<1>4. /\ space \o Bytes(taken, n) \in Seq(1..MaxBytes)
      /\ Len(space \o Bytes(taken, n)) = SOCKET_BUF_SIZE - leftSize + n
  BY <1>2, <1>3, ConcatProperties
<1>5. ASSUME kind = "tcp"
      PROVE  buffer \o (space \o Bytes(taken, n))
               = Bytes(first - 1, taken + n + 1 - first)
  <2>1. buffer \o space = Bytes(first - 1, taken + 1 - first)
    BY <1>5 DEF ReadInv, TakenThisTurn
  <2>2. (buffer \o space) \o Bytes(taken, n) = buffer \o (space \o Bytes(taken, n))
    BY <1>2, <1>3, ConcatAssociative
  <2>3. Bytes(first - 1, taken + 1 - first) \o Bytes(taken, n)
          = Bytes(first - 1, taken + n + 1 - first)
    BY <1>1, TurnGrows
  <2>. QED BY <2>1, <2>2, <2>3
<1>. QED BY <1>4, <1>5

LEMMA GetsKeeps ==
  ASSUME ReadInv, pc = "inner", NEW n \in 1..Available, Gets(n), kind' = kind,
         kind = "tcp" => n <= leftSize
  PROVE  ReadInv'
<1> DEFINE room == space \o Bytes(taken, n)
<1>1. /\ room \in Seq(1..MaxBytes)
      /\ Len(room) = SOCKET_BUF_SIZE - leftSize + n
      /\ kind = "tcp" => buffer \o room = Bytes(first - 1, taken + n + 1 - first)
  BY RoomGrows
<1>2. /\ taken' = taken + n /\ space' = room
      /\ UNCHANGED <<errno, first, arrived, finished, edge, interrupts>>
  BY DEF Gets, client
<1>3. /\ TypeOK /\ first <= taken + 1 /\ leftSize \in 0..SOCKET_BUF_SIZE
      /\ leftSize > 0 /\ taken + n \in 0..arrived
      /\ buffer \in Seq(1..MaxBytes) /\ SOCKET_BUF_SIZE \in Nat \ {0}
  BY ReadAssumption DEF ReadInv, TypeOK, Available
<1>. HIDE DEF room
<1>4. CASE n > leftSize
  <2>1. kind # "tcp" /\ pc' = "overrun" /\ UNCHANGED <<buffer, leftSize>>
    BY <1>3, <1>4 DEF Gets, TypeOK
  <2>2. TypeOK'
    BY <1>1, <1>2, <1>3, <2>1 DEF TypeOK
  <2>. QED BY <1>2, <1>3, <2>1, <2>2 DEF ReadInv, TypeOK, Drained
<1>5. CASE n < leftSize
  <2>1. leftSize' = leftSize - n /\ UNCHANGED <<buffer, pc>>
    BY <1>3, <1>5 DEF Gets
  <2>2. TypeOK'
    BY <1>1, <1>2, <1>3, <1>5, <2>1 DEF TypeOK
  <2>3. kind' = "tcp" => buffer' \o space' = TakenThisTurn'
    BY <1>1, <1>2, <2>1 DEF TakenThisTurn
  <2>4. leftSize' > 0 /\ Len(space') = SOCKET_BUF_SIZE - leftSize'
    BY <1>1, <1>2, <1>3, <1>5, <2>1
  <2>. QED BY <1>2, <1>3, <2>1, <2>2, <2>3, <2>4 DEF ReadInv, TypeOK, Drained
<1>6. CASE n = leftSize
  <2>1. leftSize' = 0 /\ Returns(SOCKET_BUF_SIZE, room)
    BY <1>2, <1>3, <1>6 DEF Gets
  <2>2. pc' = "outer"
    BY <2>1 DEF Returns, KeepsReading
  <2>3. Len(room) = SOCKET_BUF_SIZE
    BY <1>1, <1>3, <1>6
  <2>4. buffer' = buffer \o room /\ buffer' \in Seq(1..MaxBytes)
    BY <1>1, <1>3, <2>1, <2>3, CutKeepsAll DEF Returns
  <2>5. TypeOK'
    BY <1>1, <1>2, <1>3, <2>1, <2>2, <2>4 DEF TypeOK
  <2>6. kind' = "tcp" => buffer' = TakenThisTurn'
    BY <1>1, <1>2, <2>4 DEF TakenThisTurn
  <2>. QED BY <1>2, <1>3, <2>2, <2>5, <2>6 DEF ReadInv, TypeOK, Drained
<1>. QED BY <1>3, <1>4, <1>5, <1>6 DEF TypeOK

-----------------------------------------------------------------------------
(* A call that gets nothing. *)

(* read returns what is in the room, and the socket has no more.             *)
LEMMA ReturnsKeeps ==
  ASSUME ReadInv, pc = "inner", NEW n \in 0..SOCKET_BUF_SIZE - 1,
         Returns(n, space), Available = 0, errno' \in {"EAGAIN", "EINTR"},
         kind = "tcp" => n = Len(space),
         n = 0 \/ n = Len(space),
         interrupts' \in 0..MaxInterrupts,
         UNCHANGED <<kind, space, leftSize, first, taken, arrived, finished, edge>>
  PROVE  ReadInv'
<1>1. pc' = "parse"
  BY ReadAssumption DEF Returns, KeepsReading
<1>2. buffer \in Seq(1..MaxBytes) /\ space \in Seq(1..MaxBytes)
  BY DEF ReadInv, TypeOK
<1>3. /\ n = Len(space) => buffer' = buffer \o space
      /\ buffer' \in Seq(1..MaxBytes)
  <2>1. CASE n = Len(space)
    <3>1. buffer' = IF n <= 0 THEN buffer ELSE buffer \o SubSeq(space, 1, n)
      BY DEF Returns
    <3>2. /\ (IF n <= 0 THEN buffer ELSE buffer \o SubSeq(space, 1, n)) = buffer \o space
          /\ buffer \o space \in Seq(1..MaxBytes)
      BY <1>2, <2>1, CutKeepsAll
    <3>. QED BY <3>1, <3>2
  <2>2. CASE n # Len(space)
    BY <1>2, <2>2 DEF Returns
  <2>. QED BY <2>1, <2>2
<1>4. TypeOK'
  BY <1>1, <1>3 DEF ReadInv, TypeOK
<1>5. kind' = "tcp" => buffer' = TakenThisTurn'
  BY <1>3 DEF ReadInv, TakenThisTurn
<1>. QED BY <1>1, <1>4, <1>5 DEF ReadInv, TypeOK, Drained, Available

(* TcpSocket::read: retried or returned.                                     *)
LEMMA TcpGetsNothingKeeps ==
  ASSUME ReadInv, pc = "inner", kind = "tcp",
         NEW reason \in {"EAGAIN", "EINTR"}, TcpGetsNothing(reason),
         reason = "EINTR" \/ Available = 0,
         interrupts' \in 0..MaxInterrupts, kind' = kind
  PROVE  ReadInv'
<1>1. /\ errno' = reason
      /\ UNCHANGED <<kind, space, leftSize, first, taken, arrived, finished, edge>>
  BY DEF TcpGetsNothing, client
<1>2. CASE reason = "EINTR"
  <2>1. UNCHANGED <<pc, buffer>>
    BY <1>2 DEF TcpGetsNothing, Retries
  <2>2. TypeOK'
    BY <1>1, <2>1 DEF ReadInv, TypeOK
  <2>. QED BY <1>1, <2>1, <2>2 DEF ReadInv, Drained, TakenThisTurn
<1>3. CASE reason # "EINTR"
  <2>1. Returns(TcpReturns, space) /\ Available = 0
    BY <1>3 DEF TcpGetsNothing, Retries
  <2>2. TcpReturns \in 0..SOCKET_BUF_SIZE - 1 /\ TcpReturns = Len(space)
    BY ReadAssumption DEF TcpReturns, ReadInv, TypeOK
  <2>. QED BY <1>1, <2>1, <2>2, ReturnsKeeps
<1>. QED BY <1>2, <1>3

-----------------------------------------------------------------------------
(* The invariant, by the actions. *)

LEMMA ThreadKeeps ==
  ASSUME ReadInv, kind' = kind, Thread \/ Signal
  PROVE  ReadInv'
<1>0. /\ TypeOK /\ MaxBytes \in Nat /\ SOCKET_BUF_SIZE \in Nat \ {0}
      /\ arrived \in Nat /\ taken \in Nat /\ taken <= arrived
      /\ arrived <= MaxBytes
  BY ReadAssumption DEF ReadInv, TypeOK
<1>1. CASE HangUp
  <2>1. TypeOK'
    BY <1>0, <1>1 DEF HangUp, TypeOK, client
  <2>. QED BY <1>1, <2>1 DEF HangUp, ReadInv, Drained, client
<1>2. CASE Forget
  <2>1. TypeOK'
    BY <1>0, <1>2 DEF Forget, TypeOK, thread, client
  <2>. QED BY <1>0, <1>2, <2>1 DEF Forget, ReadInv, Drained, Available, thread, client
<1>3. CASE Begin
  <2>1. /\ pc' = "outer" /\ buffer' = <<>> /\ first' = taken + 1
        /\ UNCHANGED <<space, leftSize, errno, taken, arrived, finished, interrupts>>
        /\ edge' = FALSE /\ taken + 1 <= MaxBytes
    BY <1>0, <1>3 DEF Begin, client, Available
  <2>2. buffer' \in Seq(1..MaxBytes)
    BY <2>1, EmptySeq
  <2>3. TypeOK'
    <3>1. first' \in 1..MaxBytes + 1
      BY <1>0, <2>1
    <3>2. /\ UNCHANGED <<kind, space, leftSize, errno, taken, arrived, finished, interrupts>>
          /\ pc' = "outer" /\ edge' = FALSE
      BY <2>1
    <3>. QED BY <1>0, <2>2, <3>1, <3>2 DEF TypeOK
  <2>4. TakenThisTurn' = <<>>
    <3>1. (first - 1)' = taken /\ (taken + 1 - first)' = 0
      BY <1>0, <2>1
    <3>. QED BY <1>0, <3>1, NoBytes DEF TakenThisTurn
  <2>. QED BY <1>0, <2>1, <2>3, <2>4 DEF ReadInv, Drained
<1>4. CASE Allocate
  <2>1. /\ pc' = "inner" /\ space' = <<>> /\ leftSize' = SOCKET_BUF_SIZE /\ pc = "outer"
        /\ UNCHANGED <<buffer, errno, first, taken, arrived, finished, edge, interrupts>>
    BY <1>4 DEF Allocate, Room, client
  <2>2. <<>> \in Seq(1..MaxBytes) /\ Len(<<>>) = 0
    OBVIOUS
  <2>3. TypeOK'
    BY <1>0, <2>1, <2>2 DEF TypeOK
  <2>4. buffer \o <<>> = buffer
    BY <1>0, ConcatEmptySeq DEF TypeOK
  <2>5. kind' = "tcp" => buffer' \o space' = TakenThisTurn'
    BY <2>1, <2>4 DEF ReadInv, TakenThisTurn
  <2>. QED BY <1>0, <2>1, <2>2, <2>3, <2>5 DEF ReadInv, Drained
<1>5. CASE Parse
  <2>1. TypeOK'
    BY <1>0, <1>5 DEF Parse, TypeOK, client
  <2>. QED BY <1>5, <2>1 DEF Parse, ReadInv, Drained, client
<1>6. CASE TcpGets
  <2>1. /\ pc = "inner" /\ Gets(Least(TcpAsks, Available)) /\ leftSize > 0
    BY <1>6 DEF TcpGets, ReadInv
  <2>2. Least(TcpAsks, Available) \in 1..Available /\ Least(TcpAsks, Available) <= leftSize
    BY <1>0, <1>6, <2>1 DEF TcpGets, Least, TcpAsks, Available, TypeOK
  <2>. QED BY <2>1, <2>2, GetsKeeps
<1>7. CASE SslGets
  <2>1. PICK n \in 1..Least(SslAsks, Available) : Gets(n)
    BY <1>7 DEF SslGets
  <2>2. n \in 1..Available
    BY <1>0 DEF Least, SslAsks, Available
  <2>. QED BY <1>7, <2>1, <2>2, GetsKeeps DEF SslGets
<1>8. CASE TcpEmpty
  <2>1. /\ pc = "inner" /\ kind = "tcp" /\ Available = 0 /\ TcpGetsNothing("EAGAIN")
        /\ interrupts' \in 0..MaxInterrupts
    BY <1>0, <1>8 DEF TcpEmpty, TypeOK
  <2>. QED BY <2>1, TcpGetsNothingKeeps
<1>9. CASE TcpEnd
  <2>1. /\ pc = "inner" /\ kind = "tcp" /\ Available = 0 /\ TcpGetsNothing(errno)
        /\ interrupts' \in 0..MaxInterrupts /\ errno \in {"EAGAIN", "EINTR"}
    BY <1>0, <1>9 DEF TcpEnd, TypeOK
  <2>. QED BY <2>1, TcpGetsNothingKeeps
<1>10. CASE TcpInterrupted
  <2>1. /\ pc = "inner" /\ kind = "tcp" /\ TcpGetsNothing("EINTR")
        /\ interrupts' \in 0..MaxInterrupts
    BY <1>0, <1>10, ReadAssumption DEF TcpInterrupted, TypeOK
  <2>. QED BY <2>1, TcpGetsNothingKeeps
<1>11. CASE SslGetsNothing
  <2>1. /\ pc = "inner" /\ kind = "ssl" /\ Available = 0 /\ Returns(0, space)
        /\ UNCHANGED <<space, leftSize, errno, first, taken, arrived, finished, edge,
                       interrupts>>
    BY <1>11 DEF SslGetsNothing, client
  <2>2. 0 \in 0..SOCKET_BUF_SIZE - 1 /\ errno' \in {"EAGAIN", "EINTR"}
        /\ interrupts' \in 0..MaxInterrupts
    BY <1>0, <2>1 DEF TypeOK
  <2>. QED BY <2>1, <2>2, ReturnsKeeps
<1>12. CASE WaitInterrupted
  <2>1. TypeOK'
    BY <1>0, <1>12, ReadAssumption DEF WaitInterrupted, TypeOK, client
  <2>. QED BY <1>12, <2>1 DEF WaitInterrupted, ReadInv, Drained, client
<1>. QED
  BY <1>1, <1>2, <1>3, <1>4, <1>5, <1>6, <1>7, <1>8, <1>9, <1>10, <1>11, <1>12
  DEF Thread, Signal

LEMMA ClientKeeps ==
  ASSUME ReadInv, kind' = kind, Client
  PROVE  ReadInv'
<1>1. /\ UNCHANGED <<pc, buffer, space, leftSize, errno, first, taken, interrupts>>
      /\ edge' = TRUE
      /\ arrived' \in 0..MaxBytes /\ arrived <= arrived'
      /\ finished' \in BOOLEAN
  <2>1. CASE Finish
    BY <2>1 DEF Finish, ReadInv, TypeOK, thread
  <2>2. ASSUME NEW n \in 1..MaxBytes, Arrive(n)
        PROVE  /\ UNCHANGED <<pc, buffer, space, leftSize, errno, first, taken, interrupts>>
               /\ edge' = TRUE
               /\ arrived' \in 0..MaxBytes /\ arrived <= arrived'
               /\ finished' \in BOOLEAN
    BY <2>2, ReadAssumption DEF Arrive, ReadInv, TypeOK, thread
  <2>. QED BY <2>1, <2>2 DEF Client
<1>2. TypeOK'
  BY <1>1 DEF ReadInv, TypeOK
<1>. QED BY <1>1, <1>2 DEF ReadInv, Drained, TakenThisTurn

-----------------------------------------------------------------------------
(* The theorems. *)

(* The inductive invariant holds: within a turn, room and string are         *)
(* together what was taken since the event.                                  *)
THEOREM ReadInvariant == Spec => []ReadInv
<1>1. Init => ReadInv
  <2> SUFFICES ASSUME Init PROVE ReadInv
    OBVIOUS
  <2>1. buffer \in Seq(1..MaxBytes) /\ space \in Seq(1..MaxBytes)
    BY EmptySeq DEF Init
  <2>2. TypeOK
    <3>1. /\ kind \in Kinds /\ pc = "idle" /\ leftSize = 0 /\ errno = "EAGAIN"
          /\ first = 1 /\ taken = 0 /\ arrived = 0 /\ finished = FALSE
          /\ edge = FALSE /\ interrupts = 0
      BY DEF Init
    <3>2. /\ leftSize \in 0..SOCKET_BUF_SIZE /\ first \in 1..MaxBytes + 1
          /\ taken \in 0..arrived /\ arrived \in 0..MaxBytes
          /\ interrupts \in 0..MaxInterrupts
      BY <3>1, ReadAssumption
    <3>3. finished \in BOOLEAN /\ edge \in BOOLEAN
      BY <3>1
    <3>. QED BY <2>1, <3>1, <3>2, <3>3 DEF TypeOK
  <2>. QED BY <2>2, ReadAssumption DEF Init, ReadInv, Drained
<1>2. ReadInv /\ [Next]_vars => ReadInv'
  <2> SUFFICES ASSUME ReadInv, [Next]_vars PROVE ReadInv'
    OBVIOUS
  <2>1. CASE Next
    BY <2>1, ThreadKeeps, ClientKeeps DEF Next
  <2>2. CASE UNCHANGED vars
    <3>1. TypeOK'
      BY <2>2 DEF ReadInv, TypeOK, vars, thread, client
    <3>. QED BY <2>2, <3>1 DEF ReadInv, Drained, TakenThisTurn, vars, thread, client
  <2>. QED BY <2>1, <2>2
<1>. QED BY <1>1, <1>2, PTL DEF Spec

(* TcpSocket::read never stores behind the room it was given.                *)
THEOREM TcpStaysInBuffer == Spec => []TcpKeepsToBuffer
<1>1. ReadInv => TcpKeepsToBuffer
  BY ReadAssumption DEF ReadInv, TypeOK, TcpKeepsToBuffer
<1>. QED BY <1>1, ReadInvariant, PTL

(* What HttpRequest parses is what the client has sent: no byte is lost,     *)
(* doubled or out of place at the seams of the buffers.                      *)
THEOREM TcpDelivers == Spec => []TcpReadDelivers
<1>1. ReadInv => TcpReadDelivers
  BY DEF ReadInv, TcpReadDelivers, ReadDelivers, TakenThisTurn
<1>. QED BY <1>1, ReadInvariant, PTL

(* What has arrived and was not read has an edge, so epoll will report it.   *)
THEOREM NothingIsLeft == Spec => []Drained
<1>1. ReadInv => Drained
  BY DEF ReadInv
<1>. QED BY <1>1, ReadInvariant, PTL
=============================================================================
