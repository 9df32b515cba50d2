----------------------------- MODULE SocketsProofs -----------------------------
(***************************************************************************)
(* Proofs about Sockets, for any number of loops, sockets, descriptors,    *)
(* listeners, clients and files: every descriptor is in one hand, every    *)
(* TLS handle is freed once, and a connection over TLS is registered when  *)
(* its handshake is done.  What a thread deletes is its own to delete, and *)
(* a socket is valid exactly when it holds something: SocketsInv says so   *)
(* of every moment between listen and exit.                                *)
(***************************************************************************)
EXTENDS Sockets, FiniteSetTheorems, WellFoundedInduction, SequenceTheorems, TLAPS

-----------------------------------------------------------------------------
(* The kernel and the heap. *)

(* A set of numbers that is not empty has a least one. *)
LEMMA LeastOne ==
  ASSUME NEW S \in SUBSET Nat, S # {}
  PROVE  Min(S) \in S /\ \A x \in S : Min(S) <= x
<1>1. IsWellFoundedOn(OpToRel(<, Nat), Nat)
  BY NatLessThanWellFounded
<1>2. PICK m \in S : \A y \in S : ~ (<<y, m>> \in OpToRel(<, Nat))
  BY <1>1, WFMin
<1>3. \A y \in S : ~ (y < m)
  BY <1>2 DEF OpToRel
<1>4. \A y \in S : m <= y
  BY <1>3
<1>. QED BY <1>4 DEF Min

(* What counts as valid: all descriptors but 0. *)
LEMMA Numbers ==
  /\ Descriptors \subseteq Nat /\ INVALID_SOCKET \notin Descriptors
  /\ ~IsValidDescriptor(INVALID_SOCKET)
  /\ \A d \in Descriptors : IsValidDescriptor(d) <=> d # 0
<1>1. Descriptors \subseteq Nat
  BY SocketsAssumption
<1>. QED BY <1>1 DEF INVALID_SOCKET, IsValidDescriptor

(* socket, accept4 and open give out a descriptor that was free. *)
LEMMA LowestIsFree ==
  ASSUME FreeOnes # {}
  PROVE  Lowest \in Descriptors /\ table[Lowest] = "free"
<1>1. FreeOnes \in SUBSET Nat
  BY SocketsAssumption DEF FreeOnes
<1>2. Lowest \in FreeOnes
  BY <1>1, LeastOne DEF Lowest
<1>. QED BY <1>2 DEF FreeOnes

(* A place in memory gets a socket, or the socket there changes. *)
LEMMA ObjectSet ==
  ASSUME TypeOK, NEW o \in Memory, NEW x \in SocketObject, objects' = [objects EXCEPT ![o] = x]
  PROVE  /\ objects' \in [Memory -> SocketObject \cup {nullptr}]
         /\ objects'[o] = x /\ \A q \in Memory : q # o => objects'[q] = objects[q]
         /\ Sockets' = Sockets \cup {o}
         /\ Owned' = IF x.m_ssl THEN Owned \cup {o} ELSE Owned \ {o}
<1>1. /\ objects' \in [Memory -> SocketObject \cup {nullptr}]
      /\ objects'[o] = x /\ \A q \in Memory : q # o => objects'[q] = objects[q]
  BY DEF TypeOK
<1>2. x # nullptr
  BY SocketsAssumption
<1>3. Sockets' = Sockets \cup {o}
  BY <1>1, <1>2 DEF Sockets
<1>4. Owned' = IF x.m_ssl THEN Owned \cup {o} ELSE Owned \ {o}
  BY <1>1, <1>3 DEF Owned
<1>. QED BY <1>1, <1>3, <1>4

(* A socket is deleted. *)
LEMMA ObjectGone ==
  ASSUME TypeOK, NEW o \in Memory, objects' = [objects EXCEPT ![o] = nullptr]
  PROVE  /\ objects' \in [Memory -> SocketObject \cup {nullptr}]
         /\ objects'[o] = nullptr /\ \A q \in Memory : q # o => objects'[q] = objects[q]
         /\ Sockets' = Sockets \ {o}
         /\ Owned' = Owned \ {o}
<1>1. /\ objects' \in [Memory -> SocketObject \cup {nullptr}]
      /\ objects'[o] = nullptr /\ \A q \in Memory : q # o => objects'[q] = objects[q]
  BY DEF TypeOK
<1>2. Sockets' = Sockets \ {o}
  BY <1>1 DEF Sockets
<1>3. Owned' = Owned \ {o}
  BY <1>1, <1>2 DEF Owned
<1>. QED BY <1>1, <1>2, <1>3

(* ::close takes a descriptor back. *)
LEMMA WithoutIs ==
  ASSUME TypeOK, NEW d
  PROVE  /\ Without(d) \in [Descriptors -> {"free", "socket", "listener", "connection", "file"}]
         /\ d \in Descriptors => Without(d)[d] = "free"
         /\ \A e \in Descriptors : e # d => Without(d)[e] = table[e]
BY DEF Without, TypeOK

(* The types of what a socket has. *)
LEMMA SocketIs ==
  ASSUME TypeOK, NEW o \in Sockets
  PROVE  /\ o \in Memory /\ objects[o] \in SocketObject
         /\ objects[o].m_descriptor \in Descriptors \cup {INVALID_SOCKET}
         /\ objects[o].ssl \in BOOLEAN /\ objects[o].m_ssl \in BOOLEAN
         /\ IsValidDescriptor(objects[o].m_descriptor) => objects[o].m_descriptor \in Descriptors
         /\ 0 \notin Descriptors /\ objects[o].m_descriptor \in Descriptors =>
              IsValidDescriptor(objects[o].m_descriptor)
<1>1. o \in Memory /\ objects[o] \in SocketObject
  BY DEF TypeOK, Sockets
<1>2. /\ objects[o].m_descriptor \in Descriptors \cup {INVALID_SOCKET}
      /\ objects[o].ssl \in BOOLEAN /\ objects[o].m_ssl \in BOOLEAN
  BY <1>1 DEF SocketObject
<1>. QED BY <1>1, <1>2, Numbers

-----------------------------------------------------------------------------
(* Hands. *)

(* Who holds a descriptor. *)
LEMMA HoldersAre ==
  ASSUME NEW d, NEW h
  PROVE  h \in Holders(d) <=> \/ h \in Sockets /\ objects[h].m_descriptor = d
                              \/ h \in Loops /\ descriptor[h] = d
                              \/ h = "close" /\ swapped = d
BY DEF Holders

(* Who holds it holds it alone. *)
LEMMA HoldsAlone ==
  ASSUME NEW d \in Descriptors, InOneHand(d), NEW h \in Holders(d)
  PROVE  Holders(d) = {h} /\ table[d] \notin {"free", "file"}
BY DEF InOneHand

(* One hand in the sense of the property. *)
LEMMA OneHandCounts ==
  ASSUME NEW d \in Descriptors, InOneHand(d)
  PROVE  Cardinality(Holders(d)) = IF table[d] \in {"free", "file"} THEN 0 ELSE 1
BY FS_EmptySet, FS_Singleton DEF InOneHand

\* What is to be kept.
AllInHand == 0 \notin Descriptors => \A d \in Descriptors : InOneHand(d)

(* Nothing that counts has changed. *)
LEMMA HandsKept ==
  ASSUME AllInHand,
         \A d \in Descriptors : /\ Holders(d)' = Holders(d)
                                /\ table'[d] \in {"free", "file"} <=> table[d] \in {"free", "file"}
  PROVE  AllInHand'
<1>. SUFFICES ASSUME 0 \notin Descriptors, NEW d \in Descriptors PROVE InOneHand(d)'
  BY DEF AllInHand
<1>1. InOneHand(d)
  BY DEF AllInHand
<1>. QED BY <1>1 DEF InOneHand

(* What a change of one place in memory does to the hands. *)
LEMMA HoldersSet ==
  ASSUME TypeOK, NEW o \in Memory, NEW x \in SocketObject \cup {nullptr},
         objects' = [objects EXCEPT ![o] = x], UNCHANGED <<descriptor, swapped>>, NEW d
  PROVE  Holders(d)' = IF x # nullptr /\ x.m_descriptor = d THEN Holders(d) \cup {o}
                                                            ELSE Holders(d) \ {o}
<1>1. objects'[o] = x /\ \A q \in Memory : q # o => objects'[q] = objects[q]
  BY DEF TypeOK
<1>2. o \notin Loops /\ o # "close"
  BY SocketsAssumption
<1>3. {q \in Sockets : objects[q].m_descriptor = d}' =
        IF x # nullptr /\ x.m_descriptor = d THEN {q \in Sockets : objects[q].m_descriptor = d} \cup {o}
        ELSE {q \in Sockets : objects[q].m_descriptor = d} \ {o}
  BY <1>1 DEF Sockets
<1>. QED BY <1>2, <1>3 DEF Holders

(* A socket gives its descriptor back, when it is deleted or closed. *)
LEMMA HandsWhenClosed ==
  ASSUME TypeOK, AllInHand, NEW o \in Sockets, NEW x \in SocketObject \cup {nullptr},
         x # nullptr => x.m_descriptor = INVALID_SOCKET,
         objects' = [objects EXCEPT ![o] = x], UNCHANGED <<descriptor, swapped>>,
         table' = Without(objects[o].m_descriptor)
  PROVE  AllInHand'
<1>. SUFFICES ASSUME 0 \notin Descriptors, NEW d \in Descriptors PROVE InOneHand(d)'
  BY DEF AllInHand
<1>1. InOneHand(d) /\ o \in Memory /\ d # INVALID_SOCKET
  BY Numbers DEF AllInHand, Sockets
<1>2. Holders(d)' = Holders(d) \ {o}
  BY <1>1, HoldersSet
<1>3. CASE objects[o].m_descriptor = d
  <2>1. o \in Holders(d)
    BY <1>3, HoldersAre
  <2>2. Holders(d) = {o}
    BY <1>1, <2>1, HoldsAlone
  <2>3. table'[d] = "free"
    BY <1>3, WithoutIs
  <2>. QED BY <1>2, <2>2, <2>3 DEF InOneHand
<1>4. CASE objects[o].m_descriptor # d
  <2>1. o \notin Holders(d)
    BY <1>1, <1>4, HoldersAre, SocketsAssumption
  <2>2. table'[d] = table[d]
    BY <1>4, WithoutIs
  <2>. QED BY <1>1, <1>2, <2>1, <2>2 DEF InOneHand
<1>. QED BY <1>3, <1>4

(* A free descriptor is given to one who had none: to h, and nobody else. *)
LEMMA HandsWhenTaken ==
  ASSUME TypeOK, AllInHand, NEW e \in Descriptors, table[e] = "free",
         NEW what \in {"socket", "connection"}, Becomes(e, what),
         NEW h \in Memory \cup Loops \cup {"close"},
         \A d \in Descriptors : Holders(d)' = IF d = e THEN Holders(d) \cup {h} ELSE Holders(d)
  PROVE  AllInHand'
<1>. SUFFICES ASSUME 0 \notin Descriptors, NEW d \in Descriptors PROVE InOneHand(d)'
  BY DEF AllInHand
<1>1. InOneHand(d)
  BY DEF AllInHand
<1>2. table'[d] = IF d = e THEN what ELSE table[d]
  BY DEF Becomes, TypeOK
<1>3. CASE d = e
  <2>1. Holders(d) = {} /\ Holders(d)' = {h}
    BY <1>1, <1>3 DEF InOneHand
  <2>. QED BY <1>2, <1>3, <2>1 DEF InOneHand
<1>4. CASE d # e
  BY <1>1, <1>2, <1>4 DEF InOneHand
<1>. QED BY <1>3, <1>4

(* A socket is deleted by the one whose it is: it is closed if it is valid,  *)
(* and it holds nothing if it is not.                                        *)
LEMMA HandsWhenDeleted ==
  ASSUME TypeOK, AllInHand, NEW o \in Sockets, HandleFits(o), Delete(o),
         UNCHANGED <<descriptor, swapped>>
  PROVE  AllInHand'
<1>1. objects' = [objects EXCEPT ![o] = nullptr]
  BY DEF Delete
<1>2. ASSUME 0 \notin Descriptors PROVE table' = Without(objects[o].m_descriptor)
  <2>1. CASE objects[o].m_descriptor \in Descriptors
    <3>1. IsValid(o)
      BY <1>2, <2>1, SocketIs DEF HandleFits, IsValid
    <3>. QED BY <3>1 DEF Delete, Closes
  <2>2. CASE objects[o].m_descriptor \notin Descriptors
    <3>1. ~IsValid(o)
      BY <2>2, SocketIs DEF IsValid
    <3>. QED BY <2>2, <3>1 DEF Delete, Closes, Without
  <2>. QED BY <2>1, <2>2
<1>3. CASE 0 \notin Descriptors
  BY <1>1, <1>2, <1>3, HandsWhenClosed
<1>4. CASE 0 \in Descriptors
  BY <1>4 DEF AllInHand
<1>. QED BY <1>3, <1>4

-----------------------------------------------------------------------------
(* Handles. *)

Results == {"notAvailable", "noAddress", "noListen", "noFlags", "listening"}

(* What returns from listen adds to the handles that are lost. *)
LEMMA LostIs ==
  ASSUME TypeOK, NEW what \in Results, Result(what), Len(results) < Len(Attempts)
  PROVE  /\ results' \in Seq(Results)
         /\ IsFiniteSet(Lost) /\ IsFiniteSet(Lost') /\ SslEnable \in BOOLEAN
         /\ Cardinality(Lost') = Cardinality(Lost) +
              (IF SslEnable /\ what \in {"noAddress", "noListen"} THEN 1 ELSE 0)
<1> DEFINE n == Len(results)
<1>1. /\ results \in Seq(Results) /\ n \in Nat /\ DOMAIN results = 1..n
      /\ results' \in Seq(Results) /\ DOMAIN results' = 1..n + 1
      /\ results'[n + 1] = what /\ \A i \in 1..n : results'[i] = results[i]
  BY LenProperties, AppendProperties DEF TypeOK, Result, Results
<1>2. SslEnable \in BOOLEAN
  <2>1. Attempts \in Seq(BOOLEAN) /\ n + 1 \in 1..Len(Attempts)
    BY <1>1, LenProperties, SocketsAssumption
  <2>. QED BY <2>1, ElementOfSeq DEF SslEnable
<1>3. Lost \subseteq 1..n /\ Lost' \subseteq 1..n + 1
  BY <1>1 DEF Lost
<1>4. Lost' = IF SslEnable /\ what \in {"noAddress", "noListen"} THEN Lost \cup {n + 1} ELSE Lost
  BY <1>1 DEF Lost, SslEnable
<1>5. IsFiniteSet(Lost) /\ IsFiniteSet(Lost')
  <2>1. IsFiniteSet(1..n) /\ IsFiniteSet(1..n + 1)
    BY <1>1, FS_Interval
  <2>. QED BY <1>3, <2>1, FS_Subset
<1>6. n + 1 \notin Lost /\ Cardinality(Lost) \in Nat
  BY <1>1, <1>3, <1>5, FS_CardinalityType
<1>. QED BY <1>1, <1>2, <1>4, <1>5, <1>6, FS_AddElement

\* All handles are owned, but those of sockets that could not listen.
HandlesFit == IsFiniteSet(Owned) /\ HandlesOwned

(* Nothing that counts has changed. *)
LEMMA HandlesKept ==
  ASSUME HandlesFit, Owned' = Owned, UNCHANGED <<handles, results>>
  PROVE  HandlesFit'
BY DEF HandlesFit, HandlesOwned, Lost

(* A socket is deleted that holds a handle only if it is valid. *)
LEMMA HandlesWhenDeleted ==
  ASSUME TypeOK, HandlesFit, NEW o \in Sockets, Delete(o), objects[o].m_ssl => IsValid(o)
  PROVE  IsFiniteSet(Owned') /\ handles' - Cardinality(Owned') = handles - Cardinality(Owned)
<1>1. Owned' = Owned \ {o}
  BY SocketIs, ObjectGone DEF Delete
<1>2. o \in Owned <=> objects[o].m_ssl
  BY DEF Owned
<1>3. handles' = handles - (IF objects[o].m_ssl THEN 1 ELSE 0)
  BY DEF Delete, Closes
<1>4. IsFiniteSet(Owned) /\ Cardinality(Owned) \in Nat /\ handles \in Nat
  BY FS_CardinalityType DEF HandlesFit, TypeOK
<1>5. IsFiniteSet(Owned') /\ Cardinality(Owned') = Cardinality(Owned) - (IF objects[o].m_ssl THEN 1 ELSE 0)
  BY <1>1, <1>2, <1>4, FS_RemoveElement
<1>. QED BY <1>3, <1>4, <1>5

(* The number of handles, as a number. *)
LEMMA HandlesAre ==
  ASSUME TypeOK, HandlesFit
  PROVE  /\ IsFiniteSet(Lost) /\ Cardinality(Lost) \in Nat /\ Cardinality(Owned) \in Nat
         /\ handles = Cardinality(Owned) + Cardinality(Lost)
<1>1. Len(results) \in Nat /\ DOMAIN results = 1..Len(results)
  BY LenProperties DEF TypeOK
<1>2. IsFiniteSet(Lost)
  <2>1. IsFiniteSet(1..Len(results)) /\ Lost \subseteq 1..Len(results)
    BY <1>1, FS_Interval DEF Lost
  <2>. QED BY <2>1, FS_Subset
<1>. QED BY <1>2, FS_CardinalityType DEF HandlesFit, HandlesOwned

-----------------------------------------------------------------------------
(* The steps that leave the heap alone. *)

(* The parts of the invariant. *)
LEMMA Parts ==
  SocketsInv <=> /\ TypeOK /\ OneOwner /\ LoopsFit /\ DescriptorsFit
                 /\ HandlesFit /\ HandshakeFits /\ HandshakeDone /\ AllInHand
BY DEF SocketsInv, HandlesFit, AllInHand

LEMMA PartsAgain ==
  ASSUME TypeOK', OneOwner', LoopsFit', DescriptorsFit', HandlesFit',
         HandshakeFits', HandshakeDone', AllInHand'
  PROVE  SocketsInv'
BY DEF SocketsInv, HandlesFit, AllInHand

(* Who holds what is as it was. *)
LEMMA HeapKept ==
  ASSUME SocketsInv, UNCHANGED <<heap, swapped, descriptor>>
  PROVE  /\ Sockets' = Sockets /\ Owned' = Owned
         /\ UNCHANGED <<objects, handles, table>> /\ AllInHand'
         /\ UNCHANGED results => HandlesFit'
<1>1. UNCHANGED <<objects, handles, table>>
  BY DEF heap
<1>2. Sockets' = Sockets /\ Owned' = Owned
  BY <1>1 DEF Sockets, Owned
<1>3. AllInHand'
  <2>1. \A d : Holders(d)' = Holders(d)
    BY <1>1, <1>2 DEF Holders
  <2>. QED BY <1>1, <2>1, Parts, HandsKept
<1>. QED BY <1>1, <1>2, <1>3, Parts, HandlesKept

(* initializatSsl. *)
LEMMA InitializatSslInv ==
  ASSUME SocketsInv, InitializatSsl
  PROVE  SocketsInv'
<1>. USE DEF InitializatSsl, loopVars
<1>1. TypeOK'
  BY Parts DEF TypeOK, heap
<1>2. AllInHand' /\ HandlesFit' /\ Sockets' = Sockets /\ UNCHANGED objects
  BY HeapKept
<1>3. OneOwner'
  BY <1>2, Parts DEF OneOwner, MainOwns, LoopOwns, Making, HasClient
<1>4. LoopsFit'
  BY Parts DEF LoopsFit
<1>5. DescriptorsFit'
  BY <1>2, Parts DEF DescriptorsFit, HandleFits, Making, SslEnable
<1>6. HandshakeFits' /\ HandshakeDone'
  BY <1>2, Parts DEF HandshakeFits, HandshakeDone, IsValid
<1>. QED BY <1>1, <1>2, <1>3, <1>4, <1>5, <1>6, PartsAgain

(* listen with TLS, without a context. *)
LEMMA NotAvailableInv ==
  ASSUME SocketsInv, NotAvailable
  PROVE  SocketsInv'
<1>. USE DEF NotAvailable, Result, Attempting, loopVars
<1>1. TypeOK'
  <2>1. results' \in Seq(Results)
    BY Parts, LostIs DEF Results
  <2>. QED BY <2>1, Parts DEF TypeOK, heap, Results
<1>2. AllInHand' /\ Sockets' = Sockets /\ Owned' = Owned /\ UNCHANGED <<objects, handles>>
  BY HeapKept
<1>3. OneOwner'
  BY <1>2, Parts DEF OneOwner, MainOwns, LoopOwns, Making, HasClient
<1>4. LoopsFit'
  BY Parts DEF LoopsFit
<1>5. DescriptorsFit'
  BY <1>2, Parts DEF DescriptorsFit, HandleFits, Making
<1>6. HandshakeFits' /\ HandshakeDone'
  BY <1>2, Parts DEF HandshakeFits, HandshakeDone, IsValid
<1>7. HandlesFit'
  <2>1. Cardinality(Lost') = Cardinality(Lost)
    BY Parts, LostIs, HandlesAre DEF Results
  <2>. QED BY <1>2, <2>1, Parts, HandlesAre DEF HandlesFit, HandlesOwned
<1>. QED BY <1>1, <1>2, <1>3, <1>4, <1>5, <1>6, <1>7, PartsAgain

(* bind. *)
LEMMA BindInv ==
  ASSUME SocketsInv, Bind
  PROVE  SocketsInv'
<1>. USE DEF Bind, Attempting, loopVars
<1>1. TypeOK'
  BY Parts DEF TypeOK, heap
<1>2. AllInHand' /\ HandlesFit' /\ Sockets' = Sockets /\ UNCHANGED objects
  BY HeapKept
<1>3. OneOwner'
  BY <1>2, Parts DEF OneOwner, MainOwns, LoopOwns, Making, HasClient
<1>4. LoopsFit'
  BY Parts DEF LoopsFit
<1>5. DescriptorsFit'
  BY <1>2, Parts DEF DescriptorsFit, HandleFits, Making, SslEnable
<1>6. HandshakeFits' /\ HandshakeDone'
  BY <1>2, Parts DEF HandshakeFits, HandshakeDone, IsValid
<1>. QED BY <1>1, <1>2, <1>3, <1>4, <1>5, <1>6, PartsAgain

(* exec starts the loops. *)
LEMMA StartInv ==
  ASSUME SocketsInv, Start
  PROVE  SocketsInv'
<1>. USE DEF Start
<1>1. TypeOK'
  BY Parts DEF TypeOK, heap
<1>2. AllInHand' /\ HandlesFit' /\ Sockets' = Sockets /\ UNCHANGED objects
  BY HeapKept
<1>0. \A p \in Loops : pc[p] = "none" /\ pc'[p] \in {"none", "wait"}
  BY Parts DEF TypeOK, LoopsFit
<1>3. OneOwner'
  BY <1>0, <1>2, Parts DEF OneOwner, MainOwns, LoopOwns, Making, HasClient
<1>4. LoopsFit'
  BY <1>0, Parts DEF LoopsFit
<1>5. DescriptorsFit'
  BY <1>0, <1>2, Parts DEF DescriptorsFit, HandleFits, Making
<1>6. HandshakeFits' /\ HandshakeDone'
  BY <1>0, Parts DEF HandshakeFits, HandshakeDone
<1>. QED BY <1>1, <1>2, <1>3, <1>4, <1>5, <1>6, PartsAgain

(* ~WebServer. *)
LEMMA CleanUpInv ==
  ASSUME SocketsInv, CleanUp
  PROVE  SocketsInv'
<1>. USE DEF CleanUp, loopVars
<1>1. TypeOK'
  BY Parts DEF TypeOK, heap
<1>2. AllInHand' /\ HandlesFit' /\ Sockets' = Sockets /\ UNCHANGED objects
  BY HeapKept
<1>3. OneOwner'
  BY <1>2, Parts DEF OneOwner, MainOwns, LoopOwns, Making, HasClient
<1>4. LoopsFit'
  BY Parts DEF LoopsFit
<1>5. DescriptorsFit'
  BY <1>2, Parts DEF DescriptorsFit, HandleFits, Making
<1>6. HandshakeFits' /\ HandshakeDone'
  BY <1>2, Parts DEF HandshakeFits, HandshakeDone, IsValid
<1>. QED BY <1>1, <1>2, <1>3, <1>4, <1>5, <1>6, PartsAgain

-----------------------------------------------------------------------------
(* The steps of the main thread that make a listener. *)

(* The socket that listen makes is its own, and holds what it should. *)
LEMMA MakingIs ==
  ASSUME SocketsInv, Making
  PROVE  /\ socket \in Sockets /\ socket \in Memory /\ socket \notin m_listeners
         /\ \A p \in Loops : ~LoopOwns(p, socket)
         /\ objects[socket] \in SocketObject
         /\ objects[socket].ssl = SslEnable /\ objects[socket].m_ssl = SslEnable
         /\ HandleFits(socket)
         /\ swapped = INVALID_SOCKET
         /\ \A p \in Loops : pc[p] = "none"
<1>1. socket \in Memory \ m_listeners /\ MainOwns(socket)
  BY Parts DEF OneOwner, MainOwns
<1>2. socket \in Sockets /\ \A p \in Loops : ~LoopOwns(p, socket)
  BY <1>1, Parts DEF OneOwner
<1>3. objects[socket] \in SocketObject
  BY <1>2, Parts, SocketIs
<1>4. /\ objects[socket].ssl = SslEnable /\ objects[socket].m_ssl = SslEnable
      /\ HandleFits(socket) /\ swapped = INVALID_SOCKET
  BY <1>2, Parts DEF DescriptorsFit, Making
<1>5. \A p \in Loops : pc[p] = "none"
  BY Parts DEF LoopsFit, Making
<1>. QED BY <1>1, <1>2, <1>3, <1>4, <1>5

(* new SslSocket() or new TcpSocket(). *)
LEMMA BeginListenInv ==
  ASSUME SocketsInv, NEW o \in Memory, BeginListen(o)
  PROVE  SocketsInv'
<1>. USE DEF BeginListen, New, Attempting, loopVars
<1> DEFINE x == [ssl |-> SslEnable, m_descriptor |-> INVALID_SOCKET, m_ssl |-> SslEnable,
                 m_isListener |-> FALSE, secured |-> FALSE]
<1>1. SslEnable \in BOOLEAN /\ results \in Seq(Results) /\ Len(results) \in Nat
  <2>1. results \in Seq(Results) /\ Len(results) \in Nat
    BY Parts, LenProperties DEF TypeOK, Results
  <2>2. Attempts \in Seq(BOOLEAN) /\ Len(results) + 1 \in 1..Len(Attempts)
    BY <2>1, LenProperties, SocketsAssumption
  <2>. QED BY <2>1, <2>2, ElementOfSeq DEF SslEnable
<1>2. x \in SocketObject
  BY <1>1 DEF SocketObject
<1>3. /\ objects' \in [Memory -> SocketObject \cup {nullptr}]
      /\ objects'[o] = x /\ \A q \in Memory : q # o => objects'[q] = objects[q]
      /\ Sockets' = Sockets \cup {o} /\ o \notin Sockets
      /\ Owned' = IF x.m_ssl THEN Owned \cup {o} ELSE Owned \ {o}
  <2>1. o \notin Sockets
    BY DEF Sockets
  <2>. QED BY <1>2, <2>1, Parts, ObjectSet
<1>4. TypeOK'
  BY <1>1, <1>3, Parts DEF TypeOK
<1>5. OneOwner'
  BY <1>3, Parts DEF OneOwner, MainOwns, LoopOwns, Making, HasClient
<1>6. LoopsFit'
  BY Parts DEF LoopsFit
<1>7. DescriptorsFit'
  BY <1>3, Numbers, Parts DEF DescriptorsFit, HandleFits, Making, SslEnable
<1>8. HandlesFit'
  <2>1. o \notin Owned /\ IsFiniteSet(Owned)
    BY <1>3, Parts DEF Owned, HandlesFit
  <2>2. Cardinality(Owned') = Cardinality(Owned) + (IF SslEnable THEN 1 ELSE 0) /\ IsFiniteSet(Owned')
    <3>1. CASE SslEnable
      BY <1>3, <2>1, <3>1, FS_AddElement
    <3>2. CASE ~SslEnable
      <4>1. Owned' = Owned
        BY <1>3, <2>1, <3>2
      <4>. QED BY <2>1, <3>2, <4>1, Parts, HandlesAre
    <3>. QED BY <3>1, <3>2
  <2>. QED BY <1>1, <2>2, Parts, HandlesAre DEF HandlesFit, HandlesOwned, Lost
<1>9. HandshakeFits' /\ HandshakeDone'
  <2>1. \A p \in Loops : pc[p] = "none"
    BY Parts DEF LoopsFit
  <2>. QED BY <2>1 DEF HandshakeFits, HandshakeDone
<1>10. AllInHand'
  <2>1. \A d \in Descriptors : Holders(d)' = Holders(d)
    <3>. TAKE d \in Descriptors
    <3>1. Holders(d)' = Holders(d) \ {o}
      <4>1. x.m_descriptor # d /\ objects' = [objects EXCEPT ![o] = x]
        BY Numbers
      <4>. HIDE DEF x
      <4>. QED BY <1>2, <4>1, Parts, HoldersSet
    <3>2. o \notin Holders(d)
      BY <1>3, HoldersAre, SocketsAssumption
    <3>. QED BY <3>1, <3>2
  <2>. QED BY <2>1, Parts, HandsKept
<1>. QED BY <1>4, <1>5, <1>6, <1>7, <1>8, <1>9, <1>10, PartsAgain

(* The object changes in place: its owner is the same, and so are its handle and the loops. *)
LEMMA MakingGoesOn ==
  ASSUME SocketsInv, Making, Making', NEW x \in SocketObject,
         objects' = [objects EXCEPT ![socket] = x],
         x.ssl = objects[socket].ssl, x.m_ssl = objects[socket].m_ssl,
         mainPc' = "address" <=> ~IsValidDescriptor(x.m_descriptor),
         mainPc' # "address" => addresses' > 0,
         IsValidDescriptor(x.m_descriptor) /\ x.ssl => x.m_ssl,
         UNCHANGED <<loopVars, socket, swapped, results, m_listeners, handles>>
  PROVE  /\ OneOwner' /\ LoopsFit' /\ DescriptorsFit'
         /\ HandlesFit' /\ HandshakeFits' /\ HandshakeDone'
<1>. USE DEF loopVars
<1>1. /\ objects' \in [Memory -> SocketObject \cup {nullptr}]
      /\ objects'[socket] = x /\ \A q \in Memory : q # socket => objects'[q] = objects[q]
      /\ Sockets' = Sockets /\ Owned' = Owned
  <2>1. socket \in Owned <=> x.m_ssl
    BY MakingIs DEF Owned
  <2>2. /\ objects' \in [Memory -> SocketObject \cup {nullptr}]
        /\ objects'[socket] = x /\ \A q \in Memory : q # socket => objects'[q] = objects[q]
        /\ Sockets' = Sockets \cup {socket}
        /\ Owned' = IF x.m_ssl THEN Owned \cup {socket} ELSE Owned \ {socket}
    BY MakingIs, Parts, ObjectSet
  <2>. QED BY <2>1, <2>2, MakingIs
<1>2. OneOwner'
  BY <1>1, Parts DEF OneOwner, MainOwns, LoopOwns, HasClient
<1>3. LoopsFit'
  BY MakingIs DEF LoopsFit
<1>4. DescriptorsFit'
  <2>1. \A q \in Sockets : HandleFits(q)'
    BY <1>1, MakingIs, Parts DEF DescriptorsFit, HandleFits, Sockets
  <2>. QED BY <1>1, <2>1, MakingIs, Parts DEF DescriptorsFit, SslEnable, Making
<1>5. HandlesFit'
  BY <1>1, Parts, HandlesKept
<1>6. HandshakeFits' /\ HandshakeDone'
  BY MakingIs DEF HandshakeFits, HandshakeDone
<1>. QED BY <1>2, <1>3, <1>4, <1>5, <1>6

(* socket(). *)
LEMMA CreateSocketInv ==
  ASSUME SocketsInv, CreateSocket
  PROVE  SocketsInv'
<1>. USE DEF CreateSocket, Attempting, loopVars
<1>1. Making /\ Making'
  BY DEF Making
<1>2. PICK e \in Descriptors \cup {INVALID_SOCKET} :
        /\ objects' = [objects EXCEPT ![socket].m_descriptor = e]
        /\ \/ e \in Descriptors /\ table[e] = "free" /\ Becomes(e, "socket")
           \/ e = INVALID_SOCKET /\ UNCHANGED table
  BY LowestIsFree
<1> DEFINE x == [objects[socket] EXCEPT !.m_descriptor = e]
<1>3. /\ x \in SocketObject /\ x.m_descriptor = e /\ x.ssl = objects[socket].ssl
      /\ x.m_ssl = objects[socket].m_ssl /\ objects' = [objects EXCEPT ![socket] = x]
  BY <1>1, <1>2, MakingIs DEF SocketObject
<1>4. objects'[socket] = x /\ objects[socket] \in SocketObject
  BY <1>1, <1>3, MakingIs, Parts DEF TypeOK
<1>. HIDE DEF x
<1>5. TypeOK'
  <2>1. objects' \in [Memory -> SocketObject \cup {nullptr}]
    BY <1>1, <1>3, MakingIs, Parts, ObjectSet
  <2>2. table' \in [Descriptors -> {"free", "socket", "listener", "connection", "file"}]
    BY <1>2, Parts DEF TypeOK, Becomes
  <2>3. addresses' \in 0..Addresses
    BY Parts, SocketsAssumption DEF TypeOK
  <2>. QED BY <2>1, <2>2, <2>3, Parts DEF TypeOK
<1>6. /\ OneOwner' /\ LoopsFit' /\ DescriptorsFit'
      /\ HandlesFit' /\ HandshakeFits' /\ HandshakeDone'
  <2>1. objects[socket].m_ssl = objects[socket].ssl
    BY <1>1, MakingIs
  <2>2. mainPc' = "address" <=> ~IsValidDescriptor(x.m_descriptor)
    BY <1>4
  <2>3. mainPc' # "address" => addresses' > 0
    OBVIOUS
  <2>. QED BY <1>1, <1>3, <2>1, <2>2, <2>3, MakingGoesOn
<1>7. AllInHand'
  <2>. SUFFICES ASSUME 0 \notin Descriptors PROVE AllInHand'
    BY DEF AllInHand
  <2>1. objects[socket].m_descriptor \notin Descriptors
    BY <1>1, MakingIs, SocketIs, Parts DEF DescriptorsFit
  <2>2. \A d \in Descriptors : /\ socket \notin Holders(d)
                              /\ Holders(d)' = IF e = d THEN Holders(d) \cup {socket}
                                                        ELSE Holders(d) \ {socket}
    <3>. TAKE d \in Descriptors
    <3>1. socket \notin Holders(d)
      BY <1>1, <2>1, MakingIs, HoldersAre, SocketsAssumption
    <3>2. Holders(d)' = IF e = d THEN Holders(d) \cup {socket} ELSE Holders(d) \ {socket}
      <4>1. x # nullptr
        BY <1>3, SocketsAssumption
      <4>. QED BY <1>1, <1>3, <4>1, MakingIs, Parts, HoldersSet
    <3>. QED BY <3>1, <3>2
  <2>3. CASE e \in Descriptors /\ table[e] = "free" /\ Becomes(e, "socket")
    <3>1. \A d \in Descriptors : Holders(d)' = IF d = e THEN Holders(d) \cup {socket} ELSE Holders(d)
      BY <2>2
    <3>. QED BY <1>1, <2>3, <3>1, MakingIs, Parts, HandsWhenTaken
  <2>4. CASE e = INVALID_SOCKET /\ UNCHANGED table
    <3>1. \A d \in Descriptors : Holders(d)' = Holders(d)
      BY <2>2, <2>4, Numbers
    <3>. QED BY <2>4, <3>1, Parts, HandsKept
  <2>. QED BY <1>2, <2>3, <2>4
<1>. QED BY <1>5, <1>6, <1>7, PartsAgain

(* bind fails: the socket gives its descriptor back, and may get another. *)
LEMMA BindFailsInv ==
  ASSUME SocketsInv, BindFails
  PROVE  SocketsInv'
<1>. USE DEF BindFails, CloseDescriptor, Attempting, loopVars
<1>1. Making /\ Making'
  BY DEF Making
<1> DEFINE x == [objects[socket] EXCEPT !.m_descriptor = INVALID_SOCKET]
<1>2. /\ x \in SocketObject /\ x.m_descriptor = INVALID_SOCKET /\ x.ssl = objects[socket].ssl
      /\ x.m_ssl = objects[socket].m_ssl /\ objects' = [objects EXCEPT ![socket] = x]
  BY <1>1, MakingIs DEF SocketObject
<1>. HIDE DEF x
<1>3. TypeOK'
  <2>1. objects' \in [Memory -> SocketObject \cup {nullptr}]
    BY <1>1, <1>2, MakingIs, Parts, ObjectSet
  <2>2. table' \in [Descriptors -> {"free", "socket", "listener", "connection", "file"}]
    BY Parts, WithoutIs
  <2>3. addresses' \in 0..Addresses
    <3>1. addresses > 0
      BY <1>1, Parts DEF DescriptorsFit
    <3>. QED BY <3>1, Parts, SocketsAssumption DEF TypeOK
  <2>. QED BY <2>1, <2>2, <2>3, Parts DEF TypeOK
<1>4. /\ OneOwner' /\ LoopsFit' /\ DescriptorsFit'
      /\ HandlesFit' /\ HandshakeFits' /\ HandshakeDone'
  BY <1>1, <1>2, Numbers, MakingGoesOn
<1>5. AllInHand'
  BY <1>1, <1>2, MakingIs, Parts, HandsWhenClosed
<1>. QED BY <1>3, <1>4, <1>5, PartsAgain

(* ::listen. *)
LEMMA ListenInv ==
  ASSUME SocketsInv, Listen
  PROVE  SocketsInv'
<1>. USE DEF Listen, Attempting, loopVars
<1>1. Making /\ Making'
  BY DEF Making
<1>2. objects' = [objects EXCEPT ![socket] = objects[socket]]
  BY Parts DEF TypeOK
<1>3. IsValidDescriptor(objects[socket].m_descriptor)
  BY <1>1, Parts DEF DescriptorsFit
<1> DEFINE e == objects[socket].m_descriptor
<1>4. /\ e \in Descriptors /\ table' \in [Descriptors -> {"free", "socket", "listener", "connection", "file"}]
      /\ table'[e] = "listener" /\ \A d \in Descriptors : d # e => table'[d] = table[d]
  BY <1>1, <1>3, MakingIs, SocketIs, Parts DEF TypeOK, Becomes
<1>5. TypeOK'
  BY <1>4, Parts DEF TypeOK
<1>6. /\ OneOwner' /\ LoopsFit' /\ DescriptorsFit'
      /\ HandlesFit' /\ HandshakeFits' /\ HandshakeDone'
  <2>1. objects[socket].ssl => objects[socket].m_ssl
    BY <1>1, MakingIs
  <2>2. addresses' > 0
    BY <1>1, Parts DEF DescriptorsFit
  <2>. QED BY <1>1, <1>2, <1>3, <2>1, <2>2, MakingIs, MakingGoesOn
<1>7. AllInHand'
  <2>. SUFFICES ASSUME 0 \notin Descriptors PROVE AllInHand'
    BY DEF AllInHand
  <2>1. \A d : Holders(d)' = Holders(d)
    BY DEF Holders, Sockets
  <2>2. socket \in Holders(e) /\ InOneHand(e)
    BY <1>1, <1>4, MakingIs, HoldersAre, Parts DEF AllInHand
  <2>3. table[e] \notin {"free", "file"}
    BY <1>4, <2>2, HoldsAlone
  <2>. QED BY <1>4, <2>1, <2>3, Parts, HandsKept
<1>. QED BY <1>5, <1>6, <1>7, PartsAgain

(* listen returns, without a socket. *)
LEMMA MakingEnds ==
  ASSUME SocketsInv, Making, objects' = [objects EXCEPT ![socket] = nullptr],
         NEW what \in Results, Result(what), UNCHANGED m_listeners
  PROVE  /\ objects' \in [Memory -> SocketObject \cup {nullptr}] /\ results' \in Seq(Results)
         /\ Sockets' = Sockets \ {socket} /\ Owned' = Owned \ {socket}
         /\ OneOwner' /\ LoopsFit' /\ DescriptorsFit' /\ HandshakeFits' /\ HandshakeDone'
<1>. USE DEF Result, loopVars
<1>1. /\ objects' \in [Memory -> SocketObject \cup {nullptr}]
      /\ \A q \in Memory : q # socket => objects'[q] = objects[q]
      /\ Sockets' = Sockets \ {socket} /\ Owned' = Owned \ {socket}
  BY MakingIs, Parts, ObjectGone
<1>2. results' \in Seq(Results)
  BY Parts, AppendProperties DEF TypeOK, Results
<1>3. OneOwner'
  BY <1>1, MakingIs, Parts DEF OneOwner, MainOwns, LoopOwns, Making, HasClient
<1>4. LoopsFit'
  BY MakingIs DEF LoopsFit
<1>5. DescriptorsFit'
  BY <1>1, MakingIs, Parts DEF DescriptorsFit, HandleFits, Making, Sockets
<1>6. HandshakeFits' /\ HandshakeDone'
  BY MakingIs DEF HandshakeFits, HandshakeDone
<1>. QED BY <1>1, <1>2, <1>3, <1>4, <1>5, <1>6

(* The handle of a socket that could not listen is lost. *)
LEMMA HandleIsLost ==
  ASSUME SocketsInv, Making, Len(results) < Len(Attempts),
         NEW what \in {"noAddress", "noListen"}, Result(what), UNCHANGED handles,
         Owned' = Owned \ {socket}
  PROVE  HandlesFit'
<1>1. what \in Results
  BY DEF Results
<1>2. Cardinality(Lost') = Cardinality(Lost) + (IF SslEnable THEN 1 ELSE 0) /\ SslEnable \in BOOLEAN
  BY <1>1, Parts, LostIs
<1>3. IsFiniteSet(Owned) /\ (socket \in Owned <=> SslEnable)
  BY MakingIs, Parts DEF HandlesFit, Owned
<1>4. IsFiniteSet(Owned') /\ Cardinality(Owned') = Cardinality(Owned) - (IF SslEnable THEN 1 ELSE 0)
  <2>1. CASE SslEnable
    BY <1>3, <2>1, FS_RemoveElement
  <2>2. CASE ~SslEnable
    <3>1. Owned' = Owned
      BY <1>3, <2>2
    <3>2. Cardinality(Owned) = Cardinality(Owned) - 0
      BY Parts, HandlesAre
    <3>. QED BY <1>3, <2>2, <3>1, <3>2
  <2>. QED BY <2>1, <2>2
<1>. QED BY <1>2, <1>4, Parts, HandlesAre DEF HandlesFit, HandlesOwned

(* getaddrinfo has nothing that could be bound. *)
LEMMA NoAddressInv ==
  ASSUME SocketsInv, NoAddress
  PROVE  SocketsInv'
<1>1. Making /\ Result("noAddress") /\ "noAddress" \in Results
  BY DEF NoAddress, Attempting, Making, Results
<1>2. ~IsValid(socket)
  BY <1>1, Parts DEF NoAddress, Attempting, DescriptorsFit, IsValid
<1>3. objects' = [objects EXCEPT ![socket] = nullptr] /\ UNCHANGED <<table, m_listeners>> /\ handles' = handles
  BY <1>2, Parts DEF NoAddress, Delete, Closes, TypeOK
<1>4. /\ objects' \in [Memory -> SocketObject \cup {nullptr}] /\ results' \in Seq(Results)
      /\ Owned' = Owned \ {socket}
      /\ OneOwner' /\ LoopsFit' /\ DescriptorsFit' /\ HandshakeFits' /\ HandshakeDone'
  BY <1>1, <1>3, MakingEnds
<1>5. TypeOK'
  BY <1>1, <1>3, <1>4, Parts DEF TypeOK, Result, loopVars, Results
<1>6. HandlesFit'
  BY <1>1, <1>3, <1>4, HandleIsLost DEF NoAddress, Attempting
<1>7. AllInHand'
  <2>1. UNCHANGED <<descriptor, swapped>>
    BY <1>1 DEF Result, loopVars
  <2>. QED BY <1>1, <2>1, MakingIs, Parts, HandsWhenDeleted DEF NoAddress
<1>. QED BY <1>4, <1>5, <1>6, <1>7, PartsAgain

(* ::listen fails. *)
LEMMA ListenFailsInv ==
  ASSUME SocketsInv, ListenFails
  PROVE  SocketsInv'
<1>1. Making /\ Result("noListen") /\ "noListen" \in Results
  BY DEF ListenFails, Attempting, Making, Results
<1>2. /\ objects' = [objects EXCEPT ![socket] = nullptr] /\ UNCHANGED <<handles, m_listeners>>
      /\ table' = Without(objects[socket].m_descriptor)
  BY DEF ListenFails
<1>3. /\ objects' \in [Memory -> SocketObject \cup {nullptr}] /\ results' \in Seq(Results)
      /\ Owned' = Owned \ {socket}
      /\ OneOwner' /\ LoopsFit' /\ DescriptorsFit' /\ HandshakeFits' /\ HandshakeDone'
  BY <1>1, <1>2, MakingEnds
<1>4. TypeOK'
  <2>1. table' \in [Descriptors -> {"free", "socket", "listener", "connection", "file"}]
    BY <1>2, Parts, WithoutIs
  <2>. QED BY <1>1, <1>2, <1>3, <2>1, Parts DEF TypeOK, Result, loopVars, Results
<1>5. HandlesFit'
  BY <1>1, <1>2, <1>3, HandleIsLost DEF ListenFails, Attempting
<1>6. AllInHand'
  <2>1. UNCHANGED <<descriptor, swapped>>
    BY <1>1 DEF Result, loopVars
  <2>. QED BY <1>1, <1>2, <2>1, MakingIs, Parts, HandsWhenClosed
<1>. QED BY <1>3, <1>4, <1>5, <1>6, PartsAgain

(* fcntl fails. *)
LEMMA FlagsFailInv ==
  ASSUME SocketsInv, FlagsFail
  PROVE  SocketsInv'
<1>1. Making /\ Result("noFlags") /\ "noFlags" \in Results
  BY DEF FlagsFail, Attempting, Making, Results
<1>2. IsValid(socket) /\ socket \in Sockets
  BY <1>1, MakingIs, Parts DEF FlagsFail, Attempting, DescriptorsFit, IsValid
<1>3. objects' = [objects EXCEPT ![socket] = nullptr] /\ UNCHANGED m_listeners /\ Delete(socket)
  BY DEF FlagsFail, Delete
<1>4. /\ objects' \in [Memory -> SocketObject \cup {nullptr}] /\ results' \in Seq(Results)
      /\ OneOwner' /\ LoopsFit' /\ DescriptorsFit' /\ HandshakeFits' /\ HandshakeDone'
  BY <1>1, <1>3, MakingEnds
<1>5. IsFiniteSet(Owned') /\ handles' - Cardinality(Owned') = handles - Cardinality(Owned)
  BY <1>2, <1>3, Parts, HandlesWhenDeleted
<1>6. HandlesFit' /\ handles' \in Nat
  <2>1. Cardinality(Lost') = Cardinality(Lost)
    BY <1>1, Parts, LostIs, HandlesAre DEF FlagsFail, Attempting
  <2>2. handles' \in Int
    BY <1>3, Parts DEF Delete, TypeOK
  <2>3. Cardinality(Owned') \in Nat
    BY <1>5, FS_CardinalityType
  <2>. QED BY <1>5, <2>1, <2>2, <2>3, Parts, HandlesAre DEF HandlesFit, HandlesOwned
<1>7. TypeOK'
  <2>1. table' \in [Descriptors -> {"free", "socket", "listener", "connection", "file"}]
    BY <1>3, Parts, WithoutIs DEF Delete, TypeOK
  <2>. QED BY <1>1, <1>3, <1>4, <1>6, <2>1, Parts DEF TypeOK, Result, loopVars, Results
<1>8. AllInHand'
  <2>1. UNCHANGED <<descriptor, swapped>>
    BY <1>1 DEF Result, loopVars
  <2>. QED BY <1>1, <1>3, <2>1, MakingIs, Parts, HandsWhenDeleted
<1>. QED BY <1>4, <1>6, <1>7, <1>8, PartsAgain

(* The listener is ready: it changes hands. *)
LEMMA SetFlagsInv ==
  ASSUME SocketsInv, SetFlags
  PROVE  SocketsInv'
<1>. USE DEF SetFlags, Attempting, loopVars, Result
<1>1. Making /\ ~Making' /\ Result("listening") /\ "listening" \in Results
  BY DEF Making, Results
<1> DEFINE x == [objects[socket] EXCEPT !.m_isListener = TRUE]
<1>2. /\ x \in SocketObject /\ x.m_descriptor = objects[socket].m_descriptor
      /\ x.ssl = objects[socket].ssl
      /\ x.m_ssl = objects[socket].m_ssl /\ objects' = [objects EXCEPT ![socket] = x]
  BY <1>1, MakingIs DEF SocketObject
<1>. HIDE DEF x
<1>3. /\ objects' \in [Memory -> SocketObject \cup {nullptr}]
      /\ objects'[socket] = x /\ \A q \in Memory : q # socket => objects'[q] = objects[q]
      /\ Sockets' = Sockets \cup {socket}
      /\ Owned' = IF x.m_ssl THEN Owned \cup {socket} ELSE Owned \ {socket}
  BY <1>1, <1>2, MakingIs, Parts, ObjectSet
<1>4. Sockets' = Sockets /\ Owned' = Owned
  <2>1. socket \in Owned <=> x.m_ssl
    BY <1>1, <1>2, MakingIs DEF Owned
  <2>. QED BY <1>1, <1>3, <2>1, MakingIs
<1>5. TypeOK'
  <2>1. results' \in Seq(Results)
    BY Parts, AppendProperties DEF TypeOK, Results
  <2>. QED BY <1>1, <1>3, <2>1, MakingIs, Parts DEF TypeOK, Results
<1>6. OneOwner'
  BY <1>1, <1>4, MakingIs, Parts DEF OneOwner, MainOwns, LoopOwns, HasClient
<1>7. LoopsFit'
  BY <1>1, MakingIs DEF LoopsFit
<1>8. DescriptorsFit'
  BY <1>1, <1>2, <1>3, <1>4, MakingIs, Parts DEF DescriptorsFit, HandleFits, Sockets
<1>9. HandlesFit'
  <2>1. Cardinality(Lost') = Cardinality(Lost)
    BY <1>1, Parts, LostIs, HandlesAre
  <2>. QED BY <1>4, <2>1, Parts, HandlesAre DEF HandlesFit, HandlesOwned
<1>10. HandshakeFits' /\ HandshakeDone'
  BY <1>1, MakingIs DEF HandshakeFits, HandshakeDone
<1>11. AllInHand'
  <2>1. \A d \in Descriptors : Holders(d)' = Holders(d)
    BY <1>1, <1>2, <1>3, <1>4, MakingIs DEF Holders, Sockets
  <2>. QED BY <2>1, Parts, HandsKept
<1>. QED BY <1>5, <1>6, <1>7, <1>8, <1>9, <1>10, <1>11, PartsAgain

-----------------------------------------------------------------------------
(* The steps of the main thread that close what listens. *)

\* What is known of the handshake of one loop.
ShakingFits(p) ==
  /\ pc[p] \in {"hello", "end"} => ret[p] = 1
  /\ pc[p] \in {"hello", "end", "shaken"} => objects[client[p]].ssl /\ IsValid(client[p])
  /\ pc[p] = "shaken" =>
       Refused(ret[p]) \/ objects[client[p]].secured \/ flight[p] = "gone"
  /\ pc[p] = "made" /\ objects[client[p]].ssl /\ IsValid(client[p]) =>
       objects[client[p]].secured \/ flight[p] = "gone"

LEMMA ShakingIs ==
  (HandshakeFits /\ HandshakeDone) <=> \A p \in Loops : ShakingFits(p)
BY DEF HandshakeFits, HandshakeDone, ShakingFits

LEMMA ShakingAgain ==
  ASSUME \A p \in Loops : ShakingFits(p)'
  PROVE  HandshakeFits' /\ HandshakeDone'
BY DEF HandshakeFits, HandshakeDone, ShakingFits

(* A handshake that nobody touches. *)
LEMMA ShakingKept ==
  ASSUME SocketsInv, NEW p \in Loops, pc'[p] = pc[p], ret'[p] = ret[p], client'[p] = client[p],
         flight'[p] = flight[p], HasClient(p) => objects'[client[p]] = objects[client[p]]
  PROVE  ShakingFits(p)'
BY Parts, ShakingIs DEF ShakingFits, HasClient, IsValid

(* What a thread owns is a socket: no other's, and nothing is lost with it. *)
LEMMA MainOwned ==
  ASSUME SocketsInv, NEW o \in m_listeners
  PROVE  /\ o \in Sockets /\ o \in Memory /\ ~(Making /\ o = socket)
         /\ \A p \in Loops : ~LoopOwns(p, o)
         /\ HandleFits(o)
BY Parts DEF TypeOK, OneOwner, MainOwns, DescriptorsFit

LEMMA LoopOwned ==
  ASSUME SocketsInv, NEW p \in Loops, NEW o, o \in registered[p] \/ (HasClient(p) /\ o = client[p])
  PROVE  /\ o \in Sockets /\ o \in Memory /\ ~(Making /\ o = socket) /\ o \notin m_listeners
         /\ LoopOwns(p, o) /\ \A q \in Loops : LoopOwns(q, o) => q = p
         /\ HandleFits(o)
<1>1. o \in Memory
  BY Parts DEF TypeOK, OneOwner
<1>2. LoopOwns(p, o)
  BY DEF LoopOwns
<1>3. o \in Sockets /\ \A q \in Loops : LoopOwns(q, o) => q = p
  BY <1>1, <1>2, Parts DEF OneOwner
<1>4. ~MainOwns(o)
  BY <1>1, <1>2, Parts DEF OneOwner
<1>. QED BY <1>1, <1>2, <1>3, <1>4, Parts DEF MainOwns, DescriptorsFit

(* delete, outside of listen. *)
LEMMA Deleted ==
  ASSUME SocketsInv, NEW o \in Sockets, ~(Making /\ o = socket), Delete(o),
         UNCHANGED <<mainPc, socket, addresses, swapped, results, descriptor>>,
         \A p \in Loops : pc'[p] = "construct" <=> pc[p] = "construct"
  PROVE  /\ objects' \in [Memory -> SocketObject \cup {nullptr}] /\ handles' \in Nat
         /\ table' \in [Descriptors -> {"free", "socket", "listener", "connection", "file"}]
         /\ Sockets' = Sockets \ {o} /\ \A q \in Memory : q # o => objects'[q] = objects[q]
         /\ DescriptorsFit' /\ HandlesFit' /\ AllInHand'
<1>1. /\ objects' \in [Memory -> SocketObject \cup {nullptr}]
      /\ \A q \in Memory : q # o => objects'[q] = objects[q]
      /\ Sockets' = Sockets \ {o} /\ Owned' = Owned \ {o} /\ o \in Memory
  BY SocketIs, Parts, ObjectGone DEF Delete
<1>2. table' \in [Descriptors -> {"free", "socket", "listener", "connection", "file"}]
  BY Parts, WithoutIs DEF Delete, TypeOK
<1>3. HandleFits(o) /\ (objects[o].m_ssl => IsValid(o))
  BY Parts DEF DescriptorsFit, HandleFits, IsValid
<1>4. IsFiniteSet(Owned') /\ handles' - Cardinality(Owned') = handles - Cardinality(Owned)
  BY <1>3, Parts, HandlesWhenDeleted
<1>5. HandlesFit' /\ handles' \in Nat
  <2>1. Lost' = Lost
    BY DEF Lost
  <2>2. handles' \in Int
    BY Parts DEF Delete, TypeOK
  <2>3. Cardinality(Owned') \in Nat
    BY <1>4, FS_CardinalityType
  <2>. QED BY <1>4, <2>1, <2>2, <2>3, Parts, HandlesAre DEF HandlesFit, HandlesOwned
<1>6. DescriptorsFit'
  <2>1. \A q \in Sockets : q # o => HandleFits(q)'
    BY <1>1, Parts DEF DescriptorsFit, HandleFits, Making, Sockets
  <2>2. Making => objects'[socket] = objects[socket]
    BY <1>1, MakingIs
  <2>. QED BY <1>1, <2>1, <2>2, Parts DEF DescriptorsFit, Making, SslEnable
<1>7. AllInHand'
  BY <1>3, Parts, HandsWhenDeleted
<1>. QED BY <1>1, <1>2, <1>5, <1>6, <1>7

(* requestQuit takes the descriptor out of a listener, and frees its handle. *)
LEMMA CloseListenerInv ==
  ASSUME SocketsInv, NEW o \in Memory, CloseListener(o)
  PROVE  SocketsInv'
<1>. USE DEF CloseListener, loopVars
<1> DEFINE e == objects[o].m_descriptor
           x == [objects[o] EXCEPT !.m_descriptor = INVALID_SOCKET, !.m_ssl = FALSE]
<1>1. /\ o \in Sockets /\ ~Making /\ ~Making' /\ swapped = INVALID_SOCKET
      /\ \A p \in Loops : ~LoopOwns(p, o)
      /\ IsValidDescriptor(e) /\ e \in Descriptors /\ objects[o] \in SocketObject
  BY MainOwned, SocketIs, Parts DEF IsValid, Making, DescriptorsFit
<1>2. /\ x \in SocketObject /\ x.m_descriptor = INVALID_SOCKET /\ ~x.m_ssl
      /\ objects' = [objects EXCEPT ![o] = x]
  BY <1>1, Parts DEF SocketObject, Swapped, TypeOK
<1>3. /\ swapped' = e /\ swapped' \in Descriptors
      /\ handles' = handles - (IF objects[o].m_ssl THEN 1 ELSE 0)
  BY <1>1
<1>. HIDE DEF x, e
<1>4. /\ objects' \in [Memory -> SocketObject \cup {nullptr}]
      /\ objects'[o] = x /\ \A q \in Memory : q # o => objects'[q] = objects[q]
      /\ Sockets' = Sockets /\ Owned' = Owned \ {o}
  <2>1. /\ objects' \in [Memory -> SocketObject \cup {nullptr}]
        /\ objects'[o] = x /\ \A q \in Memory : q # o => objects'[q] = objects[q]
        /\ Sockets' = Sockets \cup {o}
        /\ Owned' = IF x.m_ssl THEN Owned \cup {o} ELSE Owned \ {o}
    BY <1>2, Parts, ObjectSet
  <2>. QED BY <1>1, <1>2, <2>1
<1>5. HandlesFit' /\ handles' \in Nat
  <2>1. o \in Owned <=> objects[o].m_ssl
    BY <1>1 DEF Owned
  <2>2. IsFiniteSet(Owned) /\ Cardinality(Owned) \in Nat /\ Cardinality(Lost) \in Nat /\ Lost' = Lost
    BY Parts, HandlesAre DEF HandlesFit, Lost
  <2>3. /\ IsFiniteSet(Owned') /\ Cardinality(Owned') \in Nat
        /\ Cardinality(Owned') = Cardinality(Owned) - (IF objects[o].m_ssl THEN 1 ELSE 0)
    <3>1. CASE objects[o].m_ssl
      BY <1>4, <2>1, <2>2, <3>1, FS_RemoveElement, FS_CardinalityType
    <3>2. CASE ~objects[o].m_ssl
      <4>1. Owned' = Owned
        BY <1>4, <2>1, <3>2
      <4>. QED BY <2>2, <3>2, <4>1
    <3>. QED BY <3>1, <3>2
  <2>. QED BY <1>3, <2>2, <2>3, Parts, HandlesAre DEF HandlesFit, HandlesOwned
<1>6. TypeOK'
  BY <1>1, <1>3, <1>4, <1>5, Parts DEF TypeOK
<1>7. OneOwner'
  BY <1>1, <1>4, Parts DEF OneOwner, MainOwns, LoopOwns, HasClient
<1>8. LoopsFit'
  BY Parts DEF LoopsFit
<1>9. DescriptorsFit'
  BY <1>1, <1>2, <1>3, <1>4, Numbers, Parts DEF DescriptorsFit, HandleFits, Sockets
<1>10. HandshakeFits' /\ HandshakeDone'
  <2>1. \A p \in Loops : HasClient(p) => client[p] # o /\ client[p] \in Memory
    BY <1>1, Parts DEF LoopOwns, OneOwner
  <2>. QED BY <1>4, <2>1, ShakingKept, ShakingAgain
<1>11. AllInHand'
  <2>. SUFFICES ASSUME 0 \notin Descriptors, NEW d \in Descriptors PROVE InOneHand(d)'
    BY DEF AllInHand
  <2>1. InOneHand(d) /\ UNCHANGED table
    BY Parts DEF AllInHand
  <2>2. /\ {q \in Sockets : objects[q].m_descriptor = d}' =
             {q \in Sockets : objects[q].m_descriptor = d} \ {o}
        /\ swapped # d
    BY <1>1, <1>2, <1>4, Numbers DEF Sockets
  <2>3. CASE d = e
    <3>1. o \in Holders(d)
      BY <1>1, <2>3, HoldersAre DEF e
    <3>2. Holders(d) = {o} /\ table[d] \notin {"free", "file"}
      BY <2>1, <3>1, HoldsAlone
    <3>3. o \notin Loops
      BY SocketsAssumption
    <3>4. Holders(d)' = {"close"}
      BY <1>3, <2>2, <2>3, <3>2, <3>3 DEF Holders
    <3>. QED BY <2>1, <3>2, <3>4 DEF InOneHand
  <2>4. CASE d # e
    <3>1. o \notin {q \in Sockets : objects[q].m_descriptor = d}
      BY <2>4 DEF e
    <3>2. Holders(d)' = Holders(d)
      BY <1>3, <2>2, <2>4, <3>1 DEF Holders
    <3>. QED BY <2>1, <3>2 DEF InOneHand
  <2>. QED BY <2>3, <2>4
<1>. QED BY <1>5, <1>6, <1>7, <1>8, <1>9, <1>10, <1>11, PartsAgain

(* ... and then closes it. *)
LEMMA CloseCallInv ==
  ASSUME SocketsInv, CloseCall
  PROVE  SocketsInv'
<1>. USE DEF CloseCall, loopVars
<1>1. TypeOK'
  <2>1. table' \in [Descriptors -> {"free", "socket", "listener", "connection", "file"}]
    BY Parts, WithoutIs
  <2>. QED BY <2>1, Parts DEF TypeOK
<1>2. ~Making /\ ~Making' /\ Sockets' = Sockets /\ Owned' = Owned
  BY DEF Making, Sockets, Owned
<1>3. OneOwner'
  BY <1>2, Parts DEF OneOwner, MainOwns, LoopOwns, HasClient
<1>4. LoopsFit'
  BY Parts DEF LoopsFit
<1>5. DescriptorsFit'
  BY <1>2, Parts DEF DescriptorsFit, HandleFits
<1>6. HandlesFit'
  BY <1>2, Parts, HandlesKept
<1>7. HandshakeFits' /\ HandshakeDone'
  BY Parts DEF HandshakeFits, HandshakeDone, IsValid
<1>8. AllInHand'
  <2>. SUFFICES ASSUME 0 \notin Descriptors, NEW d \in Descriptors PROVE InOneHand(d)'
    BY DEF AllInHand
  <2>1. InOneHand(d)
    BY Parts DEF AllInHand
  <2>2. Holders(d)' = Holders(d) \ {"close"}
    BY <1>2, Numbers, SocketsAssumption DEF Holders, Sockets
  <2>3. CASE swapped = d
    <3>1. Holders(d) = {"close"}
      BY <2>1, <2>3, HoldersAre, HoldsAlone
    <3>2. table'[d] = "free"
      BY <2>3, Parts, WithoutIs
    <3>. QED BY <2>2, <3>1, <3>2 DEF InOneHand
  <2>4. CASE swapped # d
    <3>1. "close" \notin Holders(d)
      BY <2>4, HoldersAre, SocketsAssumption DEF Sockets
    <3>2. table'[d] = table[d]
      BY <2>4, Parts, WithoutIs
    <3>. QED BY <2>1, <2>2, <3>1, <3>2 DEF InOneHand
  <2>. QED BY <2>3, <2>4
<1>. QED BY <1>1, <1>3, <1>4, <1>5, <1>6, <1>7, <1>8, PartsAgain

(* m_listeners.clear(). *)
LEMMA ClearListenersInv ==
  ASSUME SocketsInv, NEW o \in Memory, ClearListeners(o)
  PROVE  SocketsInv'
<1>. USE DEF ClearListeners, loopVars
<1>1. ~Making /\ ~Making' /\ o \in Sockets
  BY MainOwned DEF Making
<1>2. /\ objects' \in [Memory -> SocketObject \cup {nullptr}] /\ handles' \in Nat
      /\ table' \in [Descriptors -> {"free", "socket", "listener", "connection", "file"}]
      /\ Sockets' = Sockets \ {o}
      /\ DescriptorsFit' /\ HandlesFit' /\ AllInHand'
  BY <1>1, Deleted
<1>3. TypeOK'
  BY <1>2, Parts DEF TypeOK
<1>4. OneOwner'
  BY <1>1, <1>2, MainOwned, Parts DEF OneOwner, MainOwns, LoopOwns, HasClient
<1>5. LoopsFit' /\ HandshakeFits' /\ HandshakeDone'
  BY Parts DEF LoopsFit, HandshakeFits, HandshakeDone
<1>. QED BY <1>2, <1>3, <1>4, <1>5, PartsAgain

(* m_loops.clear(). *)
LEMMA ClearLoopsInv ==
  ASSUME SocketsInv, NEW p \in Loops, NEW o \in Memory, ClearLoops(p, o)
  PROVE  SocketsInv'
<1>. USE DEF ClearLoops, mainVars
<1>1. ~Making /\ ~Making' /\ o \in Sockets /\ o \notin m_listeners
  BY LoopOwned DEF Making
<1>2. /\ objects' \in [Memory -> SocketObject \cup {nullptr}] /\ handles' \in Nat
      /\ table' \in [Descriptors -> {"free", "socket", "listener", "connection", "file"}]
      /\ Sockets' = Sockets \ {o} /\ \A q \in Memory : q # o => objects'[q] = objects[q]
      /\ DescriptorsFit' /\ HandlesFit' /\ AllInHand'
  BY <1>1, Deleted
<1>3. /\ registered' \in [Loops -> SUBSET Memory] /\ registered'[p] = registered[p] \ {o}
      /\ \A q \in Loops : q # p => registered'[q] = registered[q]
  BY Parts DEF TypeOK
<1>4. TypeOK'
  BY <1>2, <1>3, Parts DEF TypeOK
<1>5. \A q \in Loops : HasClient(q) => client[q] # o /\ client[q] \in Memory
  BY LoopOwned, Parts DEF OneOwner, LoopOwns
<1>6. OneOwner'
  BY <1>1, <1>2, <1>3, <1>5, LoopOwned, Parts DEF OneOwner, MainOwns, LoopOwns, HasClient
<1>7. LoopsFit'
  BY Parts DEF LoopsFit
<1>8. HandshakeFits' /\ HandshakeDone'
  BY <1>2, <1>5, ShakingKept, ShakingAgain
<1>. QED BY <1>2, <1>4, <1>6, <1>7, <1>8, PartsAgain

-----------------------------------------------------------------------------
(* The steps of the loops. *)

(* epoll_wait reports a listener, and the loop asks whether it is valid. *)
LEMMA BeginAcceptInv ==
  ASSUME SocketsInv, NEW p \in Loops, NEW o \in Memory, BeginAccept(p, o)
  PROVE  SocketsInv'
<1>. USE DEF BeginAccept, Goes, mainVars
<1>1. TypeOK'
  BY Parts DEF TypeOK, heap
<1>2. AllInHand' /\ HandlesFit' /\ Sockets' = Sockets /\ UNCHANGED objects
  BY HeapKept
<1>3. pc[p] = "wait" /\ pc'[p] = "valid" /\ \A q \in Loops : q # p => pc'[q] = pc[q]
  BY Parts DEF TypeOK
<1>4. OneOwner'
  BY <1>2, <1>3, Parts DEF OneOwner, MainOwns, LoopOwns, Making, HasClient
<1>5. LoopsFit'
  BY <1>3, Parts DEF LoopsFit, TypeOK
<1>6. DescriptorsFit'
  BY <1>2, <1>3, Parts DEF DescriptorsFit, HandleFits, Making, SslEnable
<1>7. HandshakeFits' /\ HandshakeDone'
  <2>1. ShakingFits(p)'
    BY <1>3 DEF ShakingFits
  <2>2. \A q \in Loops : q # p => ShakingFits(q)'
    BY <1>2, <1>3, ShakingKept
  <2>. QED BY <2>1, <2>2, ShakingAgain
<1>. QED BY <1>1, <1>2, <1>4, <1>5, <1>6, <1>7, PartsAgain

\* A loop goes on between wait and accept4, and touches nothing.
Moves(p) ==
  /\ pc[p] \in {"wait", "valid", "read", "accept"}
  /\ pc' \in {[pc EXCEPT ![p] = to] : to \in {"wait", "read", "accept", "stopped"}}
  /\ pc[p] = "wait" => pc'[p] \in {"wait", "stopped"}
  /\ number' \in [Loops -> Descriptors \cup {INVALID_SOCKET}]
  /\ UNCHANGED <<mainVars, listener, descriptor, client, ret, flight, registered, heap,
                 clients, files>>

LEMMA MovesInv ==
  ASSUME SocketsInv, NEW p \in Loops, Moves(p)
  PROVE  SocketsInv'
<1>. USE DEF Moves, mainVars
<1>1. TypeOK'
  BY Parts DEF TypeOK, heap
<1>2. AllInHand' /\ HandlesFit' /\ Sockets' = Sockets /\ UNCHANGED objects
  BY HeapKept
<1>3. /\ pc'[p] \in {"wait", "read", "accept", "stopped"}
      /\ \A q \in Loops : q # p => pc'[q] = pc[q]
  BY Parts DEF TypeOK
<1>4. OneOwner'
  BY <1>2, <1>3, Parts DEF OneOwner, MainOwns, LoopOwns, Making, HasClient
<1>5. LoopsFit'
  BY <1>3, Parts DEF LoopsFit, TypeOK
<1>6. DescriptorsFit'
  BY <1>2, <1>3, Parts DEF DescriptorsFit, HandleFits, Making, SslEnable
<1>7. HandshakeFits' /\ HandshakeDone'
  <2>1. ShakingFits(p)'
    BY <1>3 DEF ShakingFits
  <2>2. \A q \in Loops : q # p => ShakingFits(q)'
    BY <1>2, <1>3, ShakingKept
  <2>. QED BY <2>1, <2>2, ShakingAgain
<1>. QED BY <1>1, <1>2, <1>4, <1>5, <1>6, <1>7, PartsAgain

LEMMA TestListenerMoves ==
  ASSUME SocketsInv, NEW p \in Loops, TestListener(p)
  PROVE  Moves(p)
BY Parts DEF TestListener, Moves, TypeOK

LEMMA ReadNumberMoves ==
  ASSUME SocketsInv, NEW p \in Loops, ReadNumber(p)
  PROVE  Moves(p)
<1>1. listener[p] \in m_listeners
  BY Parts DEF LoopsFit, ReadNumber, Goes
<1>2. objects[listener[p]].m_descriptor \in Descriptors \cup {INVALID_SOCKET}
  BY <1>1, MainOwned, Parts, SocketIs
<1>. QED BY <1>2, Parts DEF ReadNumber, Goes, Moves, TypeOK

LEMMA AcceptFailsMoves ==
  ASSUME SocketsInv, NEW p \in Loops, Accept4Fails(p) \/ Stop(p)
  PROVE  Moves(p)
<1>1. number \in [Loops -> Descriptors \cup {INVALID_SOCKET}]
  BY Parts DEF TypeOK
<1>. QED BY <1>1, Parts DEF Accept4Fails, Stop, Goes, Moves, TypeOK

(* accept4: the descriptor is the loop's until the constructor has it. *)
LEMMA Accept4Inv ==
  ASSUME SocketsInv, NEW p \in Loops, Accept4(p)
  PROVE  SocketsInv'
<1>. USE DEF Accept4, Goes, mainVars
<1> DEFINE e == Lowest
<1>1. /\ e \in Descriptors /\ table[e] = "free" /\ Becomes(e, "connection")
      /\ table' \in [Descriptors -> {"free", "socket", "listener", "connection", "file"}]
  BY LowestIsFree, Parts DEF Becomes, TypeOK
<1>2. /\ IsValidDescriptor(e) => descriptor' = [descriptor EXCEPT ![p] = e] /\ pc' = [pc EXCEPT ![p] = "construct"]
      /\ ~IsValidDescriptor(e) => descriptor' = descriptor /\ pc' = [pc EXCEPT ![p] = "wait"]
  OBVIOUS
<1>. HIDE DEF e
<1>3. /\ descriptor' \in [Loops -> Descriptors \cup {INVALID_SOCKET}]
      /\ \A q \in Loops : q # p => descriptor'[q] = descriptor[q] /\ pc'[q] = pc[q]
      /\ IF IsValidDescriptor(e) THEN descriptor'[p] = e /\ pc'[p] = "construct"
         ELSE descriptor'[p] = descriptor[p] /\ pc'[p] = "wait"
      /\ pc[p] = "accept" /\ UNCHANGED objects
  BY <1>1, <1>2, Parts DEF TypeOK
<1>4. TypeOK'
  BY <1>1, <1>2, <1>3, Parts DEF TypeOK
<1>5. Sockets' = Sockets /\ Owned' = Owned
  BY DEF Sockets, Owned
<1>6. OneOwner'
  BY <1>3, <1>5, Parts DEF OneOwner, MainOwns, LoopOwns, Making, HasClient
<1>7. LoopsFit'
  BY <1>3, Parts DEF LoopsFit
<1>8. DescriptorsFit'
  BY <1>3, <1>5, Numbers, Parts DEF DescriptorsFit, HandleFits, Making, SslEnable
<1>9. HandlesFit'
  BY <1>5, Parts, HandlesKept
<1>10. HandshakeFits' /\ HandshakeDone'
  <2>1. ShakingFits(p)'
    BY <1>3 DEF ShakingFits
  <2>2. \A q \in Loops : q # p => ShakingFits(q)'
    BY <1>3, ShakingKept
  <2>. QED BY <2>1, <2>2, ShakingAgain
<1>11. AllInHand'
  <2>. SUFFICES ASSUME 0 \notin Descriptors PROVE AllInHand'
    BY DEF AllInHand
  <2>1. IsValidDescriptor(e) /\ e # INVALID_SOCKET /\ descriptor[p] = INVALID_SOCKET
    BY <1>1, <1>3, Numbers, Parts DEF DescriptorsFit
  <2>2. \A d \in Descriptors : Holders(d)' = IF d = e THEN Holders(d) \cup {p} ELSE Holders(d)
    <3>. TAKE d \in Descriptors
    <3>1. {q \in Loops : descriptor[q] = d}' =
            IF d = e THEN {q \in Loops : descriptor[q] = d} \cup {p} ELSE {q \in Loops : descriptor[q] = d}
      BY <1>3, <2>1, Numbers
    <3>. QED BY <1>5, <3>1 DEF Holders
  <2>. QED BY <1>1, <2>2, Parts, HandsWhenTaken
<1>. QED BY <1>4, <1>6, <1>7, <1>8, <1>9, <1>10, <1>11, PartsAgain

(* The constructor takes the descriptor over. *)
LEMMA ConstructInv ==
  ASSUME SocketsInv, NEW p \in Loops, NEW o \in Memory, Construct(p, o)
  PROVE  SocketsInv'
<1>. USE DEF Construct, Goes, New, mainVars
<1> DEFINE ssl == objects[listener[p]].ssl
           x == [ssl |-> ssl, m_descriptor |-> descriptor[p], m_ssl |-> ssl,
                 m_isListener |-> FALSE, secured |-> FALSE]
<1>1. listener[p] \in m_listeners /\ ssl \in BOOLEAN
  <2>1. listener[p] \in m_listeners
    BY Parts DEF LoopsFit
  <2>. QED BY <2>1, MainOwned, SocketIs, Parts
<1>2. /\ x \in SocketObject /\ x.m_descriptor = descriptor[p] /\ x.ssl = ssl /\ x.m_ssl = ssl
      /\ objects' = [objects EXCEPT ![o] = x] /\ o \notin Sockets
      /\ handles' = handles + (IF ssl THEN 1 ELSE 0)
      /\ pc' = [pc EXCEPT ![p] = IF ssl THEN "hello" ELSE "made"]
  BY <1>1, Parts DEF SocketObject, TypeOK, Sockets
<1>. HIDE DEF x, ssl
<1>3. /\ objects' \in [Memory -> SocketObject \cup {nullptr}]
      /\ objects'[o] = x /\ \A q \in Memory : q # o => objects'[q] = objects[q]
      /\ Sockets' = Sockets \cup {o}
      /\ Owned' = IF x.m_ssl THEN Owned \cup {o} ELSE Owned \ {o}
  BY <1>2, Parts, ObjectSet
<1>4. /\ pc[p] = "construct" /\ pc'[p] = IF ssl THEN "hello" ELSE "made"
      /\ client'[p] = o /\ descriptor'[p] = INVALID_SOCKET /\ ret'[p] = 1
      /\ IsValidDescriptor(descriptor[p]) /\ descriptor[p] \in Descriptors \cup {INVALID_SOCKET}
      /\ \A q \in Loops : q # p => /\ pc'[q] = pc[q] /\ client'[q] = client[q] /\ ret'[q] = ret[q]
                                   /\ flight'[q] = flight[q] /\ descriptor'[q] = descriptor[q]
  BY <1>2, Parts DEF TypeOK, DescriptorsFit
<1>5. TypeOK'
  BY <1>1, <1>2, <1>3, Parts DEF TypeOK
<1>6. OneOwner'
  <2>1. \A q \in Loops : HasClient(q) => client[q] \in Sockets
    BY LoopOwned
  <2>2. \A q \in Loops : q # p => (HasClient(q)' <=> HasClient(q)) /\ client'[q] = client[q]
    BY <1>4 DEF HasClient
  <2>3. \A q \in Loops : o \notin registered[q]
    BY <1>2, LoopOwned
  <2>4. o \notin m_listeners /\ (Making => socket # o)
    BY <1>2, MainOwned, MakingIs
  <2>5. ~HasClient(p)
    BY <1>4 DEF HasClient
  <2>6. \A q \in Loops : \A y \in Memory : LoopOwns(q, y)' => LoopOwns(q, y) \/ (q = p /\ y = o)
    BY <1>4, <2>2, <2>5 DEF LoopOwns
  <2>7. \A y \in Memory : MainOwns(y)' <=> MainOwns(y)
    BY DEF MainOwns, Making
  <2>8. ~MainOwns(o) /\ \A q \in Loops : ~LoopOwns(q, o)
    BY <1>2, <2>1, <2>3, <2>4 DEF MainOwns, LoopOwns
  <2>9. \A q \in Loops : HasClient(q)' => client'[q] \in Memory \ registered'[q]
    BY <1>4, <2>2, <2>3, Parts DEF OneOwner
  <2>. QED BY <1>3, <2>6, <2>7, <2>8, <2>9, Parts DEF OneOwner, Making
<1>7. LoopsFit'
  BY <1>4, Parts DEF LoopsFit
<1>8. DescriptorsFit'
  <2>1. \A y \in Sockets : y # o /\ HandleFits(y)'
    BY <1>2, <1>3, Parts DEF DescriptorsFit, HandleFits, Making, Sockets
  <2>2. HandleFits(o)'
    BY <1>2, <1>3, <1>4 DEF HandleFits
  <2>3. Making => objects'[socket] = objects[socket]
    BY <1>2, <1>3, MakingIs
  <2>4. \A q \in Loops : IF pc'[q] = "construct" THEN IsValidDescriptor(descriptor'[q])
                                                 ELSE descriptor'[q] = INVALID_SOCKET
    BY <1>4, Parts DEF DescriptorsFit
  <2>. QED BY <1>3, <2>1, <2>2, <2>3, <2>4, Parts DEF DescriptorsFit, Making, SslEnable
<1>9. HandlesFit'
  <2>1. o \notin Owned /\ IsFiniteSet(Owned)
    BY <1>2, Parts DEF Owned, HandlesFit
  <2>2. Cardinality(Owned') = Cardinality(Owned) + (IF ssl THEN 1 ELSE 0) /\ IsFiniteSet(Owned')
    <3>1. CASE ssl
      BY <1>2, <1>3, <2>1, <3>1, FS_AddElement
    <3>2. CASE ~ssl
      <4>1. Owned' = Owned
        BY <1>2, <1>3, <2>1, <3>2
      <4>. QED BY <2>1, <3>2, <4>1, Parts, HandlesAre
    <3>. QED BY <3>1, <3>2
  <2>. QED BY <1>1, <1>2, <2>2, Parts, HandlesAre DEF HandlesFit, HandlesOwned, Lost
<1>10. HandshakeFits' /\ HandshakeDone'
  <2>1. ShakingFits(p)'
    BY <1>1, <1>2, <1>3, <1>4 DEF ShakingFits, IsValid
  <2>2. \A q \in Loops : HasClient(q) => client[q] # o /\ client[q] \in Memory
    BY <1>2, LoopOwned
  <2>3. \A q \in Loops : q # p => ShakingFits(q)'
    BY <1>3, <1>4, <2>2, ShakingKept
  <2>. QED BY <2>1, <2>3, ShakingAgain
<1>11. AllInHand'
  <2>. SUFFICES ASSUME 0 \notin Descriptors, NEW d \in Descriptors PROVE InOneHand(d)'
    BY DEF AllInHand
  <2>1. InOneHand(d) /\ UNCHANGED table /\ d # INVALID_SOCKET
    BY Numbers, Parts DEF AllInHand
  <2>2. {q \in Sockets : objects[q].m_descriptor = d}' =
          IF descriptor[p] = d THEN {q \in Sockets : objects[q].m_descriptor = d} \cup {o}
          ELSE {q \in Sockets : objects[q].m_descriptor = d}
    BY <1>2, <1>3 DEF Sockets
  <2>3. {q \in Loops : descriptor[q] = d}' = {q \in Loops : descriptor[q] = d} \ {p}
    BY <1>4, <2>1
  <2>4. CASE descriptor[p] = d
    <3>1. Holders(d) = {p}
      BY <2>1, <2>4, HoldersAre, HoldsAlone
    <3>2. p # "close" /\ p \notin Sockets
      BY SocketsAssumption DEF Sockets
    <3>3. Holders(d)' = {o}
      BY <2>2, <2>3, <2>4, <3>1, <3>2 DEF Holders
    <3>. QED BY <2>1, <3>1, <3>3 DEF InOneHand
  <2>5. CASE descriptor[p] # d
    <3>1. Holders(d)' = Holders(d)
      BY <2>2, <2>3, <2>5 DEF Holders
    <3>. QED BY <2>1, <3>1 DEF InOneHand
  <2>. QED BY <2>4, <2>5
<1>. QED BY <1>5, <1>6, <1>7, <1>8, <1>9, <1>10, <1>11, PartsAgain

(* A step of the constructor: the socket stays its loop's, and is all that changes. *)
LEMMA ClientGoesOn ==
  ASSUME SocketsInv, NEW p \in Loops, pc[p] \in {"hello", "end", "shaken"},
         NEW to \in {"end", "shaken", "made"}, pc' = [pc EXCEPT ![p] = to],
         NEW x \in SocketObject, objects' = [objects EXCEPT ![client[p]] = x],
         x.m_ssl <=> IsValidDescriptor(x.m_descriptor), x.ssl,
         UNCHANGED <<mainVars, listener, number, descriptor, client, registered>>
  PROVE  /\ objects' \in [Memory -> SocketObject \cup {nullptr}]
         /\ client[p] \in Sockets /\ client[p] \in Memory /\ objects'[client[p]] = x
         /\ Sockets' = Sockets
         /\ Owned' = IF x.m_ssl THEN Owned \cup {client[p]} ELSE Owned \ {client[p]}
         /\ pc' \in [Loops -> {"none", "wait", "valid", "read", "accept", "construct",
                               "hello", "end", "shaken", "made", "stopped"}]
         /\ pc'[p] = to
         /\ OneOwner' /\ LoopsFit' /\ DescriptorsFit'
         /\ \A q \in Loops : q # p => /\ pc'[q] = pc[q]
                                      /\ HasClient(q) => objects'[client[q]] = objects[client[q]]
<1>. USE DEF mainVars
<1> DEFINE o == client[p]
<1>1. /\ o \in Sockets /\ o \in Memory /\ ~(Making /\ o = socket) /\ o \notin m_listeners
      /\ \A q \in Loops : LoopOwns(q, o) => q = p
  BY LoopOwned DEF HasClient
<1>2. /\ objects' \in [Memory -> SocketObject \cup {nullptr}]
      /\ objects'[o] = x /\ \A q \in Memory : q # o => objects'[q] = objects[q]
      /\ Sockets' = Sockets \cup {o}
      /\ Owned' = IF x.m_ssl THEN Owned \cup {o} ELSE Owned \ {o}
  BY <1>1, Parts, ObjectSet
<1>3. Sockets' = Sockets
  BY <1>1, <1>2
<1>4. /\ pc' \in [Loops -> {"none", "wait", "valid", "read", "accept", "construct",
                            "hello", "end", "shaken", "made", "stopped"}]
      /\ pc'[p] = to /\ \A q \in Loops : q # p => pc'[q] = pc[q]
  BY Parts DEF TypeOK
<1>5. \A q \in Loops : HasClient(q)' <=> HasClient(q)
  BY <1>4 DEF HasClient
<1>6. OneOwner'
  BY <1>3, <1>5, Parts DEF OneOwner, MainOwns, LoopOwns, Making
<1>7. LoopsFit'
  BY <1>4, Parts DEF LoopsFit
<1>8. DescriptorsFit'
  <2>1. \A y \in Sockets : y # o => HandleFits(y)'
    BY <1>2, Parts DEF DescriptorsFit, HandleFits, Making, Sockets
  <2>2. HandleFits(o)'
    BY <1>2 DEF HandleFits
  <2>3. Making => objects'[socket] = objects[socket]
    BY <1>1, <1>2, MakingIs
  <2>4. \A q \in Loops : IF pc'[q] = "construct" THEN IsValidDescriptor(descriptor'[q])
                                                 ELSE descriptor'[q] = INVALID_SOCKET
    BY <1>4, Parts DEF DescriptorsFit
  <2>. QED BY <1>3, <2>1, <2>2, <2>3, <2>4, Parts DEF DescriptorsFit, Making, SslEnable
<1>9. \A q \in Loops : q # p /\ HasClient(q) => client[q] # o /\ client[q] \in Memory
  BY <1>1, LoopOwned DEF LoopOwns
<1>. QED BY <1>1, <1>2, <1>3, <1>4, <1>6, <1>7, <1>8, <1>9

(* SSL_accept reads what the client has sent, or returns. *)
LEMMA ReadInv ==
  ASSUME SocketsInv, NEW p \in Loops, ReadHello(p) \/ ReadEnd(p)
  PROVE  SocketsInv'
<1>. USE DEF ReadHello, ReadEnd, Handshake, mainVars
<1> DEFINE o == client[p]
<1>1. /\ pc[p] \in {"hello", "end"} /\ ret[p] = 1 /\ objects[o].ssl /\ IsValid(o)
      /\ objects[o] \in SocketObject /\ o \in Sockets /\ o \in Memory
  BY LoopOwned, SocketIs, Parts DEF HandshakeFits, HasClient
<1>2. PICK to \in {"end", "shaken"}, y \in BOOLEAN :
        /\ pc' = [pc EXCEPT ![p] = to]
        /\ objects' = [objects EXCEPT ![o] = [objects[o] EXCEPT !.secured = y]]
        /\ to = "end" => UNCHANGED ret
        /\ to = "shaken" => \/ y /\ UNCHANGED flight
                            \/ /\ UNCHANGED flight
                               /\ ret' \in [Loops -> {-1, 0, 1}]
                               /\ ret'[p] = -1 \/ (ret'[p] = 0 /\ flight[p] = "gone")
        /\ flight' \in [Loops -> {"none", "hello", "answered", "end", "gone"}]
        /\ ret' \in [Loops -> {-1, 0, 1}]
        /\ \A q \in Loops : q # p => flight'[q] = flight[q] /\ ret'[q] = ret[q]
  <2>1. CASE UNCHANGED objects
    <3>1. objects' = [objects EXCEPT ![o] = [objects[o] EXCEPT !.secured = objects[o].secured]]
      BY <1>1, <2>1, Parts DEF TypeOK, SocketObject
    <3>2. objects[o].secured \in BOOLEAN
      BY <1>1 DEF SocketObject
    <3>3. CASE ReadHello(p) /\ flight[p] = "hello"
      <4>1. /\ pc' = [pc EXCEPT ![p] = "end"] /\ UNCHANGED ret
            /\ flight' = [flight EXCEPT ![p] = "answered"]
        BY <3>3
      <4>. QED BY <3>1, <3>2, <4>1, Parts DEF TypeOK
    <3>4. CASE ~(ReadHello(p) /\ flight[p] = "hello") /\ ~(ReadEnd(p) /\ flight[p] = "end")
      <4>1. /\ pc' = [pc EXCEPT ![p] = "shaken"] /\ UNCHANGED flight
            /\ ret' \in {[ret EXCEPT ![p] = r] : r \in IF flight[p] = "gone" THEN {0, -1} ELSE {-1}}
        BY <3>4
      <4>2. PICK r \in {0, -1} : /\ ret' = [ret EXCEPT ![p] = r] /\ r = 0 => flight[p] = "gone"
        BY <4>1
      <4>. QED BY <3>1, <3>2, <4>1, <4>2, Parts DEF TypeOK
    <3>5. CASE ReadEnd(p) /\ flight[p] = "end"
      <4>1. /\ pc' = [pc EXCEPT ![p] = "shaken"] /\ UNCHANGED <<flight, ret>>
            /\ objects' = [objects EXCEPT ![o] = [objects[o] EXCEPT !.secured = TRUE]]
        BY <3>5
      <4>. QED BY <4>1, Parts DEF TypeOK
    <3>. QED BY <3>3, <3>4, <3>5
  <2>2. CASE ~UNCHANGED objects
    <3>1. /\ pc' = [pc EXCEPT ![p] = "shaken"] /\ UNCHANGED <<flight, ret>>
          /\ objects' = [objects EXCEPT ![o] = [objects[o] EXCEPT !.secured = TRUE]]
      BY <2>2
    <3>. QED BY <3>1, Parts DEF TypeOK
  <2>. QED BY <2>1, <2>2
<1> DEFINE x == [objects[o] EXCEPT !.secured = y]
<1>3. /\ x \in SocketObject /\ x.ssl /\ x.m_ssl /\ x.m_descriptor = objects[o].m_descriptor
      /\ x.secured = y /\ IsValidDescriptor(x.m_descriptor)
      /\ objects' = [objects EXCEPT ![o] = x] /\ objects[o].m_ssl
      /\ x.m_ssl <=> IsValidDescriptor(x.m_descriptor)
  BY <1>1, <1>2 DEF SocketObject, IsValid, IsValidDescriptor
<1>. HIDE DEF x
<1>4. /\ objects' \in [Memory -> SocketObject \cup {nullptr}] /\ objects'[o] = x
      /\ Sockets' = Sockets /\ Owned' = Owned \cup {o}
      /\ pc' \in [Loops -> {"none", "wait", "valid", "read", "accept", "construct",
                            "hello", "end", "shaken", "made", "stopped"}]
      /\ pc'[p] = to
      /\ OneOwner' /\ LoopsFit' /\ DescriptorsFit'
      /\ \A q \in Loops : q # p => /\ pc'[q] = pc[q]
                                   /\ HasClient(q) => objects'[client[q]] = objects[client[q]]
  BY <1>1, <1>2, <1>3, ClientGoesOn
<1>5. TypeOK'
  BY <1>2, <1>4, Parts DEF TypeOK
<1>6. HandlesFit'
  <2>1. Owned' = Owned
    BY <1>1, <1>3, <1>4 DEF Owned
  <2>. QED BY <2>1, Parts, HandlesKept
<1>7. HandshakeFits' /\ HandshakeDone'
  <2>1. ShakingFits(p)'
    BY <1>1, <1>2, <1>3, <1>4 DEF ShakingFits, IsValid, Refused
  <2>2. \A q \in Loops : q # p => ShakingFits(q)'
    BY <1>2, <1>4, ShakingKept
  <2>. QED BY <2>1, <2>2, ShakingAgain
<1>8. AllInHand'
  <2>1. \A d \in Descriptors : Holders(d)' = Holders(d)
    <3>. TAKE d \in Descriptors
    <3>1. Holders(d)' = IF x # nullptr /\ x.m_descriptor = d THEN Holders(d) \cup {o} ELSE Holders(d) \ {o}
      BY <1>1, <1>3, Parts, HoldersSet
    <3>2. o \in Holders(d) <=> objects[o].m_descriptor = d
      BY <1>1, HoldersAre, SocketsAssumption
    <3>3. x # nullptr
      BY <1>3, SocketsAssumption
    <3>. QED BY <1>3, <3>1, <3>2, <3>3
  <2>. QED BY <2>1, Parts, HandsKept
<1>. QED BY <1>4, <1>5, <1>6, <1>7, <1>8, PartsAgain

(* The constructor ends: it keeps the connection, or closes it. *)
LEMMA ShakenInv ==
  ASSUME SocketsInv, NEW p \in Loops, Shaken(p)
  PROVE  SocketsInv'
<1>. USE DEF Shaken, Goes, mainVars
<1> DEFINE o == client[p]
           closed == [objects[o] EXCEPT !.m_descriptor = INVALID_SOCKET, !.m_ssl = FALSE]
           x == IF Refused(ret[p]) THEN closed ELSE objects[o]
<1>1. /\ pc[p] = "shaken" /\ objects[o].ssl /\ IsValid(o)
      /\ objects[o] \in SocketObject /\ o \in Sockets /\ o \in Memory
      /\ Refused(ret[p]) \/ objects[o].secured \/ flight[p] = "gone"
  BY LoopOwned, SocketIs, Parts DEF HandshakeFits, HasClient
<1>2. CASE Refused(ret[p])
  <2>1. /\ closed \in SocketObject /\ closed.ssl /\ closed.m_ssl = FALSE
        /\ closed.m_descriptor = INVALID_SOCKET
        /\ objects' = [objects EXCEPT ![o] = closed] /\ handles' = handles - 1
        /\ table' = Without(objects[o].m_descriptor) /\ objects[o].m_ssl
    BY <1>1, <1>2 DEF SocketObject, IsValid
  <2>. HIDE DEF closed
  <2>2. /\ objects' \in [Memory -> SocketObject \cup {nullptr}] /\ objects'[o] = closed
        /\ Owned' = Owned \ {o} /\ pc'[p] = "made"
        /\ pc' \in [Loops -> {"none", "wait", "valid", "read", "accept", "construct",
                              "hello", "end", "shaken", "made", "stopped"}]
        /\ OneOwner' /\ LoopsFit' /\ DescriptorsFit'
        /\ \A q \in Loops : q # p => /\ pc'[q] = pc[q]
                                     /\ HasClient(q) => objects'[client[q]] = objects[client[q]]
    <3>1. closed.m_ssl <=> IsValidDescriptor(closed.m_descriptor)
      BY <2>1, Numbers
    <3>. QED BY <1>1, <2>1, <3>1, ClientGoesOn
  <2>3. /\ IsFiniteSet(Owned') /\ Cardinality(Owned') = Cardinality(Owned) - 1
        /\ Cardinality(Owned') \in Nat
    <3>1. o \in Owned /\ IsFiniteSet(Owned)
      BY <1>1, <2>1, Parts DEF Owned, HandlesFit
    <3>. QED BY <2>2, <3>1, FS_RemoveElement, FS_CardinalityType
  <2>4. HandlesFit' /\ handles' \in Nat
    <3>1. Lost' = Lost
      BY DEF Lost
    <3>. QED BY <2>1, <2>3, <3>1, Parts, HandlesAre DEF HandlesFit, HandlesOwned
  <2>5. TypeOK'
    BY <2>1, <2>2, <2>4, Parts, WithoutIs DEF TypeOK
  <2>6. HandshakeFits' /\ HandshakeDone'
    <3>1. ShakingFits(p)'
      BY <2>1, <2>2, Numbers DEF ShakingFits, IsValid
    <3>2. \A q \in Loops : q # p => ShakingFits(q)'
      BY <2>2, ShakingKept
    <3>. QED BY <3>1, <3>2, ShakingAgain
  <2>7. AllInHand'
    BY <1>1, <2>1, Parts, HandsWhenClosed
  <2>. QED BY <2>2, <2>4, <2>5, <2>6, <2>7, PartsAgain
<1>3. CASE ~Refused(ret[p])
  <2>1. UNCHANGED heap /\ pc' = [pc EXCEPT ![p] = "made"]
    BY <1>3
  <2>2. AllInHand' /\ HandlesFit' /\ Sockets' = Sockets /\ UNCHANGED objects
    BY <2>1, HeapKept
  <2>3. TypeOK'
    BY <2>1, Parts DEF TypeOK, heap
  <2>4. /\ pc[p] = "shaken" /\ pc'[p] = "made" /\ \A q \in Loops : q # p => pc'[q] = pc[q]
    BY <2>1, Parts DEF TypeOK
  <2>5. OneOwner'
    BY <2>2, <2>4, Parts DEF OneOwner, MainOwns, LoopOwns, Making, HasClient
  <2>6. LoopsFit'
    BY <2>4, Parts DEF LoopsFit
  <2>7. DescriptorsFit'
    BY <2>2, <2>4, Parts DEF DescriptorsFit, HandleFits, Making, SslEnable
  <2>8. HandshakeFits' /\ HandshakeDone'
    <3>1. ShakingFits(p)'
      BY <1>1, <1>3, <2>2, <2>4 DEF ShakingFits
    <3>2. \A q \in Loops : q # p => ShakingFits(q)'
      BY <2>2, <2>4, ShakingKept
    <3>. QED BY <3>1, <3>2, ShakingAgain
  <2>. QED BY <2>2, <2>3, <2>5, <2>6, <2>7, <2>8, PartsAgain
<1>. QED BY <1>2, <1>3

(* The loop registers the connection, or deletes it. *)
LEMMA RegisterInv ==
  ASSUME SocketsInv, NEW p \in Loops, Register(p)
  PROVE  SocketsInv'
<1>. USE DEF Register, Goes, mainVars
<1> DEFINE o == client[p]
<1>1. /\ pc[p] = "made" /\ HasClient(p) /\ o \in Memory /\ o \in Sockets /\ ~(Making /\ o = socket)
      /\ o \notin m_listeners /\ o \notin registered[p]
      /\ \A q \in Loops : LoopOwns(q, o) => q = p
  BY LoopOwned, Parts DEF HasClient, OneOwner
<1>2. /\ pc' \in [Loops -> {"none", "wait", "valid", "read", "accept", "construct",
                            "hello", "end", "shaken", "made", "stopped"}]
      /\ pc'[p] = "valid" /\ client' \in [Loops -> Memory \cup {nullptr}]
      /\ \A q \in Loops : q # p => pc'[q] = pc[q] /\ client'[q] = client[q]
  BY Parts DEF TypeOK
<1>3. ~HasClient(p)' /\ \A q \in Loops : q # p => (HasClient(q)' <=> HasClient(q))
  BY <1>2 DEF HasClient
<1>4. LoopsFit'
  BY <1>1, <1>2, Parts DEF LoopsFit
<1>5. \A q \in Loops : q # p /\ HasClient(q) => client[q] # o /\ client[q] \in Memory
  BY <1>1, LoopOwned DEF LoopOwns
<1>6. ShakingFits(p)'
  BY <1>2 DEF ShakingFits
<1>7. CASE IsValid(o)
  <2>1. UNCHANGED heap /\ registered' = [registered EXCEPT ![p] = @ \cup {o}]
    BY <1>7
  <2>2. AllInHand' /\ HandlesFit' /\ Sockets' = Sockets /\ UNCHANGED objects
    BY <2>1, HeapKept
  <2>3. /\ registered' \in [Loops -> SUBSET Memory] /\ registered'[p] = registered[p] \cup {o}
        /\ \A q \in Loops : q # p => registered'[q] = registered[q]
    BY <1>1, <2>1, Parts DEF TypeOK
  <2>4. TypeOK'
    BY <1>2, <2>1, <2>3, Parts DEF TypeOK, heap
  <2>5. OneOwner'
    <3>1. \A q \in Loops : \A y \in Memory : LoopOwns(q, y)' <=> LoopOwns(q, y)
      BY <1>1, <1>2, <1>3, <2>3 DEF LoopOwns
    <3>2. \A q \in Loops : HasClient(q)' => client'[q] \in Memory \ registered'[q]
      BY <1>2, <1>3, <2>3, Parts DEF OneOwner
    <3>. QED BY <2>2, <3>1, <3>2, Parts DEF OneOwner, MainOwns, Making
  <2>6. DescriptorsFit'
    BY <1>1, <1>2, <2>2, Parts DEF DescriptorsFit, HandleFits, Making, SslEnable
  <2>7. HandshakeFits' /\ HandshakeDone'
    <3>1. \A q \in Loops : q # p => ShakingFits(q)'
      BY <1>2, <2>2, ShakingKept
    <3>. QED BY <1>6, <3>1, ShakingAgain
  <2>. QED BY <1>4, <2>2, <2>4, <2>5, <2>6, <2>7, PartsAgain
<1>8. CASE ~IsValid(o)
  <2>1. Delete(o) /\ UNCHANGED registered
    BY <1>8
  <2>2. /\ objects' \in [Memory -> SocketObject \cup {nullptr}] /\ handles' \in Nat
        /\ table' \in [Descriptors -> {"free", "socket", "listener", "connection", "file"}]
        /\ Sockets' = Sockets \ {o} /\ \A q \in Memory : q # o => objects'[q] = objects[q]
        /\ DescriptorsFit' /\ HandlesFit' /\ AllInHand'
    <3>1. \A q \in Loops : pc'[q] = "construct" <=> pc[q] = "construct"
      BY <1>1, <1>2
    <3>. QED BY <1>1, <2>1, <3>1, Deleted
  <2>3. TypeOK'
    BY <1>2, <2>1, <2>2, Parts DEF TypeOK
  <2>4. OneOwner'
    <3>1. \A q \in Loops : \A y \in Memory : LoopOwns(q, y)' => LoopOwns(q, y) /\ y # o
      BY <1>1, <1>2, <1>3, <1>5, <2>1 DEF LoopOwns
    <3>2. \A q \in Loops : HasClient(q)' => client'[q] \in Memory \ registered'[q]
      BY <1>2, <1>3, <2>1, Parts DEF OneOwner
    <3>. QED BY <1>1, <2>2, <3>1, <3>2, Parts DEF OneOwner, MainOwns, Making
  <2>5. HandshakeFits' /\ HandshakeDone'
    <3>1. \A q \in Loops : q # p => ShakingFits(q)'
      BY <1>2, <1>5, <2>2, ShakingKept
    <3>. QED BY <1>6, <3>1, ShakingAgain
  <2>. QED BY <1>4, <2>2, <2>3, <2>4, <2>5, PartsAgain
<1>. QED BY <1>7, <1>8

(* The loop deletes a connection. *)
LEMMA CloseConnectionInv ==
  ASSUME SocketsInv, NEW p \in Loops, NEW o \in Memory, CloseConnection(p, o)
  PROVE  SocketsInv'
<1>. USE DEF CloseConnection, Goes, mainVars
<1>1. /\ o \in Sockets /\ o \notin m_listeners /\ ~(Making /\ o = socket)
      /\ \A q \in Loops : LoopOwns(q, o) => q = p
  BY LoopOwned
<1>2. pc' = pc /\ pc[p] = "wait"
  BY Parts DEF TypeOK
<1>3. /\ objects' \in [Memory -> SocketObject \cup {nullptr}] /\ handles' \in Nat
      /\ table' \in [Descriptors -> {"free", "socket", "listener", "connection", "file"}]
      /\ Sockets' = Sockets \ {o} /\ \A q \in Memory : q # o => objects'[q] = objects[q]
      /\ DescriptorsFit' /\ HandlesFit' /\ AllInHand'
  BY <1>1, <1>2, Deleted
<1>4. /\ registered' \in [Loops -> SUBSET Memory] /\ registered'[p] = registered[p] \ {o}
      /\ \A q \in Loops : q # p => registered'[q] = registered[q]
  BY Parts DEF TypeOK
<1>5. TypeOK'
  BY <1>2, <1>3, <1>4, Parts DEF TypeOK
<1>6. \A q \in Loops : HasClient(q) => client[q] # o /\ client[q] \in Memory
  BY <1>1, <1>2, Parts DEF OneOwner, LoopOwns, HasClient
<1>7. OneOwner'
  <2>1. \A q \in Loops : \A y \in Memory : LoopOwns(q, y)' => LoopOwns(q, y) /\ y # o
    BY <1>1, <1>2, <1>4, <1>6 DEF LoopOwns, HasClient
  <2>2. \A q \in Loops : HasClient(q)' => client'[q] \in Memory \ registered'[q]
    BY <1>2, <1>4, Parts DEF OneOwner, HasClient
  <2>. QED BY <1>1, <1>3, <2>1, <2>2, Parts DEF OneOwner, MainOwns, Making
<1>8. LoopsFit'
  BY <1>2, Parts DEF LoopsFit
<1>9. HandshakeFits' /\ HandshakeDone'
  BY <1>2, <1>3, <1>6, ShakingKept, ShakingAgain
<1>. QED BY <1>3, <1>5, <1>7, <1>8, <1>9, PartsAgain

(* The pool opens a file. *)
LEMMA OpenFileInv ==
  ASSUME SocketsInv, NEW p \in Loops, OpenFile(p)
  PROVE  SocketsInv'
<1>. USE DEF OpenFile, Goes, mainVars
<1>1. /\ table' \in [Descriptors -> {"free", "socket", "listener", "connection", "file"}]
      /\ table[Lowest] = "free" /\ table'[Lowest] = "file"
      /\ \A d \in Descriptors : d # Lowest => table'[d] = table[d]
  BY LowestIsFree, Parts DEF Becomes, TypeOK
<1>2. pc' = pc /\ Sockets' = Sockets /\ Owned' = Owned
  BY Parts DEF TypeOK, Sockets, Owned
<1>3. TypeOK'
  BY <1>1, <1>2, Parts DEF TypeOK
<1>4. OneOwner' /\ LoopsFit'
  BY <1>2, Parts DEF OneOwner, MainOwns, LoopOwns, Making, HasClient, LoopsFit
<1>5. DescriptorsFit'
  BY <1>2, Parts DEF DescriptorsFit, HandleFits, Making, SslEnable
<1>6. HandlesFit'
  BY <1>2, Parts, HandlesKept
<1>7. HandshakeFits' /\ HandshakeDone'
  BY <1>2, Parts DEF HandshakeFits, HandshakeDone, IsValid
<1>8. AllInHand'
  <2>1. \A d : Holders(d)' = Holders(d)
    BY <1>2 DEF Holders, Sockets
  <2>. QED BY <1>1, <2>1, Parts, HandsKept
<1>. QED BY <1>3, <1>4, <1>5, <1>6, <1>7, <1>8, PartsAgain

(* The client sends, or goes. *)
LEMMA ClientInv ==
  ASSUME SocketsInv, NEW p \in Loops, Client(p)
  PROVE  SocketsInv'
<1>. USE DEF Client, mainVars
<1>1. /\ flight' \in [Loops -> {"none", "hello", "answered", "end", "gone"}]
      /\ \A q \in Loops : q # p => flight'[q] = flight[q]
  <2>1. PICK f \in {"hello", "end", "gone"} : flight' = [flight EXCEPT ![p] = f]
    <3>1. flight[p] \in {"none", "hello", "answered", "end", "gone"}
      BY Parts DEF TypeOK
    <3>2. CASE flight[p] = "none"
      BY <3>2
    <3>3. CASE flight[p] = "answered"
      BY <3>3
    <3>4. CASE flight[p] \in {"hello", "end", "gone"}
      BY <3>4
    <3>. QED BY <3>1, <3>2, <3>3, <3>4
  <2>. QED BY <2>1, Parts DEF TypeOK
<1>2. AllInHand' /\ HandlesFit' /\ Sockets' = Sockets /\ UNCHANGED objects
  BY HeapKept
<1>3. TypeOK'
  BY <1>1, Parts DEF TypeOK, heap
<1>4. OneOwner' /\ LoopsFit'
  BY <1>2, Parts DEF OneOwner, MainOwns, LoopOwns, Making, HasClient, LoopsFit
<1>5. DescriptorsFit'
  BY <1>2, Parts DEF DescriptorsFit, HandleFits, Making, SslEnable
<1>6. HandshakeFits' /\ HandshakeDone'
  <2>1. ShakingFits(p)'
    BY <1>2, Parts, ShakingIs DEF ShakingFits, IsValid
  <2>2. \A q \in Loops : q # p => ShakingFits(q)'
    BY <1>1, <1>2, ShakingKept
  <2>. QED BY <2>1, <2>2, ShakingAgain
<1>. QED BY <1>2, <1>3, <1>4, <1>5, <1>6, PartsAgain

-----------------------------------------------------------------------------
(* The invariant, and what it says. *)

LEMMA InitInv == Init => SocketsInv
<1>. SUFFICES ASSUME Init PROVE SocketsInv
  OBVIOUS
<1>. USE DEF Init
<1>1. Sockets = {} /\ Owned = {} /\ Lost = {}
  BY DEF Sockets, Owned, Lost
<1>2. TypeOK
  <2>1. 0 \in 0..Addresses /\ results \in Seq({"notAvailable", "noAddress", "noListen", "noFlags", "listening"})
    BY SocketsAssumption
  <2>. QED BY <2>1 DEF TypeOK
<1>3. OneOwner /\ LoopsFit /\ DescriptorsFit
  BY <1>1 DEF OneOwner, MainOwns, LoopOwns, Making, HasClient, LoopsFit, DescriptorsFit
<1>4. IsFiniteSet(Owned) /\ HandlesOwned
  BY <1>1, FS_EmptySet DEF HandlesOwned
<1>5. HandshakeFits /\ HandshakeDone
  BY DEF HandshakeFits, HandshakeDone
<1>6. \A d \in Descriptors : InOneHand(d)
  BY <1>1, Numbers DEF InOneHand, Holders
<1>. QED BY <1>2, <1>3, <1>4, <1>5, <1>6 DEF SocketsInv

(* Nothing happens. *)
LEMMA StutterInv ==
  ASSUME SocketsInv, UNCHANGED vars
  PROVE  SocketsInv'
<1>. USE DEF vars, mainVars, loopVars
<1>1. AllInHand' /\ HandlesFit' /\ Sockets' = Sockets /\ UNCHANGED objects
  BY HeapKept
<1>2. TypeOK'
  BY Parts DEF TypeOK, heap
<1>3. OneOwner' /\ LoopsFit'
  BY <1>1, Parts DEF OneOwner, MainOwns, LoopOwns, Making, HasClient, LoopsFit
<1>4. DescriptorsFit'
  BY <1>1, Parts DEF DescriptorsFit, HandleFits, Making, SslEnable
<1>5. HandshakeFits' /\ HandshakeDone'
  BY <1>1, Parts DEF HandshakeFits, HandshakeDone, IsValid
<1>. QED BY <1>1, <1>2, <1>3, <1>4, <1>5, PartsAgain

LEMMA NextInv == SocketsInv /\ [Next]_vars => SocketsInv'
<1>. SUFFICES ASSUME SocketsInv, [Next]_vars PROVE SocketsInv'
  OBVIOUS
<1>1. CASE Main
  <2>1. CASE \E o \in Memory : BeginListen(o) \/ CloseListener(o) \/ ClearListeners(o)
    BY <2>1, BeginListenInv, CloseListenerInv, ClearListenersInv
  <2>2. CASE \E p \in Loops, o \in Memory : ClearLoops(p, o)
    BY <2>2, ClearLoopsInv
  <2>. QED BY <1>1, <2>1, <2>2, InitializatSslInv, NotAvailableInv, CreateSocketInv, BindInv,
              BindFailsInv, NoAddressInv, ListenInv, ListenFailsInv, SetFlagsInv, FlagsFailInv,
              StartInv, CloseCallInv, CleanUpInv DEF Main
<1>2. ASSUME NEW p \in Loops, Loop(p) PROVE SocketsInv'
  <2>1. CASE \E o \in Memory : BeginAccept(p, o) \/ Construct(p, o) \/ CloseConnection(p, o)
    BY <2>1, BeginAcceptInv, ConstructInv, CloseConnectionInv
  <2>2. CASE TestListener(p) \/ ReadNumber(p) \/ Accept4Fails(p) \/ Stop(p)
    BY <2>2, TestListenerMoves, ReadNumberMoves, AcceptFailsMoves, MovesInv
  <2>. QED BY <1>2, <2>1, <2>2, Accept4Inv, ReadInv, ShakenInv, RegisterInv, OpenFileInv DEF Loop
<1>3. CASE UNCHANGED vars
  BY <1>3, StutterInv
<1>. QED BY <1>1, <1>2, <1>3, ClientInv DEF Next

(* From listen to exit: every socket has one owner, who deletes it; it holds a *)
(* descriptor and a handle exactly while it is valid; what a loop accepts from *)
(* is a listener that is not yet deleted.                                      *)
THEOREM SocketsInvariant == Spec => []SocketsInv
BY InitInv, NextInv, PTL DEF Spec

(* Every SSL object is freed once, and all are but those of the listeners that *)
(* could not listen (~SslSocket asks isValid, which says no).                  *)
THEOREM EveryHandleIsOwned == Spec => []HandlesOwned
<1>1. SocketsInv => HandlesOwned
  BY DEF SocketsInv
<1>. QED BY <1>1, SocketsInvariant, PTL

(* A connection over TLS is registered when its handshake is done, or its      *)
(* client has gone.                                                            *)
THEOREM HandshakeIsDone == Spec => []HandshakeDone
<1>1. SocketsInv => HandshakeDone
  BY DEF SocketsInv
<1>. QED BY <1>1, SocketsInvariant, PTL

(* Every descriptor of a socket is in one hand, and no closed one's is kept,   *)
(* where the process has standard input open: TcpSocket takes descriptor 0 for *)
(* invalid (isValid is descriptor > 0), and would lose it.                     *)
THEOREM EveryDescriptorIsOwned ==
  ASSUME 0 \notin Descriptors
  PROVE  Spec => []DescriptorsOwned
<1>1. SocketsInv => DescriptorsOwned
  BY OneHandCounts DEF SocketsInv, DescriptorsOwned
<1>. QED BY <1>1, SocketsInvariant, PTL
=============================================================================
