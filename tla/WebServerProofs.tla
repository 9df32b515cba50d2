---------------------------- MODULE WebServerProofs ----------------------------
(***************************************************************************)
(* Proofs about WebServer for any number of loops, listeners and clients,  *)
(* any timeout and any number of requestQuits: types, and that no queue,   *)
(* timer or registered event ever points at a deleted socket.  The latter  *)
(* is not inductive as it stands: that processQueue may delete what it     *)
(* deletes follows from who owns a connection, where its timer is and what *)
(* the queues can hold, so all of IInv is carried through every action.    *)
(* On top of it: what the event handler sees, that no event of a           *)
(* connection is lost to edge-triggered epoll, that a loop calls the       *)
(* service only when there is something to read, that the timers of every  *)
(* loop stay ordered, that a loop ends by itself only without connections, *)
(* and that the server implements ConnectionService.                       *)
(***************************************************************************)
EXTENDS WebServer, TimerListProofs, FiniteSetTheorems

-----------------------------------------------------------------------------
(* What the helpers of EventLoop do to the state. *)

(* Epoll::erase touches one loop. *)
LEMMA EraseEffect ==
  ASSUME TypeOK, NEW p \in Loops, NEW s \in Sockets, Erase(p, s)
  PROVE  /\ interest' \in [Loops -> SUBSET Sockets]
         /\ ready' \in [Loops -> SUBSET Sockets]
         /\ m_count' \in [Loops -> 0..(CountMod - 1)]
         /\ interest'[p] = interest[p] \ {s}
         /\ ready'[p] = ready[p] \ {s}
         /\ \A q \in Loops \ {p} : interest'[q] = interest[q] /\ ready'[q] = ready[q]
<1>1. /\ interest \in [Loops -> SUBSET Sockets]
      /\ ready \in [Loops -> SUBSET Sockets]
      /\ m_count \in [Loops -> 0..(CountMod - 1)]
  BY DEF TypeOK
<1>2. CountMod \in Nat \ {0}
  BY CountModAssumption
<1>3. Dec(m_count[p]) \in 0..(CountMod - 1)
  BY <1>1, <1>2 DEF Dec
<1>. QED BY <1>1, <1>3 DEF Erase

(* Deleting connections closes exactly them. *)
LEMMA CloseEffect ==
  ASSUME TypeOK, NEW C \in SUBSET Conns, CloseAll(C)
  PROVE  /\ conn' \in [Conns -> {"none", "backlog", "open", "closed", "refused"}]
         /\ events' \in [Conns -> Seq({"Accpet", "Close"})]
         /\ unread' \in [Conns -> BOOLEAN]
         /\ left' \in [Conns -> 0..Timeout]
         /\ UNCHANGED <<peerOpen, sends>>
         /\ Open' = Open \ C
         /\ \A c \in Conns \ C : conn'[c] = conn[c]
<1>. USE DEF CloseAll
<1>1. Timeout \in Nat
  BY TimeoutAssumption
<1>2. conn' \in [Conns -> {"none", "backlog", "open", "closed", "refused"}]
  BY DEF TypeOK
<1>3. events' \in [Conns -> Seq({"Accpet", "Close"})]
  <2>. SUFFICES ASSUME NEW c \in Conns
               PROVE  Append(events[c], "Close") \in Seq({"Accpet", "Close"})
    BY DEF TypeOK
  <2>. QED BY DEF TypeOK
<1>4. unread' \in [Conns -> BOOLEAN]
  BY DEF TypeOK
<1>5. left' \in [Conns -> 0..Timeout]
  BY <1>1 DEF TypeOK
<1>6. Open' = Open \ C
  BY DEF Open
<1>. QED BY <1>2, <1>3, <1>4, <1>5, <1>6

(* destory takes the connection's timer away and no other. *)
LEMMA DestoryEffect ==
  ASSUME TypeOK, NEW p \in Loops, NEW c \in Conns, IsInjective(m_list[p]), DestoryTimer(p, c)
  PROVE  /\ m_list' \in [Loops -> Seq(Conns)]
         /\ Range(m_list'[p]) = Range(m_list[p]) \ {c}
         /\ IsInjective(m_list'[p])
         /\ \A q \in Loops \ {p} : m_list'[q] = m_list[q]
<1>1. m_list \in [Loops -> Seq(Conns)] /\ m_list[p] \in Seq(Conns)
  BY DEF TypeOK
<1>2. PICK j \in 1..Len(m_list[p]) :
        m_list[p][j] = c /\ m_list' = [m_list EXCEPT ![p] = RemoveAt(m_list[p], j)]
  BY DEF DestoryTimer
<1>3. RemoveAt(m_list[p], j) \in Seq(Conns)
  BY <1>1, RemoveShape
<1>4. /\ Range(RemoveAt(m_list[p], j)) = Range(m_list[p]) \ {c}
      /\ IsInjective(RemoveAt(m_list[p], j))
  BY <1>1, <1>2, RemoveUsers
<1>. QED BY <1>1, <1>2, <1>3, <1>4


(* What the conjuncts of the invariant say, in the form the steps below use.  *)
LEMMA Facts ==
  ASSUME IInv, NEW p \in Loops
  PROVE  /\ m_queue[p] \in SUBSET Sockets /\ m_errorQueue[p] \in SUBSET Sockets
         /\ interest[p] \in SUBSET Sockets /\ ready[p] \in SUBSET interest[p]
         /\ m_list[p] \in Seq(Conns) /\ IsInjective(m_list[p])
         /\ Range(m_list[p]) \subseteq Conns
         /\ Range(m_list[p]) \subseteq interest[p]
         /\ (m_queue[p] \cup m_errorQueue[p]) \cap Conns \subseteq interest[p]
         /\ interest[p] \cap Conns \subseteq Open
<1>1. /\ m_queue[p] \in SUBSET Sockets /\ m_errorQueue[p] \in SUBSET Sockets
      /\ interest[p] \in SUBSET Sockets
      /\ m_list[p] \in Seq(Conns)
  BY DEF IInv, TypeOK
<1>2. Range(m_list[p]) \subseteq Conns
  BY <1>1, RangeIs
<1>3. IsInjective(m_list[p]) /\ Range(m_list[p]) \subseteq interest[p]
  BY <1>2 DEF IInv, OneOwnerOneTimer, OneTimer
<1>4. ready[p] \in SUBSET interest[p] /\ (m_queue[p] \cup m_errorQueue[p]) \cap Conns \subseteq interest[p]
  BY DEF IInv, QueuesFit
<1>5. interest[p] \cap Conns \subseteq Open
  BY DEF IInv, NoDanglingPointer
<1>. QED BY <1>1, <1>2, <1>3, <1>4, <1>5

(* The heart of the matter: loop p deletes a connection of its own after it  *)
(* has taken it out of its queues, its timers and its epoll.  Nothing that  *)
(* any loop keeps points at it any more.                                    *)
LEMMA CloseOneInv ==
  ASSUME IInv, NEW p \in Loops, NEW c \in Conns, c \in interest[p],
         Erase(p, c), CloseAll({c}),
         UNCHANGED <<m_runnable, pc, socket, listening, failed, backlog, mainVars>>,
         m_queue' = [m_queue EXCEPT ![p] = @ \ {c}],
         m_errorQueue' = [m_errorQueue EXCEPT ![p] = @ \ {c}],
         m_list' \in [Loops -> Seq(Conns)],
         IsInjective(m_list'[p]), Range(m_list'[p]) = Range(m_list[p]) \ {c},
         \A q \in Loops \ {p} : m_list'[q] = m_list[q]
  PROVE  IInv'
<1>1. TypeOK
  BY DEF IInv
<1>2. /\ interest' \in [Loops -> SUBSET Sockets]
      /\ ready' \in [Loops -> SUBSET Sockets]
      /\ m_count' \in [Loops -> 0..(CountMod - 1)]
      /\ interest'[p] = interest[p] \ {c}
      /\ ready'[p] = ready[p] \ {c}
      /\ \A q \in Loops \ {p} : interest'[q] = interest[q] /\ ready'[q] = ready[q]
  BY <1>1, EraseEffect DEF Sockets
<1>3. /\ conn' \in [Conns -> {"none", "backlog", "open", "closed", "refused"}]
      /\ events' \in [Conns -> Seq({"Accpet", "Close"})]
      /\ unread' \in [Conns -> BOOLEAN]
      /\ left' \in [Conns -> 0..Timeout]
      /\ UNCHANGED <<peerOpen, sends>>
      /\ Open' = Open \ {c}
      /\ \A d \in Conns \ {c} : conn'[d] = conn[d]
  BY <1>1, CloseEffect
<1>4. /\ m_queue' \in [Loops -> SUBSET Sockets] /\ m_errorQueue' \in [Loops -> SUBSET Sockets]
      /\ m_queue'[p] = m_queue[p] \ {c} /\ m_errorQueue'[p] = m_errorQueue[p] \ {c}
      /\ \A q \in Loops \ {p} : m_queue'[q] = m_queue[q] /\ m_errorQueue'[q] = m_errorQueue[q]
  BY <1>1 DEF TypeOK
<1>5. \A q \in Loops \ {p} : c \notin interest[q]
  BY DEF IInv, OneOwnerOneTimer, OneOwner
<1>6. c \in Open
  BY Facts
<1>7. TypeOK'
  BY <1>1, <1>2, <1>3, <1>4 DEF TypeOK, mainVars
<1>8. NoDanglingPointer'
  <2>. SUFFICES ASSUME NEW q \in Loops
               PROVE  (m_queue'[q] \cup m_errorQueue'[q] \cup Range(m_list'[q])
                        \cup interest'[q] \cup ready'[q]) \cap Conns \subseteq Open'
    BY DEF NoDanglingPointer
  <2>1. /\ m_queue[q] \cap Conns \subseteq interest[q] \cap Conns
        /\ m_errorQueue[q] \cap Conns \subseteq interest[q] \cap Conns
        /\ Range(m_list[q]) \cap Conns \subseteq interest[q] \cap Conns
        /\ ready[q] \cap Conns \subseteq interest[q] \cap Conns
        /\ interest[q] \cap Conns \subseteq Open
    BY Facts
  <2>2. CASE q = p
    BY <2>1, <2>2, <1>2, <1>3, <1>4
  <2>3. CASE q # p
    <3>1. Range(m_list'[q]) = Range(m_list[q])
      BY <2>3
    <3>2. /\ m_queue'[q] = m_queue[q] /\ m_errorQueue'[q] = m_errorQueue[q]
          /\ interest'[q] = interest[q] /\ ready'[q] = ready[q]
      BY <2>3, <1>2, <1>4
    <3>3. Open' = Open \ {c} /\ c \notin interest[q]
      BY <2>3, <1>3, <1>5
    <3>. QED BY <2>1, <3>1, <3>2, <3>3
  <2>. QED BY <2>2, <2>3
<1>9. OneOwner'
  <2>1. \A d \in Open' : \E q \in Loops : d \in interest'[q]
    BY <1>2, <1>3 DEF IInv, OneOwnerOneTimer, OneOwner
  <2>2. \A q, r \in Loops : q # r => interest'[q] \cap interest'[r] \cap Conns = {}
    <3>1. \A q \in Loops : interest'[q] \subseteq interest[q]
      BY <1>2
    <3>. QED BY <3>1 DEF IInv, OneOwnerOneTimer, OneOwner
  <2>. QED BY <2>1, <2>2 DEF OneOwner
<1>10. OneTimer'
  <2>. SUFFICES ASSUME NEW q \in Loops
               PROVE  /\ IsInjective(m_list'[q])
                      /\ interest'[q] \cap Conns = Range(m_list'[q]) \cup TimedOut(q)'
                      /\ Range(m_list'[q]) \cap TimedOut(q)' = {}
                      /\ m_queue'[q] \cap m_errorQueue'[q] = {}
    BY DEF OneTimer
  <2>1. CASE q = p
    <3>1. TimedOut(p)' = TimedOut(p) \ {c}
      BY <1>4 DEF TimedOut
    <3>. QED BY <2>1, <3>1, <1>2, <1>4 DEF IInv, OneOwnerOneTimer, OneTimer
  <2>2. CASE q # p
    <3>1. TimedOut(q)' = TimedOut(q)
      BY <2>2, <1>4 DEF TimedOut
    <3>. QED BY ZenonT(60), <2>2, <3>1, <1>2, <1>4 DEF IInv, OneOwnerOneTimer, OneTimer
  <2>. QED BY <2>1, <2>2
<1>11. QueuesFit'
  <2>. SUFFICES ASSUME NEW q \in Loops
               PROVE  /\ (m_queue'[q] \cup m_errorQueue'[q]) \cap Conns \subseteq interest'[q]
                      /\ ready'[q] \subseteq interest'[q]
                      /\ pc'[q] \notin {"serve", "accept"} => m_queue'[q] = {}
                      /\ pc'[q] \notin {"serve", "accept", "while"} => m_errorQueue'[q] = {}
                      /\ pc'[q] = "while" => m_errorQueue'[q] \subseteq Conns
                      /\ pc'[q] = "none" => interest'[q] = {} /\ m_list'[q] = <<>>
    BY DEF QueuesFit
  <2>1. CASE q = p
    <3>1. pc[p] # "none"
      BY DEF IInv, QueuesFit
    <3>. QED BY <2>1, <3>1, <1>2, <1>4 DEF IInv, QueuesFit
  <2>2. CASE q # p
    BY ZenonT(60), <2>2, <1>2, <1>4 DEF IInv, QueuesFit
  <2>. QED BY <2>1, <2>2
<1>12. BacklogFits'
  BY <1>3, <1>6 DEF IInv, BacklogFits, Open, TypeOK
<1>. QED BY <1>7, <1>8, <1>9, <1>10, <1>11, <1>12 DEF IInv, OneOwnerOneTimer

-----------------------------------------------------------------------------
(* The steps of a loop. *)

(* process returned false: the connection was in the queue, so in no other. *)
LEMMA ServeAndCloseInv ==
  ASSUME IInv, NEW p \in Loops, NEW c \in Conns, ServeAndClose(p, c), UNCHANGED mainVars
  PROVE  IInv'
<1>1. c \in m_queue[p] /\ c \in interest[p] /\ IsInjective(m_list[p])
  BY Facts DEF ServeAndClose
<1>2. c \notin m_errorQueue[p] /\ m_errorQueue \in [Loops -> SUBSET Sockets]
  BY <1>1 DEF IInv, OneOwnerOneTimer, OneTimer, TypeOK
<1>3. m_errorQueue' = [m_errorQueue EXCEPT ![p] = @ \ {c}]
  BY <1>2 DEF ServeAndClose
<1>4. /\ m_list' \in [Loops -> Seq(Conns)]
      /\ Range(m_list'[p]) = Range(m_list[p]) \ {c}
      /\ IsInjective(m_list'[p])
      /\ \A q \in Loops \ {p} : m_list'[q] = m_list[q]
  BY <1>1, DestoryEffect DEF ServeAndClose, IInv
<1>. QED BY <1>1, <1>3, <1>4, CloseOneInv DEF ServeAndClose

(* An error is handled when the queue of input is empty. *)
LEMMA CloseOnErrorInv ==
  ASSUME IInv, NEW p \in Loops, NEW c \in Conns, CloseOnError(p, c), UNCHANGED mainVars
  PROVE  IInv'
<1>1. m_queue[p] = {} /\ c \in interest[p] /\ IsInjective(m_list[p])
  BY Facts DEF CloseOnError
<1>2. m_queue' = [m_queue EXCEPT ![p] = @ \ {c}]
  BY <1>1 DEF CloseOnError, IInv, TypeOK
<1>4. /\ m_list' \in [Loops -> Seq(Conns)]
      /\ Range(m_list'[p]) = Range(m_list[p]) \ {c}
      /\ IsInjective(m_list'[p])
      /\ \A q \in Loops \ {p} : m_list'[q] = m_list[q]
  BY <1>1, DestoryEffect DEF CloseOnError, IInv
<1>. QED BY <1>1, <1>2, <1>4, CloseOneInv DEF CloseOnError

(* A timed out connection has no timer any more: checkout took it. *)
LEMMA CloseOnTimeoutInv ==
  ASSUME IInv, NEW p \in Loops, NEW c \in Conns, CloseOnTimeout(p, c), UNCHANGED mainVars
  PROVE  IInv'
<1>1. c \in interest[p] /\ IsInjective(m_list[p])
  BY Facts DEF CloseOnTimeout
<1>2. m_queue[p] = {} /\ c \in TimedOut(p)
  BY DEF CloseOnTimeout, IInv, QueuesFit, TimedOut
<1>3. m_queue' = [m_queue EXCEPT ![p] = @ \ {c}]
  BY <1>2 DEF CloseOnTimeout, IInv, TypeOK
<1>4. Range(m_list[p]) = Range(m_list[p]) \ {c}
  BY <1>2 DEF IInv, OneOwnerOneTimer, OneTimer
<1>5. m_list' = m_list /\ m_list \in [Loops -> Seq(Conns)]
  BY DEF CloseOnTimeout, IInv, TypeOK
<1>. QED BY <1>1, <1>3, <1>4, <1>5, CloseOneInv DEF CloseOnTimeout

(* A client from a backlog is nowhere yet; it gets a timer and an owner.      *)
LEMMA AcceptClientInv ==
  ASSUME IInv, NEW p \in Loops, NEW c \in Conns, AcceptClient(p, c), UNCHANGED mainVars
  PROVE  IInv'
<1>. DEFINE l == socket[p]
<1>1. TypeOK /\ pc[p] = "accept" /\ l \in Listeners /\ c \in backlog[l]
  BY DEF IInv, TypeOK, AcceptClient
<1>2. conn[c] = "backlog" /\ c \notin Open
  BY <1>1 DEF IInv, BacklogFits, Open
<1>3. \A q \in Loops : c \notin interest[q] /\ c \notin Range(m_list[q])
  BY <1>2, Facts
<1>4. /\ m_list' \in [Loops -> Seq(Conns)]
      /\ Range(m_list'[p]) = Range(m_list[p]) \cup {c}
      /\ IsInjective(m_list'[p])
      /\ \A q \in Loops \ {p} : m_list'[q] = m_list[q]
  <2>1. PICK k \in StartPoints(m_list[p], left, Timeout) :
          m_list' = [m_list EXCEPT ![p] = Emplace(m_list[p], k, c)]
    BY DEF AcceptClient
  <2>2. k \in 0..Len(m_list[p])
    BY DEF StartPoints
  <2>3. m_list[p] \in Seq(Conns) /\ IsInjective(m_list[p])
    BY Facts
  <2>4. Emplace(m_list[p], k, c) \in Seq(Conns)
    BY <2>2, <2>3, EmplaceShape
  <2>5. /\ Range(Emplace(m_list[p], k, c)) = Range(m_list[p]) \cup {c}
        /\ IsInjective(Emplace(m_list[p], k, c))
    BY <2>2, <2>3, <1>3, EmplaceUsers
  <2>. QED BY <1>1, <2>1, <2>4, <2>5 DEF TypeOK
<1>5. /\ interest' \in [Loops -> SUBSET Sockets] /\ ready' \in [Loops -> SUBSET Sockets]
      /\ interest'[p] = interest[p] \cup {c}
      /\ ready'[p] \subseteq ready[p] \cup {c}
      /\ \A q \in Loops \ {p} : interest'[q] = interest[q] /\ ready'[q] = ready[q]
  BY <1>1 DEF AcceptClient, TypeOK, Sockets
<1>6. /\ conn' \in [Conns -> {"none", "backlog", "open", "closed", "refused"}]
      /\ Open' = Open \cup {c}
      /\ \A d \in Conns \ {c} : conn'[d] = conn[d]
  BY <1>1 DEF AcceptClient, TypeOK, Open
<1>7. /\ backlog' \in [Listeners -> SUBSET Conns]
      /\ backlog'[l] = backlog[l] \ {c}
      /\ \A k \in Listeners \ {l} : backlog'[k] = backlog[k]
  BY <1>1 DEF AcceptClient, TypeOK
<1>8. UNCHANGED <<pc, m_queue, m_errorQueue>> /\ \A q \in Loops : TimedOut(q)' = TimedOut(q)
  BY DEF AcceptClient, TimedOut
<1>9. TypeOK'
  <2>1. left' \in [Conns -> 0..Timeout]
    BY <1>1, TimeoutAssumption DEF AcceptClient, TypeOK
  <2>2. m_count' \in [Loops -> 0..(CountMod - 1)]
    BY <1>1, CountModAssumption DEF AcceptClient, TypeOK, Inc
  <2>3. events' \in [Conns -> Seq({"Accpet", "Close"})]
    BY <1>1 DEF AcceptClient, TypeOK
  <2>. QED BY <1>1, <1>4, <1>5, <1>6, <1>7, <2>1, <2>2, <2>3 DEF AcceptClient, TypeOK, mainVars
<1>10. NoDanglingPointer'
  <2>. SUFFICES ASSUME NEW q \in Loops
               PROVE  (m_queue'[q] \cup m_errorQueue'[q] \cup Range(m_list'[q])
                        \cup interest'[q] \cup ready'[q]) \cap Conns \subseteq Open'
    BY DEF NoDanglingPointer
  <2>1. (m_queue[q] \cup m_errorQueue[q] \cup Range(m_list[q]) \cup interest[q] \cup ready[q])
          \cap Conns \subseteq Open
    BY DEF IInv, NoDanglingPointer
  <2>2. CASE q = p
    BY <2>1, <2>2, <1>4, <1>5, <1>6, <1>8
  <2>3. CASE q # p
    <3>1. /\ m_list'[q] = m_list[q] /\ interest'[q] = interest[q] /\ ready'[q] = ready[q]
      BY <2>3, <1>4, <1>5
    <3>. QED BY <2>1, <3>1, <1>6, <1>8
  <2>. QED BY <2>2, <2>3
<1>11. OneOwner'
  <2>1. \A d \in Open' : \E q \in Loops : d \in interest'[q]
    BY <1>5, <1>6 DEF IInv, OneOwnerOneTimer, OneOwner
  <2>2. \A q, r \in Loops : q # r => interest'[q] \cap interest'[r] \cap Conns = {}
    BY <1>3, <1>5 DEF IInv, OneOwnerOneTimer, OneOwner
  <2>. QED BY <2>1, <2>2 DEF OneOwner
<1>12. OneTimer'
  <2>. SUFFICES ASSUME NEW q \in Loops
               PROVE  /\ IsInjective(m_list'[q])
                      /\ interest'[q] \cap Conns = Range(m_list'[q]) \cup TimedOut(q)'
                      /\ Range(m_list'[q]) \cap TimedOut(q)' = {}
                      /\ m_queue'[q] \cap m_errorQueue'[q] = {}
    BY DEF OneTimer
  <2>1. CASE q = p
    <3>1. TimedOut(p) = {}
      BY <1>1 DEF TimedOut
    <3>. QED BY <2>1, <3>1, <1>4, <1>5, <1>8 DEF IInv, OneOwnerOneTimer, OneTimer
  <2>2. CASE q # p
    BY <2>2, <1>4, <1>5, <1>8 DEF IInv, OneOwnerOneTimer, OneTimer
  <2>. QED BY <2>1, <2>2
<1>13. QueuesFit'
  BY <1>1, <1>4, <1>5, <1>8 DEF IInv, QueuesFit
<1>14. BacklogFits'
  BY <1>1, <1>6, <1>7 DEF IInv, BacklogFits
<1>. QED BY <1>9, <1>10, <1>11, <1>12, <1>13, <1>14 DEF IInv, OneOwnerOneTimer

(* process returned true: the timer moves within the list, nothing else.      *)
LEMMA ServeInv ==
  ASSUME IInv, NEW p \in Loops, NEW c \in Conns, Serve(p, c), UNCHANGED mainVars
  PROVE  IInv'
<1>1. TypeOK /\ pc[p] = "serve" /\ c \in m_queue[p]
  BY DEF IInv, Serve
<1>2. m_list[p] \in Seq(Conns) /\ IsInjective(m_list[p])
  BY Facts
<1>3. /\ m_list' \in [Loops -> Seq(Conns)]
      /\ Range(m_list'[p]) = Range(m_list[p])
      /\ IsInjective(m_list'[p])
      /\ \A q \in Loops \ {p} : m_list'[q] = m_list[q]
  <2>1. CASE UNCHANGED m_list
    BY <2>1, <1>1, <1>2 DEF TypeOK
  <2>2. ASSUME NEW j \in 1..Len(m_list[p]), NEW k \in 1..Len(m_list[p]),
               m_list' = [m_list EXCEPT ![p] = Splice(m_list[p], j, k)]
        PROVE  /\ m_list' \in [Loops -> Seq(Conns)]
               /\ Range(m_list'[p]) = Range(m_list[p])
               /\ IsInjective(m_list'[p])
               /\ \A q \in Loops \ {p} : m_list'[q] = m_list[q]
    <3>1. /\ Splice(m_list[p], j, k) \in Seq(Conns)
          /\ Range(Splice(m_list[p], j, k)) = Range(m_list[p])
          /\ IsInjective(Splice(m_list[p], j, k))
      BY <1>2, SpliceUsers
    <3>. QED BY <1>1, <2>2, <3>1 DEF TypeOK
  <2>. QED BY <2>1, <2>2 DEF Serve, RestartPoints
<1>4. /\ m_queue' \in [Loops -> SUBSET Sockets]
      /\ m_queue'[p] = m_queue[p] \ {c}
      /\ \A q \in Loops \ {p} : m_queue'[q] = m_queue[q]
  BY <1>1 DEF Serve, TypeOK
<1>5. /\ UNCHANGED <<pc, m_errorQueue, interest, ready, backlog, conn>>
      /\ Open' = Open
      /\ \A q \in Loops : TimedOut(q)' = TimedOut(q)
  BY DEF Serve, TimedOut, Open, kernelVars
<1>6. TypeOK'
  <2>1. left' \in [Conns -> 0..Timeout]
    BY <1>1, TimeoutAssumption DEF Serve, TypeOK, Reset
  <2>2. unread' \in [Conns -> BOOLEAN]
    BY <1>1 DEF Serve, TypeOK, ReadAll
  <2>. QED BY <1>1, <1>3, <1>4, <2>1, <2>2 DEF Serve, TypeOK, mainVars, kernelVars
<1>7. \A q \in Loops : Range(m_list'[q]) = Range(m_list[q]) /\ IsInjective(m_list'[q])
  BY <1>3, Facts
<1>8. \A q \in Loops : m_queue'[q] \subseteq m_queue[q]
  BY <1>4
<1>9. NoDanglingPointer'
  <2>. SUFFICES ASSUME NEW q \in Loops
               PROVE  (m_queue'[q] \cup m_errorQueue'[q] \cup Range(m_list'[q])
                        \cup interest'[q] \cup ready'[q]) \cap Conns \subseteq Open'
    BY DEF NoDanglingPointer
  <2>. QED BY <1>5, <1>7, <1>8 DEF IInv, NoDanglingPointer
<1>10. OneOwner'
  BY <1>5 DEF IInv, OneOwnerOneTimer, OneOwner
<1>11. OneTimer'
  <2>. SUFFICES ASSUME NEW q \in Loops
               PROVE  /\ IsInjective(m_list'[q])
                      /\ interest'[q] \cap Conns = Range(m_list'[q]) \cup TimedOut(q)'
                      /\ Range(m_list'[q]) \cap TimedOut(q)' = {}
                      /\ m_queue'[q] \cap m_errorQueue'[q] = {}
    BY DEF OneTimer
  <2>. QED BY <1>5, <1>7, <1>8 DEF IInv, OneOwnerOneTimer, OneTimer
<1>12. QueuesFit'
  <2>. SUFFICES ASSUME NEW q \in Loops
               PROVE  /\ (m_queue'[q] \cup m_errorQueue'[q]) \cap Conns \subseteq interest'[q]
                      /\ ready'[q] \subseteq interest'[q]
                      /\ pc'[q] \notin {"serve", "accept"} => m_queue'[q] = {}
                      /\ pc'[q] \notin {"serve", "accept", "while"} => m_errorQueue'[q] = {}
                      /\ pc'[q] = "while" => m_errorQueue'[q] \subseteq Conns
                      /\ pc'[q] = "none" => interest'[q] = {} /\ m_list'[q] = <<>>
    BY DEF QueuesFit
  <2>. QED BY <1>1, <1>3, <1>5, <1>8 DEF IInv, QueuesFit
<1>13. BacklogFits'
  BY <1>5 DEF IInv, BacklogFits
<1>. QED BY <1>6, <1>9, <1>10, <1>11, <1>12, <1>13 DEF IInv, OneOwnerOneTimer

(* checkout moves connections from the timers to the error queue.             *)
LEMMA CheckoutInv ==
  ASSUME IInv, NEW p \in Loops, Checkout(p), UNCHANGED mainVars
  PROVE  IInv'
<1>1. TypeOK /\ pc[p] = "serve" /\ m_queue[p] = {} /\ m_errorQueue[p] = {}
  BY DEF IInv, Checkout
<1>2. m_list[p] \in Seq(Conns) /\ IsInjective(m_list[p])
  BY Facts
<1>3. PICK n \in 0..Len(m_list[p]) :
        /\ m_errorQueue' = [m_errorQueue EXCEPT ![p] = Range(Taken(m_list[p], n))]
        /\ m_list' = [m_list EXCEPT ![p] = Remaining(m_list[p], n)]
  BY DEF Checkout, ExpiredPrefixes
<1>4. Taken(m_list[p], n) \in Seq(Conns) /\ Remaining(m_list[p], n) \in Seq(Conns)
  BY <1>2, SplitShape
<1>5. /\ Range(Taken(m_list[p], n)) \cup Range(Remaining(m_list[p], n)) = Range(m_list[p])
      /\ Range(Taken(m_list[p], n)) \cap Range(Remaining(m_list[p], n)) = {}
      /\ IsInjective(Remaining(m_list[p], n))
  BY <1>2, SplitUsers
<1>6. Range(Taken(m_list[p], n)) \subseteq Conns
  BY <1>4, RangeIs
<1>7. /\ m_list' \in [Loops -> Seq(Conns)]
      /\ m_list'[p] = Remaining(m_list[p], n)
      /\ \A q \in Loops \ {p} : m_list'[q] = m_list[q]
  BY <1>1, <1>3, <1>4 DEF TypeOK
<1>8. /\ m_errorQueue' \in [Loops -> SUBSET Sockets]
      /\ m_errorQueue'[p] = Range(Taken(m_list[p], n))
      /\ \A q \in Loops \ {p} : m_errorQueue'[q] = m_errorQueue[q]
  BY <1>1, <1>3, <1>6 DEF TypeOK, Sockets
<1>9. /\ pc' = [pc EXCEPT ![p] = "while"]
      /\ UNCHANGED <<m_queue, interest, ready, backlog, conn>>
      /\ Open' = Open
  BY DEF Checkout, Open, kernelVars, connVars
<1>10. TimedOut(p) = {} /\ TimedOut(p)' = Range(Taken(m_list[p], n))
  BY <1>1, <1>8, <1>9 DEF TimedOut, TypeOK
<1>11. \A q \in Loops \ {p} : TimedOut(q)' = TimedOut(q)
  BY <1>1, <1>8, <1>9 DEF TimedOut, TypeOK
<1>12. TypeOK'
  BY <1>1, <1>7, <1>8 DEF Checkout, TypeOK, kernelVars, connVars, mainVars
<1>13. \A q \in Loops : (m_errorQueue'[q] \cup Range(m_list'[q])) \cap Conns
                          \subseteq (m_errorQueue[q] \cup Range(m_list[q])) \cap Conns
  BY <1>5, <1>7, <1>8
<1>14. NoDanglingPointer'
  <2>. SUFFICES ASSUME NEW q \in Loops
               PROVE  (m_queue'[q] \cup m_errorQueue'[q] \cup Range(m_list'[q])
                        \cup interest'[q] \cup ready'[q]) \cap Conns \subseteq Open'
    BY DEF NoDanglingPointer
  <2>. QED BY <1>9, <1>13 DEF IInv, NoDanglingPointer
<1>15. OneOwner'
  BY <1>9 DEF IInv, OneOwnerOneTimer, OneOwner
<1>16. OneTimer'
  <2>. SUFFICES ASSUME NEW q \in Loops
               PROVE  /\ IsInjective(m_list'[q])
                      /\ interest'[q] \cap Conns = Range(m_list'[q]) \cup TimedOut(q)'
                      /\ Range(m_list'[q]) \cap TimedOut(q)' = {}
                      /\ m_queue'[q] \cap m_errorQueue'[q] = {}
    BY DEF OneTimer
  <2>1. CASE q = p
    BY <2>1, <1>1, <1>5, <1>7, <1>9, <1>10 DEF IInv, OneOwnerOneTimer, OneTimer
  <2>2. CASE q # p
    BY <2>2, <1>7, <1>8, <1>9, <1>11 DEF IInv, OneOwnerOneTimer, OneTimer
  <2>. QED BY <2>1, <2>2
<1>17. QueuesFit'
  <2>. SUFFICES ASSUME NEW q \in Loops
               PROVE  /\ (m_queue'[q] \cup m_errorQueue'[q]) \cap Conns \subseteq interest'[q]
                      /\ ready'[q] \subseteq interest'[q]
                      /\ pc'[q] \notin {"serve", "accept"} => m_queue'[q] = {}
                      /\ pc'[q] \notin {"serve", "accept", "while"} => m_errorQueue'[q] = {}
                      /\ pc'[q] = "while" => m_errorQueue'[q] \subseteq Conns
                      /\ pc'[q] = "none" => interest'[q] = {} /\ m_list'[q] = <<>>
    BY DEF QueuesFit
  <2>1. CASE q = p
    <3>1. Range(Taken(m_list[p], n)) \subseteq interest[p]
      BY <1>5, Facts
    <3>2. pc'[p] = "while"
      BY <1>1, <1>9 DEF TypeOK
    <3>. QED BY <2>1, <3>1, <3>2, <1>1, <1>6, <1>8, <1>9 DEF IInv, QueuesFit
  <2>2. CASE q # p
    <3>1. pc'[q] = pc[q]
      BY <2>2, <1>9, <1>1 DEF TypeOK
    <3>. QED BY <2>2, <3>1, <1>7, <1>8, <1>9 DEF IInv, QueuesFit
  <2>. QED BY <2>1, <2>2
<1>18. BacklogFits'
  BY <1>9 DEF IInv, BacklogFits
<1>. QED BY <1>12, <1>14, <1>15, <1>16, <1>17, <1>18 DEF IInv, OneOwnerOneTimer

(* The loop goes on or ends. *)
LEMMA WhileInv ==
  ASSUME IInv, NEW p \in Loops, While(p), UNCHANGED mainVars
  PROVE  IInv'
<1>. USE DEF IInv, TypeOK, While, threadVars, kernelVars, connVars, mainVars
<1>1. TypeOK'
  BY DEF TypeOK
<1>2. NoDanglingPointer'
  BY DEF NoDanglingPointer, Open
<1>3. OneOwner'
  BY DEF OneOwnerOneTimer, OneOwner, Open
<1>4. OneTimer'
  BY DEF OneOwnerOneTimer, OneTimer, TimedOut
<1>5. QueuesFit'
  BY DEF QueuesFit
<1>6. BacklogFits'
  BY DEF BacklogFits
<1>. QED BY <1>1, <1>2, <1>3, <1>4, <1>5, <1>6 DEF OneOwnerOneTimer

(* What epoll_wait reports was registered; an error and input of one socket
   do not go to both queues. *)
LEMMA EpollInv ==
  ASSUME IInv, NEW p \in Loops, Epoll(p), UNCHANGED mainVars
  PROVE  IInv'
<1>. USE DEF IInv, TypeOK, Epoll, ToQueue, threadVars, kernelVars, connVars, mainVars
<1>1. TypeOK'
  BY DEF TypeOK
<1>2. NoDanglingPointer'
  BY DEF NoDanglingPointer, Open
<1>3. OneOwner'
  BY DEF OneOwnerOneTimer, OneOwner, Open
<1>4. OneTimer'
  <2>. SUFFICES ASSUME NEW q \in Loops
               PROVE  /\ IsInjective(m_list'[q])
                      /\ interest'[q] \cap Conns = Range(m_list'[q]) \cup TimedOut(q)'
                      /\ Range(m_list'[q]) \cap TimedOut(q)' = {}
                      /\ m_queue'[q] \cap m_errorQueue'[q] = {}
    BY DEF OneTimer
  <2>1. m_queue[p] = {} /\ m_errorQueue[p] = {}
    BY DEF QueuesFit
  <2>2. m_queue'[q] \cap m_errorQueue'[q] = {}
    BY <2>1 DEF OneOwnerOneTimer, OneTimer
  <2>. QED BY <2>1, <2>2 DEF OneOwnerOneTimer, OneTimer, TimedOut
<1>5. QueuesFit'
  BY DEF QueuesFit
<1>6. BacklogFits'
  BY DEF BacklogFits
<1>. QED BY <1>1, <1>2, <1>3, <1>4, <1>5, <1>6 DEF OneOwnerOneTimer

(* The queue loses a listener. *)
LEMMA BeginAcceptInv ==
  ASSUME IInv, NEW p \in Loops, NEW l \in Listeners, BeginAccept(p, l), UNCHANGED mainVars
  PROVE  IInv'
<1>. USE DEF IInv, TypeOK, BeginAccept, threadVars, kernelVars, connVars, mainVars
<1>1. TypeOK'
  BY SocketsAssumption DEF Sockets
<1>2. NoDanglingPointer'
  BY DEF NoDanglingPointer, Open
<1>3. OneOwner'
  BY DEF OneOwnerOneTimer, OneOwner, Open
<1>4. OneTimer'
  BY DEF OneOwnerOneTimer, OneTimer, TimedOut
<1>5. QueuesFit'
  BY DEF QueuesFit
<1>6. BacklogFits'
  BY DEF BacklogFits
<1>. QED BY <1>1, <1>2, <1>3, <1>4, <1>5, <1>6 DEF OneOwnerOneTimer

(* A client that is refused was nowhere but in the backlog. *)
LEMMA HandshakeFailsInv ==
  ASSUME IInv, NEW p \in Loops, NEW c \in Conns, HandshakeFails(p, c), UNCHANGED mainVars
  PROVE  IInv'
<1>. USE DEF IInv, TypeOK, HandshakeFails, threadVars, kernelVars, connVars, mainVars
<1>1. TypeOK'
  BY DEF TypeOK
<1>2. NoDanglingPointer'
  BY DEF NoDanglingPointer, Open, BacklogFits
<1>3. OneOwner'
  BY DEF OneOwnerOneTimer, OneOwner, Open
<1>4. OneTimer'
  BY DEF OneOwnerOneTimer, OneTimer, TimedOut
<1>5. QueuesFit'
  BY DEF QueuesFit
<1>6. BacklogFits'
  BY DEF BacklogFits
<1>. QED BY <1>1, <1>2, <1>3, <1>4, <1>5, <1>6 DEF OneOwnerOneTimer

(* The thread lets the listener go. *)
LEMMA EndAcceptInv ==
  ASSUME IInv, NEW p \in Loops, EndAccept(p), UNCHANGED mainVars
  PROVE  IInv'
<1>. USE DEF IInv, TypeOK, EndAccept, threadVars, kernelVars, connVars, mainVars
<1>1. TypeOK'
  BY DEF TypeOK
<1>2. NoDanglingPointer'
  BY DEF NoDanglingPointer, Open
<1>3. OneOwner'
  BY DEF OneOwnerOneTimer, OneOwner, Open
<1>4. OneTimer'
  BY DEF OneOwnerOneTimer, OneTimer, TimedOut
<1>5. QueuesFit'
  BY DEF QueuesFit
<1>6. BacklogFits'
  BY DEF BacklogFits
<1>. QED BY <1>1, <1>2, <1>3, <1>4, <1>5, <1>6 DEF OneOwnerOneTimer

(* The loop gives up a listener, no connection. *)
LEMMA DropListenerInv ==
  ASSUME IInv, NEW p \in Loops, NEW l \in Listeners, DropListener(p, l), UNCHANGED mainVars
  PROVE  IInv'
<1>. USE DEF IInv, TypeOK, DropListener, Erase, Sockets, threadVars, kernelVars, connVars, mainVars
<1>1. TypeOK'
  BY CountModAssumption DEF Dec
<1>2. NoDanglingPointer'
  BY SocketsAssumption DEF NoDanglingPointer, Open
<1>3. OneOwner'
  BY SocketsAssumption DEF OneOwnerOneTimer, OneOwner, Open
<1>4. OneTimer'
  BY SocketsAssumption DEF OneOwnerOneTimer, OneTimer, TimedOut
<1>5. QueuesFit'
  BY SocketsAssumption DEF QueuesFit
<1>6. BacklogFits'
  BY DEF BacklogFits
<1>. QED BY <1>1, <1>2, <1>3, <1>4, <1>5, <1>6 DEF OneOwnerOneTimer

-----------------------------------------------------------------------------
(* The clients, the kernel and the clock. *)

(* A new client is in no other backlog. *)
LEMMA ConnectInv ==
  ASSUME IInv, NEW c \in Conns, NEW l \in Listeners, Connect(c, l), UNCHANGED mainVars
  PROVE  IInv'
<1>. USE DEF IInv, TypeOK, Connect, Edge, threadVars, kernelVars, connVars, mainVars
<1>1. TypeOK'
  BY SMTT(40) DEF Sockets, Woken, Interested
<1>2. NoDanglingPointer'
  BY SocketsAssumption DEF NoDanglingPointer, Open, Woken, Interested
<1>3. OneOwner'
  BY DEF OneOwnerOneTimer, OneOwner, Open
<1>4. OneTimer'
  BY DEF OneOwnerOneTimer, OneTimer, TimedOut
<1>5. QueuesFit'
  BY DEF QueuesFit, Woken, Interested
<1>6. BacklogFits'
  BY DEF BacklogFits
<1>. QED BY <1>1, <1>2, <1>3, <1>4, <1>5, <1>6 DEF OneOwnerOneTimer

(* A request makes its connection ready where it is registered. *)
LEMMA SendInv ==
  ASSUME IInv, NEW c \in Conns, Send(c), UNCHANGED mainVars
  PROVE  IInv'
<1>. USE DEF IInv, TypeOK, Send, Edge, Interested, Sockets, threadVars, kernelVars, connVars, mainVars
<1>1. TypeOK'
  BY MaxSendsAssumption
<1>2. NoDanglingPointer'
  BY DEF NoDanglingPointer, Open
<1>3. OneOwner'
  BY DEF OneOwnerOneTimer, OneOwner, Open
<1>4. OneTimer'
  BY DEF OneOwnerOneTimer, OneTimer, TimedOut
<1>5. QueuesFit'
  BY SMTT(40) DEF QueuesFit
<1>6. BacklogFits'
  BY DEF BacklogFits
<1>. QED BY <1>1, <1>2, <1>3, <1>4, <1>5, <1>6 DEF OneOwnerOneTimer

(* So does a hang-up. *)
LEMMA HangUpInv ==
  ASSUME IInv, NEW c \in Conns, HangUp(c), UNCHANGED mainVars
  PROVE  IInv'
<1>. USE DEF IInv, TypeOK, HangUp, Edge, Interested, Sockets, threadVars, kernelVars, connVars, mainVars
<1>1. TypeOK'
  BY DEF TypeOK
<1>2. NoDanglingPointer'
  BY DEF NoDanglingPointer, Open
<1>3. OneOwner'
  BY DEF OneOwnerOneTimer, OneOwner, Open
<1>4. OneTimer'
  BY DEF OneOwnerOneTimer, OneTimer, TimedOut
<1>5. QueuesFit'
  BY DEF QueuesFit
<1>6. BacklogFits'
  BY DEF BacklogFits
<1>. QED BY <1>1, <1>2, <1>3, <1>4, <1>5, <1>6 DEF OneOwnerOneTimer

(* So does the error of a listener. *)
LEMMA ListenerFailsInv ==
  ASSUME IInv, NEW l \in Listeners, ListenerFails(l), UNCHANGED mainVars
  PROVE  IInv'
<1>. USE DEF IInv, TypeOK, ListenerFails, Edge, threadVars, kernelVars, connVars, mainVars
<1>1. TypeOK'
  BY DEF Sockets, Woken, Interested
<1>2. NoDanglingPointer'
  BY DEF NoDanglingPointer, Open, Woken, Interested
<1>3. OneOwner'
  BY DEF OneOwnerOneTimer, OneOwner, Open
<1>4. OneTimer'
  BY DEF OneOwnerOneTimer, OneTimer, TimedOut
<1>5. QueuesFit'
  BY DEF QueuesFit, Woken, Interested
<1>6. BacklogFits'
  BY DEF BacklogFits
<1>. QED BY <1>1, <1>2, <1>3, <1>4, <1>5, <1>6 DEF OneOwnerOneTimer

(* The clock only counts down. *)
LEMMA TickInv ==
  ASSUME IInv, Tick, UNCHANGED mainVars
  PROVE  IInv'
<1>. USE DEF IInv, TypeOK, Tick, threadVars, kernelVars, connVars, mainVars
<1>1. TypeOK'
  BY TimeoutAssumption
<1>2. NoDanglingPointer'
  BY DEF NoDanglingPointer, Open
<1>3. OneOwner'
  BY DEF OneOwnerOneTimer, OneOwner, Open
<1>4. OneTimer'
  BY DEF OneOwnerOneTimer, OneTimer, TimedOut
<1>5. QueuesFit'
  BY DEF QueuesFit
<1>6. BacklogFits'
  BY DEF BacklogFits
<1>. QED BY <1>1, <1>2, <1>3, <1>4, <1>5, <1>6 DEF OneOwnerOneTimer

-----------------------------------------------------------------------------
(* The main thread and the signal handler. *)

(* start() sets m_runnable. *)
LEMMA StartInv ==
  ASSUME IInv, Start
  PROVE  IInv'
<1>. USE DEF IInv, TypeOK, Start, Phases, threadVars, kernelVars, connVars, mainVars
<1>1. TypeOK'
  BY DEF TypeOK
<1>2. NoDanglingPointer'
  BY DEF NoDanglingPointer, Open
<1>3. OneOwner'
  BY DEF OneOwnerOneTimer, OneOwner, Open
<1>4. OneTimer'
  BY DEF OneOwnerOneTimer, OneTimer, TimedOut
<1>5. QueuesFit'
  BY DEF QueuesFit
<1>6. BacklogFits'
  BY DEF BacklogFits
<1>. QED BY <1>1, <1>2, <1>3, <1>4, <1>5, <1>6 DEF OneOwnerOneTimer

(* A loop starts with the listeners that are open. *)
LEMMA StartLoopInv ==
  ASSUME IInv, NEW p \in Loops, StartLoop(p)
  PROVE  IInv'
<1>. USE DEF IInv, TypeOK, StartLoop, Phases, Sockets, threadVars, kernelVars, connVars, mainVars
<1>1. TypeOK'
  BY SMTT(40), ListenersAssumption, FS_CardinalityType, CountModAssumption
<1>2. NoDanglingPointer'
  BY SocketsAssumption DEF NoDanglingPointer, Open
<1>3. OneOwner'
  BY SocketsAssumption DEF OneOwnerOneTimer, OneOwner, Open, QueuesFit
<1>4. OneTimer'
  <2>. SUFFICES ASSUME NEW q \in Loops
               PROVE  /\ IsInjective(m_list'[q])
                      /\ interest'[q] \cap Conns = Range(m_list'[q]) \cup TimedOut(q)'
                      /\ Range(m_list'[q]) \cap TimedOut(q)' = {}
                      /\ m_queue'[q] \cap m_errorQueue'[q] = {}
    BY DEF OneTimer
  <2>1. TimedOut(q)' = TimedOut(q)
    BY DEF TimedOut, QueuesFit
  <2>2. interest'[q] \cap Conns = interest[q] \cap Conns
    BY SocketsAssumption DEF QueuesFit
  <2>. QED BY <2>1, <2>2 DEF OneOwnerOneTimer, OneTimer
<1>5. QueuesFit'
  BY DEF QueuesFit
<1>6. BacklogFits'
  BY DEF BacklogFits
<1>. QED BY <1>1, <1>2, <1>3, <1>4, <1>5, <1>6 DEF OneOwnerOneTimer

(* quit() clears m_runnable. *)
LEMMA QuitInv ==
  ASSUME IInv, Quit
  PROVE  IInv'
<1>. USE DEF IInv, TypeOK, Quit, threadVars, kernelVars, connVars, mainVars
<1>1. TypeOK'
  BY DEF TypeOK
<1>2. NoDanglingPointer'
  BY DEF NoDanglingPointer, Open
<1>3. OneOwner'
  BY DEF OneOwnerOneTimer, OneOwner, Open
<1>4. OneTimer'
  BY DEF OneOwnerOneTimer, OneTimer, TimedOut
<1>5. QueuesFit'
  BY DEF QueuesFit
<1>6. BacklogFits'
  BY DEF BacklogFits
<1>. QED BY <1>1, <1>2, <1>3, <1>4, <1>5, <1>6 DEF OneOwnerOneTimer

(* requestQuit() sets out to unregister and to close. *)
LEMMA RequestQuitInv ==
  ASSUME IInv, RequestQuit
  PROVE  IInv'
<1>. USE DEF IInv, TypeOK, RequestQuit, threadVars, kernelVars, connVars, mainVars
<1>1. TypeOK'
  BY QuitAssumption
<1>2. NoDanglingPointer'
  BY DEF NoDanglingPointer, Open
<1>3. OneOwner'
  BY DEF OneOwnerOneTimer, OneOwner, Open
<1>4. OneTimer'
  BY DEF OneOwnerOneTimer, OneTimer, TimedOut
<1>5. QueuesFit'
  BY DEF QueuesFit
<1>6. BacklogFits'
  BY DEF BacklogFits
<1>. QED BY <1>1, <1>2, <1>3, <1>4, <1>5, <1>6 DEF OneOwnerOneTimer

(* Unregistering a listener touches no connection. *)
LEMMA EraseListenerInv ==
  ASSUME IInv, NEW p \in Loops, NEW l \in Listeners, EraseListener(p, l)
  PROVE  IInv'
<1>. USE DEF IInv, TypeOK, EraseListener, Unregistered, Erase, Sockets, threadVars, kernelVars, connVars, mainVars
<1>1. TypeOK'
  <2>1. m_count' \in [Loops -> 0..(CountMod - 1)]
    <3>. HIDE DEF Erase, IInv, TypeOK
    <3>. QED BY EraseEffect DEF IInv, EraseListener, Unregistered, Sockets
  <2>. QED BY <2>1
<1>2. NoDanglingPointer'
  BY SocketsAssumption DEF NoDanglingPointer, Open
<1>3. OneOwner'
  BY SocketsAssumption DEF OneOwnerOneTimer, OneOwner, Open
<1>4. OneTimer'
  BY SocketsAssumption DEF OneOwnerOneTimer, OneTimer, TimedOut
<1>5. QueuesFit'
  BY SocketsAssumption DEF QueuesFit
<1>6. BacklogFits'
  BY DEF BacklogFits
<1>. QED BY <1>1, <1>2, <1>3, <1>4, <1>5, <1>6 DEF OneOwnerOneTimer

(* Closing a listener refuses its backlog. *)
LEMMA CloseListenerInv ==
  ASSUME IInv, NEW l \in Listeners, CloseListener(l)
  PROVE  IInv'
<1>. USE DEF IInv, TypeOK, CloseListener, CloseListeners, Sockets, threadVars, kernelVars, connVars, mainVars
<1>1. TypeOK'
  BY DEF TypeOK
<1>2. NoDanglingPointer'
  BY SocketsAssumption DEF NoDanglingPointer, Open, BacklogFits
<1>3. OneOwner'
  BY SocketsAssumption DEF OneOwnerOneTimer, OneOwner, Open, BacklogFits
<1>4. OneTimer'
  BY SocketsAssumption DEF OneOwnerOneTimer, OneTimer, TimedOut
<1>5. QueuesFit'
  BY SocketsAssumption DEF QueuesFit
<1>6. BacklogFits'
  BY DEF BacklogFits
<1>. QED BY <1>1, <1>2, <1>3, <1>4, <1>5, <1>6 DEF OneOwnerOneTimer

(* Nothing runs any more; the listeners are closed. *)
LEMMA JoinInv ==
  ASSUME IInv, Join
  PROVE  IInv'
<1>. USE DEF IInv, TypeOK, Join, Phases, CloseListeners, Sockets, threadVars, kernelVars, connVars, mainVars
<1>1. TypeOK'
  BY DEF TypeOK
<1>2. NoDanglingPointer'
  BY SocketsAssumption DEF NoDanglingPointer, Open, BacklogFits
<1>3. OneOwner'
  BY SocketsAssumption DEF OneOwnerOneTimer, OneOwner, Open, BacklogFits
<1>4. OneTimer'
  BY SocketsAssumption DEF OneOwnerOneTimer, OneTimer, TimedOut
<1>5. QueuesFit'
  BY SocketsAssumption DEF QueuesFit
<1>6. BacklogFits'
  BY DEF BacklogFits
<1>. QED BY <1>1, <1>2, <1>3, <1>4, <1>5, <1>6 DEF OneOwnerOneTimer

(* Nothing happens. *)
LEMMA StutterInv ==
  ASSUME IInv, UNCHANGED vars
  PROVE  IInv'
<1>. USE DEF IInv, TypeOK, vars, threadVars, kernelVars, connVars, mainVars
<1>1. TypeOK'
  BY DEF TypeOK
<1>2. NoDanglingPointer'
  BY DEF NoDanglingPointer, Open
<1>3. OneOwner'
  BY DEF OneOwnerOneTimer, OneOwner, Open
<1>4. OneTimer'
  BY DEF OneOwnerOneTimer, OneTimer, TimedOut
<1>5. QueuesFit'
  BY DEF QueuesFit
<1>6. BacklogFits'
  BY DEF BacklogFits
<1>. QED BY <1>1, <1>2, <1>3, <1>4, <1>5, <1>6 DEF OneOwnerOneTimer

(* ~EventLoop deletes the connections whose timers are left: as the loop has *)
(* ended, those are all it owns.                                             *)
LEMMA DestroyLoopInv ==
  ASSUME IInv, NEW p \in Loops, DestroyLoop(p)
  PROVE  IInv'
<1>. DEFINE C == Range(m_list[p])
<1>1. TypeOK /\ pc[p] = "exited"
  BY DEF IInv, DestroyLoop
<1>2. C \subseteq Conns /\ C \subseteq interest[p]
  BY Facts
<1>3. /\ m_queue[p] = {} /\ m_errorQueue[p] = {}
      /\ interest[p] \cap Conns = C
  BY <1>1 DEF IInv, QueuesFit, OneOwnerOneTimer, OneTimer, TimedOut
<1>4. /\ conn' \in [Conns -> {"none", "backlog", "open", "closed", "refused"}]
      /\ events' \in [Conns -> Seq({"Accpet", "Close"})]
      /\ unread' \in [Conns -> BOOLEAN]
      /\ left' \in [Conns -> 0..Timeout]
      /\ UNCHANGED <<peerOpen, sends>>
      /\ Open' = Open \ C
      /\ \A c \in Conns \ C : conn'[c] = conn[c]
  <2>. HIDE DEF C
  <2>1. CloseAll(C)
    BY DEF DestroyLoop, C
  <2>. QED BY <1>1, <1>2, <2>1, CloseEffect
<1>5. \A q \in Loops \ {p} : interest[q] \cap C = {}
  BY <1>2 DEF IInv, OneOwnerOneTimer, OneOwner
<1>6. /\ m_list' \in [Loops -> Seq(Conns)] /\ m_list'[p] = <<>>
      /\ interest' \in [Loops -> SUBSET Sockets] /\ interest'[p] = {}
      /\ ready' \in [Loops -> SUBSET Sockets] /\ ready'[p] = {}
      /\ pc' = [pc EXCEPT ![p] = "destroyed"] /\ pc'[p] = "destroyed"
      /\ UNCHANGED <<m_queue, m_errorQueue, backlog>>
  BY <1>1 DEF DestroyLoop, TypeOK
<1>7. \A q \in Loops \ {p} : /\ m_list'[q] = m_list[q] /\ interest'[q] = interest[q]
                             /\ ready'[q] = ready[q] /\ pc'[q] = pc[q]
  BY <1>1 DEF DestroyLoop, TypeOK
<1>8. Range(<<>>) = {} /\ IsInjective(<<>>)
  BY DEF Range, IsInjective
<1>9. C \subseteq Open
  BY <1>2, Facts
<1>. HIDE DEF C
<1>10. TypeOK'
  BY <1>1, <1>4, <1>6 DEF DestroyLoop, TypeOK, Phases
<1>11. NoDanglingPointer'
  <2>. SUFFICES ASSUME NEW q \in Loops
               PROVE  (m_queue'[q] \cup m_errorQueue'[q] \cup Range(m_list'[q])
                        \cup interest'[q] \cup ready'[q]) \cap Conns \subseteq Open'
    BY DEF NoDanglingPointer
  <2>1. CASE q = p
    BY <2>1, <1>3, <1>6, <1>8
  <2>2. CASE q # p
    <3>1. /\ m_queue[q] \cap Conns \subseteq interest[q] \cap Conns
          /\ m_errorQueue[q] \cap Conns \subseteq interest[q] \cap Conns
          /\ Range(m_list[q]) \cap Conns \subseteq interest[q] \cap Conns
          /\ ready[q] \cap Conns \subseteq interest[q] \cap Conns
          /\ interest[q] \cap Conns \subseteq Open
      BY Facts
    <3>2. m_list'[q] = m_list[q] /\ interest'[q] = interest[q] /\ ready'[q] = ready[q]
      BY <2>2, <1>7
    <3>3. Open' = Open \ C /\ interest[q] \cap C = {}
      BY <2>2, <1>4, <1>5
    <3>. QED BY <3>1, <3>2, <3>3, <1>6
  <2>. QED BY <2>1, <2>2
<1>12. OneOwner'
  <2>1. \A c \in Open' : \E q \in Loops : c \in interest'[q]
    <3>. SUFFICES ASSUME NEW c \in Open, c \notin C PROVE \E q \in Loops : c \in interest'[q]
      BY <1>4
    <3>1. PICK q \in Loops : c \in interest[q]
      BY DEF IInv, OneOwnerOneTimer, OneOwner
    <3>2. q # p
      BY <3>1, <1>3 DEF Open
    <3>. QED BY <3>1, <3>2, <1>7
  <2>2. \A q, r \in Loops : q # r => interest'[q] \cap interest'[r] \cap Conns = {}
    BY <1>6, <1>7 DEF IInv, OneOwnerOneTimer, OneOwner
  <2>. QED BY <2>1, <2>2 DEF OneOwner
<1>13. OneTimer'
  <2>. SUFFICES ASSUME NEW q \in Loops
               PROVE  /\ IsInjective(m_list'[q])
                      /\ interest'[q] \cap Conns = Range(m_list'[q]) \cup TimedOut(q)'
                      /\ Range(m_list'[q]) \cap TimedOut(q)' = {}
                      /\ m_queue'[q] \cap m_errorQueue'[q] = {}
    BY DEF OneTimer
  <2>1. CASE q = p
    BY <2>1, <1>3, <1>6, <1>8 DEF TimedOut
  <2>2. CASE q # p
    <3>1. TimedOut(q)' = TimedOut(q)
      BY <2>2, <1>6, <1>7 DEF TimedOut
    <3>. QED BY <2>2, <3>1, <1>6, <1>7 DEF IInv, OneOwnerOneTimer, OneTimer
  <2>. QED BY <2>1, <2>2
<1>14. QueuesFit'
  <2>. SUFFICES ASSUME NEW q \in Loops
               PROVE  /\ (m_queue'[q] \cup m_errorQueue'[q]) \cap Conns \subseteq interest'[q]
                      /\ ready'[q] \subseteq interest'[q]
                      /\ pc'[q] \notin {"serve", "accept"} => m_queue'[q] = {}
                      /\ pc'[q] \notin {"serve", "accept", "while"} => m_errorQueue'[q] = {}
                      /\ pc'[q] = "while" => m_errorQueue'[q] \subseteq Conns
                      /\ pc'[q] = "none" => interest'[q] = {} /\ m_list'[q] = <<>>
    BY DEF QueuesFit
  <2>1. CASE q = p
    BY <2>1, <1>3, <1>6
  <2>2. CASE q # p
    BY <2>2, <1>6, <1>7 DEF IInv, QueuesFit
  <2>. QED BY <2>1, <2>2
<1>15. BacklogFits'
  BY <1>4, <1>6, <1>9, <1>1 DEF IInv, BacklogFits, Open, TypeOK
<1>. QED BY <1>10, <1>11, <1>12, <1>13, <1>14, <1>15 DEF IInv, OneOwnerOneTimer

-----------------------------------------------------------------------------
(* The invariant holds initially. *)
LEMMA InitInv == Init => IInv
<1>. SUFFICES ASSUME Init PROVE IInv
  OBVIOUS
<1>1. Range(<<>>) = {} /\ IsInjective(<<>>)
  BY DEF Range, IsInjective
<1>. USE DEF Init, InitLoops
<1>2. TypeOK
  <2>1. 0 \in 0..(CountMod - 1) /\ 0 \in 0..Timeout /\ 0 \in 0..MaxSends /\ 0 \in 0..MaxRequestQuits
    BY CountModAssumption, TimeoutAssumption, MaxSendsAssumption, QuitAssumption
  <2>. QED BY <2>1 DEF TypeOK, Phases
<1>3. NoDanglingPointer
  BY <1>1 DEF NoDanglingPointer
<1>4. OneOwnerOneTimer
  BY <1>1 DEF OneOwnerOneTimer, OneOwner, OneTimer, TimedOut, Open
<1>5. QueuesFit /\ BacklogFits
  BY DEF QueuesFit, BacklogFits
<1>. QED BY <1>2, <1>3, <1>4, <1>5 DEF IInv

(* Every step of the system preserves it.                                     *)
LEMMA NextInv == IInv /\ [Next]_vars => IInv'
<1>. SUFFICES ASSUME IInv, [Next]_vars PROVE IInv'
  OBVIOUS
<1>1. CASE MainThread
  BY <1>1, StartInv, StartLoopInv, DestroyLoopInv, EraseListenerInv, CloseListenerInv, JoinInv DEF MainThread
<1>2. CASE Signals
  BY <1>2, QuitInv, RequestQuitInv DEF Signals
<1>3. ASSUME NEW p \in Loops, LoopThread(p) PROVE IInv'
  <2>1. CASE While(p) \/ Epoll(p) \/ EndAccept(p) \/ Checkout(p)
    BY <1>3, <2>1, WhileInv, EpollInv, EndAcceptInv, CheckoutInv DEF LoopThread
  <2>2. ASSUME NEW l \in Listeners, BeginAccept(p, l) \/ DropListener(p, l) PROVE IInv'
    BY <1>3, <2>2, BeginAcceptInv, DropListenerInv DEF LoopThread
  <2>3. ASSUME NEW c \in Conns, AcceptClient(p, c) \/ HandshakeFails(p, c) PROVE IInv'
    BY <1>3, <2>3, AcceptClientInv, HandshakeFailsInv DEF LoopThread
  <2>4. ASSUME NEW c \in Conns, Serve(p, c) \/ ServeAndClose(p, c) PROVE IInv'
    BY <1>3, <2>4, ServeInv, ServeAndCloseInv DEF LoopThread
  <2>5. ASSUME NEW c \in Conns, CloseOnError(p, c) \/ CloseOnTimeout(p, c) PROVE IInv'
    BY <1>3, <2>5, CloseOnErrorInv, CloseOnTimeoutInv DEF LoopThread
  <2>. QED BY <1>3, <2>1, <2>2, <2>3, <2>4, <2>5 DEF LoopThread, Thread
<1>4. CASE World
  BY <1>4, ConnectInv, SendInv, HangUpInv, ListenerFailsInv DEF World, Environment
<1>5. CASE Clock
  BY <1>5, TickInv DEF Clock
<1>6. CASE UNCHANGED vars
  BY <1>6, StutterInv
<1>. QED BY <1>1, <1>2, <1>3, <1>4, <1>5, <1>6 DEF Next, Finished

(* The inductive invariant: owner, timer, queues and registrations of every  *)
(* connection agree, whatever the loops, the main thread, the signal handler *)
(* and the clients do.                                                       *)
THEOREM ServerInvariant == Spec => []IInv
  BY InitInv, NextInv, PTL DEF Spec

(* Types: no thread holds a listener except while it accepts from it.         *)
THEOREM ServerTypeOK == Spec => []TypeOK
<1>1. IInv => TypeOK
  BY DEF IInv
<1>. QED BY <1>1, ServerInvariant, PTL

(* Nothing that processQueue, processErrorQueue, processTimeoutQueue, the     *)
(* timers or epoll still point at is a deleted socket.                        *)
THEOREM NoUseAfterDelete == Spec => []NoDanglingPointer
<1>1. IInv => NoDanglingPointer
  BY DEF IInv
<1>. QED BY <1>1, ServerInvariant, PTL

(* Every open connection is owned by one loop and has one timer there, or is  *)
(* about to be closed by timeout: none escapes and none is closed twice.      *)
THEOREM OwnedAndTimed == Spec => []OneOwnerOneTimer
<1>1. IInv => OneOwnerOneTimer
  BY DEF IInv
<1>. QED BY <1>1, ServerInvariant, PTL

-----------------------------------------------------------------------------
(* What happens between the steps: events, timers, the end of a loop.      *)

(* The steps of the whole system, one by one. *)
LEMMA Steps ==
  ASSUME [Next]_vars
  PROVE  \/ Start \/ Quit \/ RequestQuit \/ Join \/ UNCHANGED vars
         \/ \E p \in Loops : StartLoop(p) \/ DestroyLoop(p)
         \/ \E p \in Loops, l \in Listeners : EraseListener(p, l)
         \/ \E l \in Listeners : CloseListener(l)
         \/ UNCHANGED mainVars /\ Tick
         \/ UNCHANGED mainVars /\ \E l \in Listeners : ListenerFails(l)
         \/ UNCHANGED mainVars /\ \E c \in Conns : Send(c) \/ HangUp(c)
         \/ UNCHANGED mainVars /\ \E c \in Conns, l \in Listeners : Connect(c, l)
         \/ UNCHANGED mainVars /\ \E p \in Loops : While(p) \/ Epoll(p) \/ EndAccept(p) \/ Checkout(p)
         \/ UNCHANGED mainVars /\ \E p \in Loops, l \in Listeners : BeginAccept(p, l) \/ DropListener(p, l)
         \/ UNCHANGED mainVars /\ \E p \in Loops, c \in Conns : AcceptClient(p, c) \/ HandshakeFails(p, c)
         \/ UNCHANGED mainVars /\ \E p \in Loops, c \in Conns : Serve(p, c) \/ ServeAndClose(p, c)
         \/ UNCHANGED mainVars /\ \E p \in Loops, c \in Conns : CloseOnError(p, c) \/ CloseOnTimeout(p, c)
BY ZenonT(60) DEF Next, MainThread, Signals, LoopThread, Thread, World, Environment, Clock, Finished

(* What a loop may close is open, and belongs to no other loop. *)
LEMMA OwnedByOne ==
  ASSUME IInv, NEW p \in Loops, NEW c \in Conns,
         c \in m_queue[p] \cup m_errorQueue[p] \cup Range(m_list[p]) \cup interest[p]
  PROVE  /\ c \in interest[p] /\ c \in Open
         /\ \A q \in Loops \ {p} :
              c \notin m_queue[q] \cup m_errorQueue[q] \cup Range(m_list[q]) \cup interest[q] \cup ready[q]
<1>1. c \in interest[p] /\ c \in Open
  BY Facts
<1>2. \A q \in Loops \ {p} : c \notin interest[q]
  BY <1>1 DEF IInv, OneOwnerOneTimer, OneOwner
<1>. QED BY <1>1, <1>2, Facts

(* A client in a backlog is unknown to every loop. *)
LEMMA WaitingIsUnknown ==
  ASSUME IInv, NEW l \in Listeners, NEW c \in backlog[l]
  PROVE  /\ c \in Conns /\ conn[c] = "backlog" /\ c \notin Open
         /\ \A q \in Loops :
              c \notin m_queue[q] \cup m_errorQueue[q] \cup Range(m_list[q]) \cup interest[q] \cup ready[q]
<1>1. c \in Conns /\ conn[c] = "backlog" /\ c \notin Open
  BY DEF IInv, BacklogFits, TypeOK, Open
<1>. QED BY <1>1, Facts

-----------------------------------------------------------------------------
(* The event handler. *)

LEMMA AppendTwo ==
  ASSUME NEW a, NEW b
  PROVE  Append(<<a>>, b) = <<a, b>>
<1> DEFINE s == <<a>>
           t == <<a, b>>
<1>1. s \in Seq({a, b}) /\ Len(s) = 1 /\ s[1] = a
  OBVIOUS
<1>2. t \in Seq({a, b}) /\ Len(t) = 2 /\ t[1] = a /\ t[2] = b
  OBVIOUS
<1>. HIDE DEF s, t
<1>3. /\ Append(s, b) \in Seq({a, b}) /\ Len(Append(s, b)) = 2
      /\ Append(s, b)[1] = a /\ Append(s, b)[2] = b
  <2>1. b \in {a, b}
    OBVIOUS
  <2>2. Append(s, b) \in Seq({a, b}) /\ Len(Append(s, b)) = Len(s) + 1
    BY <1>1, <2>1, AppendProperties
  <2>3. \A i \in 1..Len(s) : Append(s, b)[i] = s[i]
    BY <1>1, <2>1, AppendProperties
  <2>4. Append(s, b)[Len(s) + 1] = b
    BY <1>1, <2>1, AppendProperties
  <2>. QED BY <1>1, <2>2, <2>3, <2>4
<1>4. \A i \in 1..2 : Append(s, b)[i] = t[i]
  BY <1>2, <1>3
<1>5. Append(s, b) = t
  BY <1>2, <1>3, <1>4, SeqEqual
<1>. QED BY <1>5 DEF s, t

LEMMA EventProtocolNext ==
  ASSUME IInv, EventProtocol, [Next]_vars
  PROVE  EventProtocol'
<1>1. ASSUME UNCHANGED <<conn, events>> PROVE EventProtocol'
  BY <1>1 DEF EventProtocol
<1>2. ASSUME NEW C \in SUBSET Conns, C \subseteq Open, CloseAll(C) PROVE EventProtocol'
  <2>. SUFFICES ASSUME NEW c \in Conns
               PROVE  events'[c] = CASE conn'[c] = "open"   -> <<"Accpet">>
                                     [] conn'[c] = "closed" -> <<"Accpet", "Close">>
                                     [] OTHER               -> <<>>
    BY DEF EventProtocol
  <2>1. CASE c \in C
    <3>1. conn[c] = "open" /\ conn'[c] = "closed" /\ events'[c] = Append(events[c], "Close")
      BY <1>2, <2>1 DEF CloseAll, Open
    <3>2. events[c] = <<"Accpet">>
      BY <3>1 DEF EventProtocol
    <3>3. Append(<<"Accpet">>, "Close") = <<"Accpet", "Close">>
      BY AppendTwo
    <3>4. events'[c] = <<"Accpet", "Close">>
      BY <3>1, <3>2, <3>3
    <3>. QED BY <3>1, <3>4
  <2>2. CASE c \notin C
    BY <1>2, <2>2 DEF CloseAll, EventProtocol
  <2>. QED BY <2>1, <2>2
<1>3. ASSUME NEW L \in SUBSET Listeners, CloseListeners(L), UNCHANGED events PROVE EventProtocol'
  <2>1. \A c \in UNION {backlog[l] : l \in L} : conn[c] = "backlog"
    BY DEF IInv, BacklogFits
  <2>2. conn' = [c \in Conns |-> IF c \in UNION {backlog[l] : l \in L} THEN "refused" ELSE conn[c]]
    BY <1>3 DEF CloseListeners
  <2>. QED BY <1>3, <2>1, <2>2 DEF EventProtocol
<1>4. ASSUME NEW p \in Loops, NEW c \in Conns, AcceptClient(p, c) PROVE EventProtocol'
  <2>1. socket[p] \in Listeners
    BY <1>4 DEF AcceptClient, IInv, TypeOK
  <2>2. conn[c] = "backlog"
    BY <1>4, <2>1, WaitingIsUnknown DEF AcceptClient
  <2>3. events[c] = <<>>
    BY <2>2 DEF EventProtocol
  <2>4. /\ conn' = [conn EXCEPT ![c] = "open"]
        /\ events' = [events EXCEPT ![c] = Append(@, "Accpet")]
        /\ conn \in [Conns -> {"none", "backlog", "open", "closed", "refused"}]
        /\ events \in [Conns -> Seq({"Accpet", "Close"})]
    BY <1>4 DEF AcceptClient, IInv, TypeOK
  <2>5. events'[c] = <<"Accpet">> /\ conn'[c] = "open"
    BY <2>3, <2>4
  <2>. QED BY <2>4, <2>5 DEF EventProtocol
<1>5. ASSUME NEW p \in Loops, NEW c \in Conns, HandshakeFails(p, c) PROVE EventProtocol'
  <2>1. socket[p] \in Listeners
    BY <1>5 DEF HandshakeFails, IInv, TypeOK
  <2>2. conn[c] = "backlog"
    BY <1>5, <2>1, WaitingIsUnknown DEF HandshakeFails
  <2>. QED BY <1>5, <2>2 DEF HandshakeFails, EventProtocol, IInv, TypeOK
<1>6. ASSUME NEW c \in Conns, NEW l \in Listeners, Connect(c, l) PROVE EventProtocol'
  BY <1>6 DEF Connect, EventProtocol, IInv, TypeOK
<1>7. ASSUME NEW p \in Loops, NEW c \in Conns,
             ServeAndClose(p, c) \/ CloseOnError(p, c) \/ CloseOnTimeout(p, c)
      PROVE  EventProtocol'
  <2>1. {c} \in SUBSET Conns /\ {c} \subseteq Open
    BY <1>7, OwnedByOne DEF ServeAndClose, CloseOnError, CloseOnTimeout
  <2>. QED BY <1>2, <1>7, <2>1 DEF ServeAndClose, CloseOnError, CloseOnTimeout
<1>8. ASSUME NEW p \in Loops, DestroyLoop(p) PROVE EventProtocol'
  <2>1. Range(m_list[p]) \in SUBSET Conns /\ Range(m_list[p]) \subseteq Open
    BY Facts
  <2>. QED BY <1>2, <1>8, <2>1 DEF DestroyLoop
<1>9. ASSUME Join \/ \E l \in Listeners : CloseListener(l) PROVE EventProtocol'
  <2>1. UNCHANGED events /\ \E L \in SUBSET Listeners : CloseListeners(L)
    BY <1>9 DEF Join, CloseListener
  <2>. QED BY <1>3, <2>1
<1>10. ASSUME \/ Start \/ Quit \/ RequestQuit \/ UNCHANGED vars \/ Tick
              \/ \E p \in Loops : StartLoop(p) \/ While(p) \/ Epoll(p) \/ EndAccept(p) \/ Checkout(p)
              \/ \E p \in Loops, l \in Listeners : EraseListener(p, l) \/ BeginAccept(p, l) \/ DropListener(p, l)
              \/ \E l \in Listeners : ListenerFails(l)
              \/ \E c \in Conns : Send(c) \/ HangUp(c)
              \/ \E p \in Loops, c \in Conns : Serve(p, c)
       PROVE  UNCHANGED <<conn, events>>
  BY <1>10 DEF Start, Quit, RequestQuit, vars, Tick, StartLoop, While, Epoll, EndAccept, Checkout,
     EraseListener, BeginAccept, DropListener, ListenerFails, Send, HangUp, Serve, connVars
<1>. QED BY ZenonT(60), Steps, <1>1, <1>4, <1>5, <1>6, <1>7, <1>8, <1>9, <1>10

(* Whatever the order in which loops, signals and clients act, the event     *)
(* handler sees Accpet and then Close of a connection, once each, and never  *)
(* Close without Accpet.                                                     *)
THEOREM HandlerSeesProtocol == Spec => []EventProtocol
<1>1. Init => EventProtocol
  BY DEF Init, InitLoops, EventProtocol
<1>2. IInv /\ EventProtocol /\ [Next]_vars => EventProtocol'
  BY EventProtocolNext
<1>. QED BY <1>1, <1>2, ServerInvariant, PTL DEF Spec

-----------------------------------------------------------------------------
(* The queues and the ready lists. *)

(* Closing connections of one loop disturbs nothing about the others.        *)
LEMMA CloseKeepsEvents ==
  ASSUME IInv, NoLostEvent, QueuedForAReason, NEW p \in Loops, NEW C \in SUBSET Conns,
         C \subseteq interest[p], CloseAll(C), UNCHANGED peerOpen,
         \A q \in Loops \ {p} : /\ interest'[q] = interest[q] /\ ready'[q] = ready[q]
                                /\ m_queue'[q] = m_queue[q] /\ m_errorQueue'[q] = m_errorQueue[q]
                                /\ pc'[q] = pc[q],
         /\ interest'[p] \cap Conns \subseteq interest[p] \ C
         /\ (ready[p] \ C) \cap interest'[p] \cap Conns \subseteq ready'[p]
         /\ (m_queue[p] \ C) \cap interest'[p] \cap Conns \subseteq m_queue'[p]
         /\ (m_errorQueue[p] \ C) \cap interest'[p] \cap Conns \subseteq m_errorQueue'[p]
         /\ m_queue'[p] \cap Conns \subseteq interest'[p] \cap m_queue[p]
         /\ m_errorQueue'[p] \cap Conns \subseteq interest'[p] \cap m_errorQueue[p]
         /\ m_errorQueue'[p] = {} \/ pc'[p] = pc[p]
  PROVE  NoLostEvent' /\ QueuedForAReason'
<1>2. \A q \in Loops \ {p} : C \cap interest[q] = {}
  BY DEF IInv, OneOwnerOneTimer, OneOwner
<1>3. \A c \in Conns \ C : unread'[c] = unread[c] /\ left'[c] = left[c] /\ peerOpen'[c] = peerOpen[c]
  BY DEF CloseAll, IInv, TypeOK
<1>4. \A c \in Conns : c \notin Listeners
  BY SocketsAssumption
<1>5. \A c \in Conns \ C : Reportable(c)' <=> Reportable(c)
  BY <1>3, <1>4 DEF Reportable, HasError, HasInput
<1>6. NoLostEvent'
  <2>. SUFFICES ASSUME NEW q \in Loops, NEW c \in Conns, c \in interest'[q], Reportable(c)'
               PROVE  c \in ready'[q] \cup m_queue'[q] \cup m_errorQueue'[q]
    BY DEF NoLostEvent
  <2>1. CASE q = p
    <3>1. c \in interest[p] /\ c \notin C
      BY <2>1
    <3>2. c \in ready[p] \cup m_queue[p] \cup m_errorQueue[p]
      BY <1>5, <3>1 DEF NoLostEvent
    <3>. QED BY <2>1, <3>1, <3>2
  <2>2. CASE q # p
    <3>1. c \in interest[q] /\ c \notin C
      BY <1>2, <2>2
    <3>2. c \in ready[q] \cup m_queue[q] \cup m_errorQueue[q]
      BY <1>5, <3>1 DEF NoLostEvent
    <3>. QED BY <2>2, <3>2
  <2>. QED BY <2>1, <2>2
<1>7. QueuedForAReason'
  <2>1. ASSUME NEW q \in Loops, NEW c \in Conns, c \in m_queue'[q]
        PROVE  unread'[c] /\ (peerOpen'[c] \/ c \in ready'[q])
    <3>1. CASE q = p
      BY <1>3, <2>1, <3>1 DEF QueuedForAReason
    <3>2. CASE q # p
      <4>1. c \in m_queue[q] /\ c \in interest[q] /\ c \notin C
        BY <1>2, <2>1, <3>2, Facts
      <4>. QED BY <1>3, <3>2, <4>1 DEF QueuedForAReason
    <3>. QED BY <3>1, <3>2
  <2>2. ASSUME NEW q \in Loops, NEW c \in Conns, c \in m_errorQueue'[q]
        PROVE  IF pc'[q] = "while" THEN left'[c] = 0 ELSE ~peerOpen'[c]
    <3>1. CASE q = p
      BY <1>3, <2>2, <3>1 DEF QueuedForAReason
    <3>2. CASE q # p
      <4>1. c \in m_errorQueue[q] /\ c \in interest[q] /\ c \notin C
        BY <1>2, <2>2, <3>2, Facts
      <4>. QED BY <1>3, <3>2, <4>1 DEF QueuedForAReason
    <3>. QED BY <3>1, <3>2
  <2>. QED BY <2>1, <2>2 DEF QueuedForAReason
<1>. QED BY <1>6, <1>7

(* Steps that touch listeners, threads or the clock only.                    *)
LEMMA OthersKeepEvents ==
  ASSUME IInv, NoLostEvent, QueuedForAReason,
         \A q \in Loops :
           /\ interest'[q] \cap Conns \subseteq interest[q]
           /\ ready[q] \cap Conns \subseteq ready'[q]
           /\ m_queue'[q] \cap Conns = m_queue[q] \cap Conns
           /\ m_errorQueue'[q] \cap Conns = m_errorQueue[q] \cap Conns
           /\ m_errorQueue[q] = {} \/ (pc'[q] = "while" <=> pc[q] = "while"),
         \A c \in Open : /\ unread'[c] = unread[c] /\ peerOpen'[c] = peerOpen[c]
                         /\ left[c] = 0 => left'[c] = 0
  PROVE  NoLostEvent' /\ QueuedForAReason'
<1>1. \A c \in Conns : c \notin Listeners
  BY SocketsAssumption
<1>2. \A q \in Loops : \A c \in (interest[q] \cup m_queue[q] \cup m_errorQueue[q]) \cap Conns : c \in Open
  BY Facts
<1>3. ASSUME NEW q \in Loops, NEW c \in Conns, c \in interest'[q], Reportable(c)'
      PROVE  c \in ready'[q] \cup m_queue'[q] \cup m_errorQueue'[q]
  <2>1. c \in interest[q] /\ c \in Open
    BY <1>2, <1>3
  <2>2. Reportable(c)
    BY <1>1, <1>3, <2>1 DEF Reportable, HasError, HasInput
  <2>3. c \in ready[q] \cup m_queue[q] \cup m_errorQueue[q]
    BY <2>1, <2>2 DEF NoLostEvent
  <2>. QED BY <2>3
<1>4. ASSUME NEW q \in Loops, NEW c \in Conns, c \in m_queue'[q]
      PROVE  unread'[c] /\ (peerOpen'[c] \/ c \in ready'[q])
  <2>1. c \in m_queue[q] /\ c \in Open
    BY <1>2, <1>4
  <2>. QED BY <2>1 DEF QueuedForAReason
<1>5. ASSUME NEW q \in Loops, NEW c \in Conns, c \in m_errorQueue'[q]
      PROVE  IF pc'[q] = "while" THEN left'[c] = 0 ELSE ~peerOpen'[c]
  <2>1. c \in m_errorQueue[q] /\ c \in Open
    BY <1>2, <1>5
  <2>. QED BY <2>1 DEF QueuedForAReason
<1>. QED BY <1>3, <1>4, <1>5 DEF NoLostEvent, QueuedForAReason

(* A client that sends or hangs up is reported again to the loop that has it.*)
LEMMA ClientKeepsEvents ==
  ASSUME IInv, NoLostEvent, QueuedForAReason, NEW c \in Conns, Send(c) \/ HangUp(c)
  PROVE  NoLostEvent' /\ QueuedForAReason'
<1>1. /\ UNCHANGED <<pc, m_queue, m_errorQueue, interest, left>>
      /\ ready' = [p \in Loops |-> IF c \in interest[p] THEN ready[p] \cup {c} ELSE ready[p]]
  BY DEF Send, HangUp, Edge, Interested, threadVars
<1>2. /\ \A d \in Conns \ {c} : unread'[d] = unread[d] /\ peerOpen'[d] = peerOpen[d]
      /\ unread[c] => unread'[c]
      /\ peerOpen'[c] => peerOpen[c]
  BY DEF Send, HangUp, IInv, TypeOK
<1>3. \A d \in Conns : d \notin Listeners
  BY SocketsAssumption
<1>4. ASSUME NEW q \in Loops, NEW d \in Conns, d \in interest'[q], Reportable(d)'
      PROVE  d \in ready'[q] \cup m_queue'[q] \cup m_errorQueue'[q]
  <2>1. CASE d = c
    BY <1>1, <1>4, <2>1
  <2>2. CASE d # c
    <3>1. Reportable(d)
      BY <1>2, <1>3, <1>4, <2>2 DEF Reportable, HasError, HasInput
    <3>2. d \in ready[q] \cup m_queue[q] \cup m_errorQueue[q]
      BY <1>1, <1>4, <3>1 DEF NoLostEvent
    <3>. QED BY <1>1, <3>2
  <2>. QED BY <2>1, <2>2
<1>5. ASSUME NEW q \in Loops, NEW d \in Conns, d \in m_queue'[q]
      PROVE  unread'[d] /\ (peerOpen'[d] \/ d \in ready'[q])
  <2>1. d \in m_queue[q] /\ d \in interest[q]
    BY <1>1, <1>5, Facts
  <2>2. unread[d] /\ (peerOpen[d] \/ d \in ready[q])
    BY <2>1 DEF QueuedForAReason
  <2>. QED BY <1>1, <1>2, <2>1, <2>2
<1>6. ASSUME NEW q \in Loops, NEW d \in Conns, d \in m_errorQueue'[q]
      PROVE  IF pc'[q] = "while" THEN left'[d] = 0 ELSE ~peerOpen'[d]
  <2>1. IF pc[q] = "while" THEN left[d] = 0 ELSE ~peerOpen[d]
    BY <1>1, <1>6 DEF QueuedForAReason
  <2>. QED BY <1>1, <1>2, <2>1 DEF IInv, TypeOK
<1>. QED BY <1>4, <1>5, <1>6 DEF NoLostEvent, QueuedForAReason

(* epoll_wait takes off the ready list what it reports and what has nothing  *)
(* to report.                                                                *)
LEMMA EpollKeepsEvents ==
  ASSUME IInv, NoLostEvent, QueuedForAReason, NEW p \in Loops, Epoll(p)
  PROVE  NoLostEvent' /\ QueuedForAReason'
<1> DEFINE pending == {s \in ready[p] : Reportable(s)}
<1>1. PICK S \in SUBSET pending :
        /\ ready' = [ready EXCEPT ![p] = pending \ S]
        /\ m_queue' = [m_queue EXCEPT ![p] = @ \cup {s \in S : ToQueue(s)}]
        /\ m_errorQueue' = [m_errorQueue EXCEPT ![p] = @ \cup {s \in S : HasError(s)}]
  BY DEF Epoll
<1>2. /\ pc[p] = "epoll" /\ pc'[p] = "serve" /\ \A q \in Loops \ {p} : pc'[q] = pc[q]
      /\ UNCHANGED <<interest, unread, peerOpen, left, conn>>
      /\ UNCHANGED <<failed, backlog>>
  BY DEF Epoll, IInv, TypeOK, connVars
<1>3. m_queue[p] = {} /\ m_errorQueue[p] = {}
  BY <1>2 DEF IInv, QueuesFit
<1>4. /\ ready'[p] = pending \ S
      /\ m_queue'[p] = {s \in S : ToQueue(s)}
      /\ m_errorQueue'[p] = {s \in S : HasError(s)}
      /\ \A q \in Loops \ {p} : /\ ready'[q] = ready[q] /\ m_queue'[q] = m_queue[q]
                                /\ m_errorQueue'[q] = m_errorQueue[q]
  BY <1>1, <1>3 DEF IInv, TypeOK
<1>5. \A s : ToQueue(s) <=> ~HasError(s)
  BY DEF ToQueue
<1>6. \A s : (Reportable(s)' <=> Reportable(s)) /\ (HasError(s)' <=> HasError(s))
  BY <1>2 DEF Reportable, HasError, HasInput
<1>7. \A c \in Conns : (HasError(c) <=> ~peerOpen[c]) /\ (HasInput(c) <=> unread[c])
  BY SocketsAssumption DEF HasError, HasInput
<1>8. ASSUME NEW q \in Loops, NEW c \in Conns, c \in interest'[q], Reportable(c)'
      PROVE  c \in ready'[q] \cup m_queue'[q] \cup m_errorQueue'[q]
  <2>1. c \in ready[q] \cup m_queue[q] \cup m_errorQueue[q] /\ Reportable(c)
    BY <1>2, <1>6, <1>8 DEF NoLostEvent
  <2>2. CASE q = p
    BY <1>3, <1>4, <1>5, <2>1, <2>2
  <2>3. CASE q # p
    BY <1>4, <2>1, <2>3
  <2>. QED BY <2>2, <2>3
<1>9. ASSUME NEW q \in Loops, NEW c \in Conns, c \in m_queue'[q]
      PROVE  unread'[c] /\ (peerOpen'[c] \/ c \in ready'[q])
  <2>1. CASE q = p
    <3>1. Reportable(c) /\ ~HasError(c)
      BY <1>1, <1>4, <1>5, <1>9, <2>1
    <3>. QED BY <1>2, <1>7, <3>1 DEF Reportable
  <2>2. CASE q # p
    BY <1>2, <1>4, <1>9, <2>2 DEF QueuedForAReason
  <2>. QED BY <2>1, <2>2
<1>10. ASSUME NEW q \in Loops, NEW c \in Conns, c \in m_errorQueue'[q]
      PROVE  IF pc'[q] = "while" THEN left'[c] = 0 ELSE ~peerOpen'[c]
  <2>1. CASE q = p
    BY <1>2, <1>4, <1>7, <1>10, <2>1
  <2>2. CASE q # p
    BY <1>2, <1>4, <1>10, <2>2 DEF QueuedForAReason
  <2>. QED BY <2>1, <2>2
<1>. QED BY <1>8, <1>9, <1>10 DEF NoLostEvent, QueuedForAReason

(* What a new connection has sent already is reported at once.               *)
LEMMA AcceptKeepsEvents ==
  ASSUME IInv, NoLostEvent, QueuedForAReason, NEW p \in Loops, NEW c \in Conns, AcceptClient(p, c)
  PROVE  NoLostEvent' /\ QueuedForAReason'
<1>1. socket[p] \in Listeners /\ c \in backlog[socket[p]]
  BY DEF AcceptClient, IInv, TypeOK
<1>2. \A q \in Loops : c \notin m_queue[q] \cup m_errorQueue[q] \cup interest[q]
  BY <1>1, WaitingIsUnknown
<1>3. /\ interest'[p] = interest[p] \cup {c}
      /\ ready'[p] = IF Reportable(c) THEN ready[p] \cup {c} ELSE ready[p]
      /\ \A q \in Loops \ {p} : interest'[q] = interest[q] /\ ready'[q] = ready[q]
      /\ \A d \in Conns \ {c} : left'[d] = left[d]
      /\ UNCHANGED <<m_queue, m_errorQueue, pc, unread, peerOpen, failed>>
  BY DEF AcceptClient, IInv, TypeOK
<1>4. \A d \in Conns : Reportable(d)' <=> Reportable(d)
  BY <1>3, SocketsAssumption DEF Reportable, HasError, HasInput
<1>5. ASSUME NEW q \in Loops, NEW d \in Conns, d \in interest'[q], Reportable(d)'
      PROVE  d \in ready'[q] \cup m_queue'[q] \cup m_errorQueue'[q]
  <2>1. CASE d = c
    <3>1. q = p
      BY <1>2, <1>3, <1>5, <2>1
    <3>. QED BY <1>3, <1>4, <1>5, <2>1, <3>1
  <2>2. CASE d # c
    <3>1. d \in interest[q]
      BY <1>3, <1>5, <2>2
    <3>2. d \in ready[q] \cup m_queue[q] \cup m_errorQueue[q]
      BY <1>4, <1>5, <3>1 DEF NoLostEvent
    <3>. QED BY <1>3, <3>2
  <2>. QED BY <2>1, <2>2
<1>6. ASSUME NEW q \in Loops PROVE ready[q] \subseteq ready'[q]
  BY <1>3
<1>7. QueuedForAReason'
  BY <1>2, <1>3, <1>6 DEF QueuedForAReason
<1>. QED BY <1>5, <1>7 DEF NoLostEvent

(* What process has read need not be reported; a hang-up that came since the *)
(* loop was woken is still on the ready list.                                *)
LEMMA ServeKeepsEvents ==
  ASSUME IInv, NoLostEvent, QueuedForAReason, NEW p \in Loops, NEW c \in Conns, Serve(p, c)
  PROVE  NoLostEvent' /\ QueuedForAReason'
<1>1. /\ c \in m_queue[p] /\ pc[p] = "serve"
      /\ m_queue'[p] = m_queue[p] \ {c}
      /\ \A q \in Loops \ {p} : m_queue'[q] = m_queue[q]
      /\ unread' = [unread EXCEPT ![c] = FALSE]
      /\ left' = [left EXCEPT ![c] = Timeout]
      /\ UNCHANGED <<pc, m_errorQueue, interest, ready, peerOpen>>
  BY DEF Serve, ReadAll, Reset, IInv, TypeOK, kernelVars
<1>2. \A q \in Loops \ {p} : c \notin m_queue[q] \cup m_errorQueue[q] \cup interest[q]
  BY <1>1, OwnedByOne
<1>3. c \notin m_errorQueue[p]
  BY <1>1 DEF IInv, OneOwnerOneTimer, OneTimer
<1>4. /\ ~unread'[c]
      /\ \A d \in Conns \ {c} : unread'[d] = unread[d] /\ left'[d] = left[d]
  BY <1>1 DEF IInv, TypeOK
<1>5. \A d \in Conns : d \notin Listeners
  BY SocketsAssumption
<1>6. ASSUME NEW q \in Loops, NEW d \in Conns, d \in interest'[q], Reportable(d)'
      PROVE  d \in ready'[q] \cup m_queue'[q] \cup m_errorQueue'[q]
  <2>1. CASE d = c
    <3>1. q = p /\ ~peerOpen[c]
      BY <1>1, <1>2, <1>4, <1>5, <1>6, <2>1 DEF Reportable, HasError, HasInput
    <3>2. c \in ready[p]
      BY <1>1, <3>1 DEF QueuedForAReason
    <3>. QED BY <1>1, <2>1, <3>1, <3>2
  <2>2. CASE d # c
    <3>1. Reportable(d)
      BY <1>1, <1>4, <1>5, <1>6, <2>2 DEF Reportable, HasError, HasInput
    <3>2. d \in ready[q] \cup m_queue[q] \cup m_errorQueue[q]
      BY <1>1, <1>6, <3>1 DEF NoLostEvent
    <3>. QED BY <1>1, <2>2, <3>2
  <2>. QED BY <2>1, <2>2
<1>7. ASSUME NEW q \in Loops, NEW d \in Conns, d \in m_queue'[q]
      PROVE  unread'[d] /\ (peerOpen'[d] \/ d \in ready'[q])
  <2>1. d \in m_queue[q] /\ d # c
    BY <1>1, <1>2, <1>7
  <2>. QED BY <1>1, <1>4, <2>1 DEF QueuedForAReason
<1>8. ASSUME NEW q \in Loops, NEW d \in Conns, d \in m_errorQueue'[q]
      PROVE  IF pc'[q] = "while" THEN left'[d] = 0 ELSE ~peerOpen'[d]
  <2>1. d \in m_errorQueue[q] /\ d # c
    BY <1>1, <1>2, <1>3, <1>8
  <2>. QED BY <1>1, <1>4, <2>1 DEF QueuedForAReason
<1>. QED BY <1>6, <1>7, <1>8 DEF NoLostEvent, QueuedForAReason

(* checkout fills the empty error queue with those whose time is over.       *)
LEMMA CheckoutKeepsEvents ==
  ASSUME IInv, NoLostEvent, QueuedForAReason, NEW p \in Loops, Checkout(p)
  PROVE  NoLostEvent' /\ QueuedForAReason'
<1>1. PICK n \in ExpiredPrefixes(m_list[p], left, 0) :
        m_errorQueue' = [m_errorQueue EXCEPT ![p] = Range(Taken(m_list[p], n))]
  BY DEF Checkout
<1>2. /\ m_errorQueue[p] = {} /\ pc'[p] = "while" /\ \A q \in Loops \ {p} : pc'[q] = pc[q]
      /\ UNCHANGED <<m_queue, left, interest, ready, unread, peerOpen, failed, backlog>>
  BY DEF Checkout, IInv, TypeOK, kernelVars, connVars
<1>3. /\ m_errorQueue'[p] = Range(Taken(m_list[p], n))
      /\ \A q \in Loops \ {p} : m_errorQueue'[q] = m_errorQueue[q]
  BY <1>1 DEF IInv, TypeOK
<1>4. \A c \in Range(Taken(m_list[p], n)) : c \in Conns /\ left[c] = 0
  <2>1. n \in 0..Len(m_list[p]) /\ \A i \in 1..n : left[m_list[p][i]] <= 0
    BY DEF ExpiredPrefixes
  <2>2. m_list[p] \in Seq(Conns)
    BY Facts
  <2>3. /\ Taken(m_list[p], n) \in Seq(Conns) /\ Len(Taken(m_list[p], n)) = n
        /\ \A i \in 1..n : Taken(m_list[p], n)[i] = m_list[p][i]
    BY <2>1, <2>2, SplitShape
  <2>4. Range(Taken(m_list[p], n)) = {Taken(m_list[p], n)[i] : i \in 1..n}
    BY <2>3, RangeIs
  <2>5. \A i \in 1..n : m_list[p][i] \in Conns
    BY <2>1, <2>2, ElementOfSeq
  <2>6. left \in [Conns -> 0..Timeout] /\ Timeout \in Nat
    BY TimeoutAssumption DEF IInv, TypeOK
  <2>7. \A i \in 1..n : left[m_list[p][i]] = 0
    BY <2>1, <2>5, <2>6
  <2>. QED BY <2>3, <2>4, <2>5, <2>7
<1>5. \A s : Reportable(s)' <=> Reportable(s)
  BY <1>2 DEF Reportable, HasError, HasInput
<1>6. NoLostEvent'
  BY <1>2, <1>3, <1>5 DEF NoLostEvent
<1>7. QueuedForAReason'
  BY <1>2, <1>3, <1>4 DEF QueuedForAReason
<1>. QED BY <1>6, <1>7

(* What the loop that closes a connection does to the queues.                *)
LEMMA ClosingQueues ==
  ASSUME IInv, NEW p \in Loops, NEW c \in Conns,
         ServeAndClose(p, c) \/ CloseOnError(p, c) \/ CloseOnTimeout(p, c)
  PROVE  /\ m_queue'[p] = m_queue[p] \ {c} /\ m_errorQueue'[p] = m_errorQueue[p] \ {c}
         /\ \A q \in Loops \ {p} : m_queue'[q] = m_queue[q] /\ m_errorQueue'[q] = m_errorQueue[q]
<1>1. /\ m_queue \in [Loops -> SUBSET Sockets] /\ m_errorQueue \in [Loops -> SUBSET Sockets]
      /\ m_queue[p] \cap m_errorQueue[p] = {}
      /\ pc[p] = "while" => m_queue[p] = {}
  BY DEF IInv, TypeOK, OneOwnerOneTimer, OneTimer, QueuesFit
<1>2. CASE ServeAndClose(p, c)
  BY <1>1, <1>2 DEF ServeAndClose
<1>3. CASE CloseOnError(p, c)
  BY <1>1, <1>3 DEF CloseOnError
<1>4. CASE CloseOnTimeout(p, c)
  BY <1>1, <1>4 DEF CloseOnTimeout
<1>. QED BY <1>2, <1>3, <1>4

(* What a loop that accepts does to the backlog and to its listeners.        *)
LEMMA AcceptingBacklog ==
  ASSUME IInv, NEW p \in Loops, NEW c \in Conns, AcceptClient(p, c) \/ HandshakeFails(p, c)
  PROVE  /\ \A l \in Listeners : backlog'[l] \subseteq backlog[l]
         /\ \A q \in Loops : ready[q] \subseteq ready'[q] /\ interest'[q] \cap Listeners \subseteq interest[q]
<1>1. backlog' = [backlog EXCEPT ![socket[p]] = @ \ {c}] /\ backlog \in [Listeners -> SUBSET Conns]
  BY DEF AcceptClient, HandshakeFails, IInv, TypeOK
<1>2. ready \in [Loops -> SUBSET Sockets] /\ interest \in [Loops -> SUBSET Sockets] /\ c \notin Listeners
  BY SocketsAssumption DEF IInv, TypeOK
<1>3. CASE AcceptClient(p, c)
  BY <1>1, <1>2, <1>3 DEF AcceptClient
<1>4. CASE HandshakeFails(p, c)
  BY <1>1, <1>2, <1>4 DEF HandshakeFails
<1>. QED BY <1>3, <1>4

(* A loop that closes a connection has taken it out of everything first.     *)
LEMMA ClosingKeepsEvents ==
  ASSUME IInv, NoLostEvent, QueuedForAReason, NEW p \in Loops,
         \/ \E c \in Conns : ServeAndClose(p, c) \/ CloseOnError(p, c) \/ CloseOnTimeout(p, c)
         \/ DestroyLoop(p)
  PROVE  NoLostEvent' /\ QueuedForAReason'
<1>1. ASSUME NEW c \in Conns, ServeAndClose(p, c) \/ CloseOnError(p, c) \/ CloseOnTimeout(p, c)
      PROVE  NoLostEvent' /\ QueuedForAReason'
  <2>1. c \in interest[p]
    BY <1>1, OwnedByOne DEF ServeAndClose, CloseOnError, CloseOnTimeout
  <2>2. CloseAll({c}) /\ Erase(p, c) /\ UNCHANGED <<peerOpen, pc>>
    BY <1>1 DEF ServeAndClose, CloseOnError, CloseOnTimeout, CloseAll
  <2>3. /\ interest'[p] = interest[p] \ {c} /\ ready'[p] = ready[p] \ {c}
        /\ \A q \in Loops \ {p} : interest'[q] = interest[q] /\ ready'[q] = ready[q]
    BY <2>2, EraseEffect DEF IInv, Sockets
  <2>5. /\ m_queue'[p] = m_queue[p] \ {c} /\ m_errorQueue'[p] = m_errorQueue[p] \ {c}
        /\ \A q \in Loops \ {p} : m_queue'[q] = m_queue[q] /\ m_errorQueue'[q] = m_errorQueue[q]
    BY <1>1, ClosingQueues
  <2>6. (m_queue[p] \cup m_errorQueue[p]) \cap Conns \subseteq interest[p]
    BY Facts
  <2>7. {c} \in SUBSET Conns /\ {c} \subseteq interest[p]
    BY <2>1
  <2>. QED BY <2>2, <2>3, <2>5, <2>6, <2>7, CloseKeepsEvents
<1>2. ASSUME DestroyLoop(p) PROVE NoLostEvent' /\ QueuedForAReason'
  <2> DEFINE C == Range(m_list[p])
  <2>1. C \in SUBSET Conns /\ C \subseteq interest[p]
    BY Facts
  <2>2. pc[p] = "exited" /\ m_queue[p] = {} /\ m_errorQueue[p] = {}
    BY <1>2 DEF DestroyLoop, IInv, QueuesFit
  <2>3. CloseAll(C) /\ UNCHANGED <<peerOpen, m_queue, m_errorQueue>>
    BY <1>2 DEF DestroyLoop, CloseAll
  <2>4. /\ interest'[p] = {} /\ ready'[p] = {}
        /\ \A q \in Loops \ {p} : interest'[q] = interest[q] /\ ready'[q] = ready[q] /\ pc'[q] = pc[q]
    BY <1>2 DEF DestroyLoop, IInv, TypeOK
  <2>. HIDE DEF C
  <2>. QED BY <2>1, <2>2, <2>3, <2>4, CloseKeepsEvents
<1>. QED BY <1>1, <1>2

(* The steps of listeners, threads and the clock, in the form OthersKeepEvents*)
(* asks for.                                                                 *)
LEMMA QuietKeepsEvents ==
  ASSUME IInv, NoLostEvent, QueuedForAReason,
         \/ Start \/ Quit \/ RequestQuit \/ UNCHANGED vars \/ Tick
         \/ \E p \in Loops : While(p) \/ EndAccept(p)
         \/ \E l \in Listeners : ListenerFails(l)
         \/ \E c \in Conns, l \in Listeners : Connect(c, l)
  PROVE  NoLostEvent' /\ QueuedForAReason'
<1>1. /\ interest' = interest /\ m_queue' = m_queue /\ m_errorQueue' = m_errorQueue
      /\ UNCHANGED <<unread, peerOpen>>
  BY DEF Start, Quit, RequestQuit, vars, Tick, While, EndAccept, ListenerFails, Connect,
         threadVars, kernelVars, connVars
<1>2. \A q \in Loops : ready[q] \subseteq ready'[q]
  <2>1. CASE ready' = ready
    BY <2>1
  <2>2. CASE \E s \in Listeners, P \in SUBSET Loops : Edge(s, P)
    BY <2>2 DEF Edge
  <2>3. \A l \in Listeners : Woken(l) \subseteq SUBSET Loops
    BY DEF Woken, Interested
  <2>4. ASSUME NEW l \in Listeners, (\E c \in Conns : Connect(c, l)) \/ ListenerFails(l)
        PROVE  \E s \in Listeners, P \in SUBSET Loops : Edge(s, P)
    BY <2>3, <2>4 DEF Connect, ListenerFails
  <2>5. ready' = ready \/ \E l \in Listeners : (\E c \in Conns : Connect(c, l)) \/ ListenerFails(l)
    BY DEF Start, Quit, RequestQuit, vars, Tick, While, EndAccept, kernelVars
  <2>. QED BY <2>1, <2>2, <2>4, <2>5
<1>3. \A q \in Loops : m_errorQueue[q] = {} \/ (pc'[q] = "while" <=> pc[q] = "while")
  BY DEF Start, Quit, RequestQuit, vars, Tick, While, EndAccept, ListenerFails, Connect,
         threadVars, IInv, TypeOK
<1>4. \A c \in Conns : left[c] = 0 => left'[c] = 0
  BY DEF Start, Quit, RequestQuit, vars, Tick, While, EndAccept, ListenerFails, Connect, connVars
<1>. QED BY <1>1, <1>2, <1>3, <1>4, OthersKeepEvents DEF Open

LEMMA ListenersKeepEvents ==
  ASSUME IInv, NoLostEvent, QueuedForAReason,
         \/ Join
         \/ \E p \in Loops : StartLoop(p)
         \/ \E l \in Listeners : CloseListener(l)
         \/ \E p \in Loops, l \in Listeners :
              EraseListener(p, l) \/ BeginAccept(p, l) \/ DropListener(p, l)
         \/ \E p \in Loops, c \in Conns : HandshakeFails(p, c)
  PROVE  NoLostEvent' /\ QueuedForAReason'
<1>. USE SocketsAssumption
<1>1. ASSUME NEW L \in SUBSET Listeners, CloseListeners(L), UNCHANGED <<threadVars, peerOpen, left>>,
             interest' = [p \in Loops |-> interest[p] \ L], ready' = [p \in Loops |-> ready[p] \ L]
      PROVE  NoLostEvent' /\ QueuedForAReason'
  <2>1. \A c \in UNION {backlog[l] : l \in L} : c \notin Open
    BY WaitingIsUnknown
  <2>2. unread' = [c \in Conns |-> unread[c] /\ c \notin UNION {backlog[l] : l \in L}]
    BY <1>1 DEF CloseListeners
  <2>3. \A c \in Open : unread'[c] = unread[c]
    BY <2>1, <2>2 DEF Open, IInv, TypeOK
  <2>. QED BY <1>1, <2>3, OthersKeepEvents DEF threadVars
<1>2. CASE Join
  BY <1>1, <1>2 DEF Join
<1>3. CASE \E l \in Listeners : CloseListener(l)
  BY <1>1, <1>3 DEF CloseListener
<1>4. ASSUME NEW p \in Loops, StartLoop(p) PROVE NoLostEvent' /\ QueuedForAReason'
  <2>1. pc[p] = "none" /\ interest[p] = {} /\ m_errorQueue[p] = {} /\ ready[p] = {}
    BY <1>4 DEF StartLoop, IInv, QueuesFit
  <2>2. /\ interest'[p] \subseteq Listeners /\ \A q \in Loops \ {p} : interest'[q] = interest[q]
        /\ \A q \in Loops \ {p} : ready'[q] = ready[q] /\ pc'[q] = pc[q]
        /\ UNCHANGED <<m_queue, m_errorQueue, left, unread, peerOpen>>
    BY <1>4 DEF StartLoop, IInv, TypeOK, connVars
  <2>. QED BY <2>1, <2>2, OthersKeepEvents
<1>5. ASSUME NEW p \in Loops, NEW l \in Listeners, EraseListener(p, l) \/ DropListener(p, l)
      PROVE  NoLostEvent' /\ QueuedForAReason'
  <2>1. Erase(p, l) /\ UNCHANGED <<pc, m_queue, left, unread, peerOpen>>
    BY <1>5 DEF EraseListener, Unregistered, DropListener, connVars
  <2>2. m_errorQueue' = m_errorQueue \/ m_errorQueue' = [m_errorQueue EXCEPT ![p] = @ \ {l}]
    BY <1>5 DEF EraseListener, Unregistered, DropListener
  <2>3. /\ interest'[p] = interest[p] \ {l} /\ ready'[p] = ready[p] \ {l}
        /\ \A q \in Loops \ {p} : interest'[q] = interest[q] /\ ready'[q] = ready[q]
    BY <2>1, EraseEffect DEF IInv, Sockets
  <2>4. \A q \in Loops : m_errorQueue'[q] \cap Conns = m_errorQueue[q] \cap Conns
    <3>1. m_errorQueue \in [Loops -> SUBSET Sockets] /\ l \notin Conns
      BY DEF IInv, TypeOK
    <3>2. CASE m_errorQueue' = [m_errorQueue EXCEPT ![p] = @ \ {l}]
      <4>1. m_errorQueue'[p] = m_errorQueue[p] \ {l} /\ \A q \in Loops \ {p} : m_errorQueue'[q] = m_errorQueue[q]
        BY <3>1, <3>2
      <4>. QED BY <3>1, <4>1
    <3>. QED BY <2>2, <3>2
  <2>. QED BY <2>1, <2>3, <2>4, OthersKeepEvents
<1>6. ASSUME NEW p \in Loops, NEW l \in Listeners, BeginAccept(p, l)
      PROVE  NoLostEvent' /\ QueuedForAReason'
  <2>1. /\ UNCHANGED <<m_errorQueue, interest, ready, left, unread, peerOpen>>
        /\ m_queue' = [m_queue EXCEPT ![p] = @ \ {l}]
        /\ \A q \in Loops : pc'[q] = "while" <=> pc[q] = "while"
    BY <1>6 DEF BeginAccept, IInv, TypeOK, kernelVars, connVars
  <2>2. \A q \in Loops : m_queue'[q] \cap Conns = m_queue[q] \cap Conns
    BY <2>1 DEF IInv, TypeOK
  <2>. QED BY <2>1, <2>2, OthersKeepEvents
<1>7. ASSUME NEW p \in Loops, NEW c \in Conns, HandshakeFails(p, c)
      PROVE  NoLostEvent' /\ QueuedForAReason'
  <2>1. socket[p] \in Listeners /\ c \in backlog[socket[p]]
    BY <1>7 DEF HandshakeFails, IInv, TypeOK
  <2>2. c \notin Open
    BY <2>1, WaitingIsUnknown
  <2>3. \A d \in Open : unread'[d] = unread[d]
    <3>1. unread' = [unread EXCEPT ![c] = FALSE] /\ unread \in [Conns -> BOOLEAN]
      BY <1>7 DEF HandshakeFails, IInv, TypeOK
    <3>2. \A d \in Conns : d # c => unread'[d] = unread[d]
      BY <3>1
    <3>. QED BY <2>2, <3>2 DEF Open
  <2>. QED BY <1>7, <2>3, OthersKeepEvents DEF HandshakeFails, threadVars
<1>. QED BY <1>2, <1>3, <1>4, <1>5, <1>6, <1>7

LEMMA EventsNext ==
  ASSUME IInv, NoLostEvent, QueuedForAReason, [Next]_vars
  PROVE  NoLostEvent' /\ QueuedForAReason'
BY ZenonT(60), Steps, ClientKeepsEvents, EpollKeepsEvents, AcceptKeepsEvents, ServeKeepsEvents, CheckoutKeepsEvents,
   ClosingKeepsEvents, QuietKeepsEvents, ListenersKeepEvents

LEMMA EventsInvariant == Spec => [](NoLostEvent /\ QueuedForAReason)
<1>1. Init => NoLostEvent /\ QueuedForAReason
  BY DEF Init, InitLoops, NoLostEvent, QueuedForAReason
<1>2. IInv /\ (NoLostEvent /\ QueuedForAReason) /\ [Next]_vars => (NoLostEvent /\ QueuedForAReason)'
  BY EventsNext
<1>. QED BY <1>1, <1>2, ServerInvariant, PTL DEF Spec

(* Edge-triggered epoll tells of a request or a hang-up once; no loop ever   *)
(* forgets one: it is on the ready list or in a queue until it is handled.   *)
THEOREM NoEventIsLost == Spec => []NoLostEvent
<1>. QED BY EventsInvariant, PTL

(* process is never called on a connection that has nothing to read.         *)
THEOREM ServedHasInput == Spec => []NoIdleServe
<1>1. QueuedForAReason => NoIdleServe
  BY DEF QueuedForAReason, NoIdleServe
<1>. QED BY <1>1, EventsInvariant, PTL

(* What a queue holds when the loop comes to it is still due: nothing that   *)
(* the other handlers, the clients or the clock did since epoll_wait or      *)
(* checkout put it there has made it stale.                                  *)
THEOREM QueuedIsDue == Spec => []QueuedForAReason
<1>. QED BY EventsInvariant, PTL

-----------------------------------------------------------------------------
(* The timers. *)

(* The lists of the other loops are ordered as they were, when a step of     *)
(* loop p changes only the timer of a connection that they do not have.      *)
LEMMA OtherTimersOrdered ==
  ASSUME IInv, TimersOrdered, NEW p \in Loops, NEW C,
         \A q \in Loops \ {p} : m_list'[q] = m_list[q] /\ Range(m_list[q]) \cap C = {},
         \A d \in Conns : d \notin C => left'[d] = left[d],
         Ordered(m_list'[p], left')
  PROVE  TimersOrdered'
<1>1. ASSUME NEW q \in Loops, q # p PROVE Ordered(m_list'[q], left')
  <2>1. m_list[q] \in Seq(Conns) /\ Range(m_list[q]) \subseteq Conns
    BY Facts
  <2>2. \A d \in Range(m_list[q]) : left'[d] = left[d]
    BY <1>1, <2>1
  <2>3. Ordered(m_list[q], left)
    BY DEF TimersOrdered
  <2>4. Ordered(m_list[q], left')
    BY <2>1, <2>2, <2>3, OrderedSame
  <2>. QED BY <1>1, <2>4
<1>. QED BY <1>1 DEF TimersOrdered

(* A new timer runs out no earlier than any other.                           *)
LEMMA AcceptKeepsOrder ==
  ASSUME IInv, TimersOrdered, NEW p \in Loops, NEW c \in Conns, AcceptClient(p, c)
  PROVE  TimersOrdered'
<1>1. socket[p] \in Listeners /\ c \in backlog[socket[p]]
  BY DEF AcceptClient, IInv, TypeOK
<1>2. \A q \in Loops : c \notin Range(m_list[q])
  BY <1>1, WaitingIsUnknown
<1>3. PICK k \in StartPoints(m_list[p], left, Timeout) :
        m_list' = [m_list EXCEPT ![p] = Emplace(@, k, c)]
  BY DEF AcceptClient
<1>4. /\ m_list \in [Loops -> Seq(Conns)] /\ left \in [Conns -> Int] /\ Timeout \in Int
      /\ left' = [left EXCEPT ![c] = Timeout]
  BY TimeoutAssumption DEF AcceptClient, IInv, TypeOK
<1>5. Ordered(m_list[p], left) /\ left' \in [Conns -> Int] /\ m_list[p] \in Seq(Conns)
  BY <1>4 DEF TimersOrdered
<1>6. Ordered(Emplace(m_list[p], k, c), left')
  BY <1>2, <1>4, <1>5, StartOrdered
<1>7. m_list'[p] = Emplace(m_list[p], k, c) /\ \A q \in Loops \ {p} : m_list'[q] = m_list[q]
  BY <1>3, <1>4
<1>8. \A d \in Conns : d \notin {c} => left'[d] = left[d]
  BY <1>4
<1>9. \A q \in Loops \ {p} : m_list'[q] = m_list[q] /\ Range(m_list[q]) \cap {c} = {}
  BY <1>2, <1>7
<1>. QED BY <1>6, <1>7, <1>8, <1>9, OtherTimersOrdered

(* No timer has more than the timeout left, so restart never has to move one *)
(* to the front, which its loop cannot do.                                   *)
LEMMA ServeKeepsOrder ==
  ASSUME IInv, TimersOrdered, NEW p \in Loops, NEW c \in Conns, Serve(p, c)
  PROVE  TimersOrdered'
<1> DEFINE dl == Reset(c)
           Points == RestartPoints(m_list[p], dl, dl[c])
<1>1. PICK j \in 1..Len(m_list[p]) :
        /\ m_list[p][j] = c
        /\ \/ \E k \in Points : m_list' = [m_list EXCEPT ![p] = Splice(@, j, k)]
           \/ Points = {} /\ UNCHANGED m_list
  BY DEF Serve
<1>2. /\ m_list \in [Loops -> Seq(Conns)] /\ left \in [Conns -> 0..Timeout] /\ Timeout \in Nat
      /\ left' = dl /\ dl = [left EXCEPT ![c] = Timeout] /\ c \in m_queue[p]
  BY TimeoutAssumption DEF Serve, Reset, IInv, TypeOK
<1>3. /\ Ordered(m_list[p], left) /\ m_list[p] \in Seq(Conns) /\ IsInjective(m_list[p])
      /\ left \in [Conns -> Int] /\ dl \in [Conns -> Int] /\ dl[c] = Timeout /\ left[m_list[p][j]] <= dl[c]
      /\ dl = [left EXCEPT ![m_list[p][j]] = dl[c]]
  BY <1>1, <1>2 DEF TimersOrdered, IInv, OneOwnerOneTimer, OneTimer
<1>. HIDE DEF dl
<1>4. /\ \A k \in RestartPoints(m_list[p], dl, dl[c]) : Ordered(Splice(m_list[p], j, k), dl)
      /\ RestartPoints(m_list[p], dl, dl[c]) = {} /\ left[m_list[p][j]] <= dl[c] => Ordered(m_list[p], dl)
  BY <1>3, RestartOrdered
<1>5. Ordered(m_list'[p], left') /\ \A q \in Loops \ {p} : m_list'[q] = m_list[q]
  <2>1. CASE \E k \in Points : m_list' = [m_list EXCEPT ![p] = Splice(@, j, k)]
    BY <1>2, <1>4, <2>1
  <2>2. CASE Points = {} /\ UNCHANGED m_list
    BY <1>2, <1>3, <1>4, <2>2
  <2>. QED BY <1>1, <2>1, <2>2
<1>6. \A q \in Loops \ {p} : Range(m_list[q]) \cap {c} = {}
  BY <1>2, OwnedByOne
<1>7. \A d \in Conns : d \notin {c} => left'[d] = left[d]
  BY <1>2
<1>. QED BY <1>5, <1>6, <1>7, OtherTimersOrdered

(* destory leaves a gap, checkout the rest, ~EventLoop nothing.              *)
LEMMA ClosingKeepsOrder ==
  ASSUME IInv, TimersOrdered, NEW p \in Loops,
         \/ \E c \in Conns : ServeAndClose(p, c) \/ CloseOnError(p, c) \/ CloseOnTimeout(p, c)
         \/ DestroyLoop(p)
  PROVE  TimersOrdered'
<1>0. /\ m_list \in [Loops -> Seq(Conns)] /\ m_list[p] \in Seq(Conns) /\ IsInjective(m_list[p])
      /\ Ordered(m_list[p], left)
  BY Facts DEF IInv, TypeOK, TimersOrdered
<1>1. ASSUME NEW c \in Conns, ServeAndClose(p, c) \/ CloseOnError(p, c)
      PROVE  TimersOrdered'
  <2>1. DestoryTimer(p, c) /\ CloseAll({c}) /\ c \in m_queue[p] \cup m_errorQueue[p]
    BY <1>1 DEF ServeAndClose, CloseOnError
  <2>2. PICK j \in 1..Len(m_list[p]) :
          m_list[p][j] = c /\ m_list' = [m_list EXCEPT ![p] = RemoveAt(@, j)]
    BY <2>1 DEF DestoryTimer
  <2>3. m_list'[p] = RemoveAt(m_list[p], j) /\ \A q \in Loops \ {p} : m_list'[q] = m_list[q]
    BY <1>0, <2>2
  <2>4. RemoveAt(m_list[p], j) \in Seq(Conns) /\ Range(RemoveAt(m_list[p], j)) = Range(m_list[p]) \ {c}
    BY <1>0, <2>2, RemoveShape, RemoveUsers
  <2>5. Ordered(RemoveAt(m_list[p], j), left)
    BY <1>0, RemoveOrdered
  <2>6. \A d \in Conns : d \notin {c} => left'[d] = left[d]
    BY <2>1 DEF CloseAll
  <2>7. \A d \in Range(RemoveAt(m_list[p], j)) : left'[d] = left[d]
    BY <2>4, <2>6, Facts
  <2>8. Ordered(m_list'[p], left')
    BY <2>3, <2>4, <2>5, <2>7, OrderedSame
  <2>9. \A q \in Loops \ {p} : Range(m_list[q]) \cap {c} = {}
    BY <2>1, OwnedByOne
  <2>. QED BY <2>3, <2>6, <2>8, <2>9, OtherTimersOrdered
<1>2. ASSUME NEW c \in Conns, CloseOnTimeout(p, c) PROVE TimersOrdered'
  <2>1. /\ m_list' = m_list /\ CloseAll({c}) /\ pc[p] = "while" /\ c \in m_errorQueue[p]
    BY <1>2 DEF CloseOnTimeout
  <2>2. c \notin Range(m_list[p])
    BY <2>1 DEF IInv, OneOwnerOneTimer, OneTimer, TimedOut
  <2>3. \A d \in Conns : d \notin {c} => left'[d] = left[d]
    BY <2>1 DEF CloseAll
  <2>4. \A d \in Range(m_list[p]) : left'[d] = left[d]
    BY <2>2, <2>3, Facts
  <2>5. Ordered(m_list'[p], left')
    BY <1>0, <2>1, <2>4, OrderedSame
  <2>6. \A q \in Loops \ {p} : Range(m_list[q]) \cap {c} = {}
    BY <2>1, OwnedByOne
  <2>. QED BY <2>1, <2>3, <2>5, <2>6, OtherTimersOrdered
<1>3. ASSUME DestroyLoop(p) PROVE TimersOrdered'
  <2> DEFINE C == Range(m_list[p])
  <2>1. m_list'[p] = <<>> /\ \A q \in Loops \ {p} : m_list'[q] = m_list[q]
    BY <1>0, <1>3 DEF DestroyLoop
  <2>2. \A d \in Conns : d \notin C => left'[d] = left[d]
    BY <1>3 DEF DestroyLoop, CloseAll
  <2>3. Ordered(m_list'[p], left')
    BY <2>1 DEF Ordered
  <2>4. \A q \in Loops \ {p} : Range(m_list[q]) \cap C = {}
    <3>1. \A d \in C : d \in Conns /\ \A q \in Loops \ {p} : d \notin Range(m_list[q])
      BY OwnedByOne, Facts
    <3>. QED BY <3>1
  <2>. HIDE DEF C
  <2>. QED BY <2>1, <2>2, <2>3, <2>4, OtherTimersOrdered
<1>. QED BY <1>1, <1>2, <1>3

LEMMA CheckoutKeepsOrder ==
  ASSUME IInv, TimersOrdered, NEW p \in Loops, Checkout(p)
  PROVE  TimersOrdered'
<1>1. PICK n \in ExpiredPrefixes(m_list[p], left, 0) :
        m_list' = [m_list EXCEPT ![p] = Remaining(@, n)]
  BY DEF Checkout
<1>2. /\ m_list \in [Loops -> Seq(Conns)] /\ m_list[p] \in Seq(Conns)
      /\ Ordered(m_list[p], left) /\ left \in [Conns -> Int] /\ 0 \in Int
  BY TimeoutAssumption DEF IInv, TypeOK, TimersOrdered
<1>3. Ordered(Remaining(m_list[p], n), left)
  BY <1>2, CheckoutSplit
<1>4. left' = left
  BY DEF Checkout
<1>5. m_list'[p] = Remaining(m_list[p], n) /\ \A q \in Loops \ {p} : m_list'[q] = m_list[q]
  BY <1>1, <1>2
<1>6. /\ \A q \in Loops \ {p} : m_list'[q] = m_list[q] /\ Range(m_list[q]) \cap {} = {}
      /\ \A d \in Conns : d \notin {} => left'[d] = left[d]
      /\ Ordered(m_list'[p], left')
  BY <1>3, <1>4, <1>5
<1>. QED BY <1>6, OtherTimersOrdered

(* A tick of the clock brings no two timers out of order: those that have    *)
(* run out stay at 0.                                                        *)
LEMMA TickKeepsOrder ==
  ASSUME IInv, TimersOrdered, Tick
  PROVE  TimersOrdered'
<1>1. m_list' = m_list /\ left' = [c \in Conns |-> IF left[c] > 0 THEN left[c] - 1 ELSE 0]
  BY DEF Tick, threadVars
<1>2. ASSUME NEW p \in Loops, NEW i \in 1..Len(m_list[p]), NEW j \in 1..Len(m_list[p]), i < j
      PROVE  left'[m_list[p][i]] <= left'[m_list[p][j]]
  <2>1. m_list[p][i] \in Conns /\ m_list[p][j] \in Conns
    BY Facts, ElementOfSeq
  <2>2. left[m_list[p][i]] <= left[m_list[p][j]]
    BY <1>2 DEF TimersOrdered, Ordered
  <2>3. left[m_list[p][i]] \in Nat /\ left[m_list[p][j]] \in Nat
    BY <2>1, TimeoutAssumption DEF IInv, TypeOK
  <2>. QED BY <1>1, <2>1, <2>2, <2>3
<1>. QED BY <1>1, <1>2 DEF TimersOrdered, Ordered

LEMMA TimersNext ==
  ASSUME IInv, TimersOrdered, [Next]_vars
  PROVE  TimersOrdered'
<1>1. ASSUME UNCHANGED <<m_list, left>> PROVE TimersOrdered'
  BY <1>1 DEF TimersOrdered, Ordered
<1>2. ASSUME \/ Start \/ Quit \/ RequestQuit \/ Join \/ UNCHANGED vars
             \/ \E p \in Loops : StartLoop(p) \/ While(p) \/ Epoll(p) \/ EndAccept(p)
             \/ \E p \in Loops, l \in Listeners : EraseListener(p, l) \/ BeginAccept(p, l) \/ DropListener(p, l)
             \/ \E l \in Listeners : CloseListener(l) \/ ListenerFails(l)
             \/ \E c \in Conns : Send(c) \/ HangUp(c)
             \/ \E c \in Conns, l \in Listeners : Connect(c, l)
             \/ \E p \in Loops, c \in Conns : HandshakeFails(p, c)
      PROVE  UNCHANGED <<m_list, left>>
  BY <1>2 DEF Start, Quit, RequestQuit, Join, vars, StartLoop, While, Epoll, EndAccept, EraseListener,
     BeginAccept, DropListener, CloseListener, ListenerFails, Send, HangUp, Connect, HandshakeFails, threadVars
<1>. QED BY ZenonT(60), Steps, <1>1, <1>2, AcceptKeepsOrder, ServeKeepsOrder, ClosingKeepsOrder,
            CheckoutKeepsOrder, TickKeepsOrder

(* The timers of every loop stay in order through start, restart, destory,   *)
(* checkout and the clock, so that checkout, which looks at the front only,  *)
(* misses none.                                                              *)
THEOREM TimersStayOrdered == Spec => []TimersOrdered
<1>1. Init => TimersOrdered
  BY DEF Init, InitLoops, TimersOrdered, Ordered
<1>2. IInv /\ TimersOrdered /\ [Next]_vars => TimersOrdered'
  BY TimersNext
<1>. QED BY <1>1, <1>2, ServerInvariant, PTL DEF Spec

-----------------------------------------------------------------------------
(* The backlogs, which several loops share. *)

(* Without errors on listeners, those that are closed have no backlog, and   *)
(* only requestQuit and the end of the server close them.                    *)
ListenersFit ==
  /\ \A l \in Listeners : ~failed[l]
  /\ \A p \in Loops : m_errorQueue[p] \cap Listeners = {}
  /\ \A l \in Listeners : ~listening[l] => backlog[l] = {}
  /\ main \in {"destroying", "finished"} => \A l \in Listeners : ~listening[l]
  /\ toErase # {} \/ toClose # {} \/ told # {} => quits > 0

LEMMA ListenersNext ==
  ASSUME IInv, ListenersFit, ~ListenerMayFail, [Next]_vars
  PROVE  ListenersFit'
<1>. USE SocketsAssumption DEF ListenersFit
<1>1. ASSUME UNCHANGED <<m_errorQueue, kernelVars, mainVars>> PROVE ListenersFit'
  BY <1>1 DEF kernelVars, mainVars
<1>2. ASSUME UNCHANGED <<m_errorQueue, failed, listening, mainVars>>,
             \A l \in Listeners : backlog'[l] \subseteq backlog[l]
      PROVE  ListenersFit'
  BY <1>2 DEF mainVars
<1>3. ASSUME Start \/ Quit \/ UNCHANGED vars \/ \E p \in Loops : StartLoop(p)
      PROVE  ListenersFit'
  BY <1>3 DEF Start, Quit, vars, StartLoop, threadVars, kernelVars, mainVars
<1>4. ASSUME RequestQuit PROVE ListenersFit'
  <2>1. quits' > 0
    BY <1>4, QuitAssumption DEF RequestQuit, IInv, TypeOK
  <2>. QED BY <1>4, <2>1 DEF RequestQuit, threadVars, kernelVars
<1>5. ASSUME NEW p \in Loops, NEW l \in Listeners, EraseListener(p, l) PROVE ListenersFit'
  BY <1>5 DEF EraseListener
<1>6. ASSUME NEW L \in SUBSET Listeners, CloseListeners(L), UNCHANGED <<threadVars, quits, told>>,
             toErase' \subseteq toErase, toClose' \subseteq toClose,
             main' = main \/ L = Listeners
      PROVE  ListenersFit'
  <2>1. m_errorQueue' = m_errorQueue
    BY <1>6 DEF threadVars
  <2>. QED BY <1>6, <2>1 DEF CloseListeners
<1>7. ASSUME Join \/ \E l \in Listeners : CloseListener(l) PROVE ListenersFit'
  BY <1>6, <1>7 DEF Join, CloseListener
<1>8. ASSUME NEW p \in Loops, DestroyLoop(p) PROVE ListenersFit'
  <2>1. main = "destroying" /\ UNCHANGED <<m_errorQueue, failed, listening, backlog, toErase, toClose, quits, told>>
    BY <1>8 DEF DestroyLoop
  <2>. QED BY <2>1
<1>9. ASSUME UNCHANGED mainVars, NEW p \in Loops, Epoll(p) PROVE ListenersFit'
  <2>1. PICK S \in SUBSET ready[p] :
          m_errorQueue' = [m_errorQueue EXCEPT ![p] = @ \cup {s \in S : HasError(s)}]
    BY <1>9 DEF Epoll
  <2>2. \A l \in Listeners : ~HasError(l)
    BY DEF HasError
  <2>3. \A q \in Loops : m_errorQueue'[q] \cap Listeners = {}
    BY <2>1, <2>2 DEF IInv, TypeOK
  <2>. QED BY <1>9, <2>3 DEF Epoll, mainVars
<1>10. ASSUME UNCHANGED mainVars, NEW p \in Loops, Checkout(p) PROVE ListenersFit'
  <2>1. PICK n \in ExpiredPrefixes(m_list[p], left, 0) :
          m_errorQueue' = [m_errorQueue EXCEPT ![p] = Range(Taken(m_list[p], n))]
    BY <1>10 DEF Checkout
  <2>2. Range(Taken(m_list[p], n)) \subseteq Conns
    <3>1. m_list[p] \in Seq(Conns) /\ n \in 0..Len(m_list[p]) /\ IsInjective(m_list[p]) /\ Range(m_list[p]) \subseteq Conns
      BY Facts DEF ExpiredPrefixes
    <3>. QED BY <3>1, SplitUsers
  <2>3. \A q \in Loops : m_errorQueue'[q] \cap Listeners = {}
    BY <2>1, <2>2 DEF IInv, TypeOK
  <2>. QED BY <1>10, <2>3 DEF Checkout, kernelVars, mainVars
<1>11. ASSUME UNCHANGED mainVars, NEW p \in Loops, NEW c \in Conns,
              ServeAndClose(p, c) \/ CloseOnError(p, c) \/ CloseOnTimeout(p, c)
       PROVE  ListenersFit'
  <2>1. UNCHANGED <<listening, failed, backlog>>
    BY <1>11 DEF ServeAndClose, CloseOnError, CloseOnTimeout
  <2>2. \A q \in Loops : m_errorQueue'[q] \subseteq m_errorQueue[q]
    BY <1>11, ClosingQueues
  <2>. QED BY <1>11, <2>1, <2>2 DEF mainVars
<1>12. ASSUME UNCHANGED mainVars,
              \/ Tick
              \/ \E c \in Conns : Send(c) \/ HangUp(c)
              \/ \E p \in Loops : While(p) \/ EndAccept(p)
              \/ \E p \in Loops, l \in Listeners : BeginAccept(p, l)
              \/ \E p \in Loops, c \in Conns : Serve(p, c)
       PROVE  ListenersFit'
  BY <1>12 DEF Tick, Send, HangUp, While, EndAccept, BeginAccept, Serve, threadVars, kernelVars, mainVars
<1>13. ASSUME UNCHANGED mainVars, NEW p \in Loops, NEW c \in Conns, AcceptClient(p, c) \/ HandshakeFails(p, c)
       PROVE  ListenersFit'
  <2>1. \A l \in Listeners : backlog'[l] \subseteq backlog[l]
    BY <1>13, AcceptingBacklog
  <2>. QED BY <1>2, <1>13, <2>1 DEF AcceptClient, HandshakeFails, threadVars
<1>14. ASSUME UNCHANGED mainVars, NEW c \in Conns, NEW l \in Listeners, Connect(c, l)
       PROVE  ListenersFit'
  <2>1. /\ listening[l] /\ \A k \in Listeners : k # l => backlog'[k] = backlog[k]
        /\ UNCHANGED <<m_errorQueue, failed, listening>>
    BY <1>14 DEF Connect, IInv, TypeOK, threadVars
  <2>. QED BY <1>14, <2>1 DEF mainVars
<1>15. ASSUME NEW p \in Loops, NEW l \in Listeners, DropListener(p, l) \/ ListenerFails(l) PROVE FALSE
  BY <1>15 DEF DropListener, ListenerFails
<1>. HIDE DEF ListenersFit
<1>16. \A l \in Listeners : ListenerFails(l) => FALSE
  BY DEF ListenerFails
<1>. QED BY ZenonT(60), Steps, <1>3, <1>4, <1>5, <1>7, <1>8, <1>9, <1>10, <1>11, <1>12, <1>13, <1>14, <1>15, <1>16

(* Loop p still knows of the backlog of l: it has the edge or is accepting.  *)
Knows(p, l) ==
  \/ l \in ready[p] \cup m_queue[p] \cup m_errorQueue[p]
  \/ pc[p] = "accept" /\ socket[p] = l

LEMMA BacklogKept ==
  ASSUME NoLostBacklog, UNCHANGED quits,
         \A l \in Listeners : backlog'[l] # {} =>
            /\ backlog[l] # {}
            /\ \A p \in Loops : l \in interest'[p] => l \in interest[p]
            /\ \A p \in Loops : Knows(p, l) => Knows(p, l)'
  PROVE  NoLostBacklog'
<1>. SUFFICES ASSUME NEW l \in Listeners, backlog'[l] # {}, Interested(l)' # {}, quits' = 0
             PROVE  \E p \in Loops : Knows(p, l)'
  BY DEF NoLostBacklog, Knows
<1>1. Interested(l) # {} /\ backlog[l] # {} /\ quits = 0
  BY DEF Interested
<1>2. \E p \in Loops : Knows(p, l)
  BY <1>1 DEF NoLostBacklog, Knows
<1>. QED BY <1>2

LEMMA BacklogNext ==
  ASSUME IInv, ListenersFit, NoLostBacklog, ~AcceptMayFail, ~ListenerMayFail, [Next]_vars
  PROVE  NoLostBacklog'
<1>. USE SocketsAssumption
<1>1. ASSUME UNCHANGED <<interest, backlog, quits, pc, socket, m_queue, m_errorQueue>>,
             \A p \in Loops : ready[p] \cap Listeners \subseteq ready'[p]
      PROVE  NoLostBacklog'
  BY <1>1, BacklogKept DEF Knows
<1>2. ASSUME Start \/ Quit \/ UNCHANGED vars \/ (Tick /\ UNCHANGED mainVars) PROVE NoLostBacklog'
  BY <1>1, <1>2 DEF Start, Quit, vars, Tick, threadVars, kernelVars, mainVars
<1>3. ASSUME NEW c \in Conns, Send(c) \/ HangUp(c), UNCHANGED mainVars PROVE NoLostBacklog'
  <2>1. \A p \in Loops : ready[p] \subseteq ready'[p]
    BY <1>3 DEF Send, HangUp, Edge
  <2>. QED BY <1>1, <1>3, <2>1 DEF Send, HangUp, threadVars, mainVars
<1>4. ASSUME RequestQuit \/ (\E p \in Loops, l \in Listeners : EraseListener(p, l))
                         \/ (\E l \in Listeners : CloseListener(l))
      PROVE  NoLostBacklog'
  <2>1. quits' # 0
    <3>1. quits \in Nat
      BY QuitAssumption DEF IInv, TypeOK
    <3>2. CASE RequestQuit
      BY <3>1, <3>2 DEF RequestQuit
    <3>3. CASE \E p \in Loops, l \in Listeners : EraseListener(p, l)
      BY <3>1, <3>3 DEF EraseListener, ListenersFit
    <3>4. CASE \E l \in Listeners : CloseListener(l)
      BY <3>1, <3>4 DEF CloseListener, ListenersFit
    <3>. QED BY <1>4, <3>2, <3>3, <3>4
  <2>. QED BY <2>1 DEF NoLostBacklog
<1>5. ASSUME Join \/ \E p \in Loops : DestroyLoop(p) PROVE NoLostBacklog'
  <2>1. \A l \in Listeners : backlog'[l] = {}
    BY <1>5 DEF Join, CloseListeners, DestroyLoop, ListenersFit
  <2>. QED BY <2>1 DEF NoLostBacklog
<1>6. ASSUME NEW p \in Loops, StartLoop(p) PROVE NoLostBacklog'
  <2>1. \A l \in Listeners : backlog[l] # {} => listening[l] /\ Reportable(l)
    BY DEF ListenersFit, Reportable, HasInput
  <2>2. \A l \in Listeners : backlog'[l] # {} => l \in ready'[p]
    BY <1>6, <2>1 DEF StartLoop, IInv, TypeOK
  <2>. QED BY <2>2 DEF NoLostBacklog
<1>7. ASSUME NEW p \in Loops, Epoll(p), UNCHANGED mainVars PROVE NoLostBacklog'
  <2> DEFINE pending == {s \in ready[p] : Reportable(s)}
  <2>1. PICK S \in SUBSET pending :
          /\ ready' = [ready EXCEPT ![p] = pending \ S]
          /\ m_queue' = [m_queue EXCEPT ![p] = @ \cup {s \in S : ToQueue(s)}]
          /\ m_errorQueue' = [m_errorQueue EXCEPT ![p] = @ \cup {s \in S : HasError(s)}]
    BY <1>7 DEF Epoll
  <2>2. /\ ready'[p] = pending \ S
        /\ m_queue'[p] = m_queue[p] \cup {s \in S : ToQueue(s)}
        /\ m_errorQueue[p] \subseteq m_errorQueue'[p]
        /\ \A q \in Loops \ {p} : ready'[q] = ready[q] /\ m_queue'[q] = m_queue[q] /\ m_errorQueue'[q] = m_errorQueue[q]
    BY <2>1 DEF IInv, TypeOK
  <2>3. /\ UNCHANGED <<interest, backlog, quits, socket>> /\ pc[p] # "accept"
        /\ \A q \in Loops \ {p} : pc'[q] = pc[q]
    BY <1>7 DEF Epoll, mainVars, IInv, TypeOK
  <2>4. \A l \in Listeners : backlog[l] # {} => Reportable(l) /\ ToQueue(l)
    BY DEF Reportable, HasInput, ToQueue, HasError, ListenersFit
  <2>5. ASSUME NEW l \in Listeners, backlog[l] # {}, NEW q \in Loops, Knows(q, l) PROVE Knows(q, l)'
    <3>1. CASE q = p
      BY <2>2, <2>3, <2>4, <2>5, <3>1 DEF Knows
    <3>2. CASE q # p
      BY <2>2, <2>3, <2>5, <3>2 DEF Knows
    <3>. QED BY <3>1, <3>2
  <2>. QED BY <2>3, <2>5, BacklogKept
<1>8. ASSUME NEW p \in Loops, While(p) \/ Checkout(p) \/ EndAccept(p), UNCHANGED mainVars PROVE NoLostBacklog'
  <2>1. /\ UNCHANGED <<m_queue, interest, ready, backlog, quits>>
        /\ \A q \in Loops \ {p} : pc'[q] = pc[q] /\ socket'[q] = socket[q]
    BY <1>8 DEF While, Checkout, EndAccept, kernelVars, mainVars, IInv, TypeOK
  <2>2. \A l \in Listeners, q \in Loops : l \notin m_errorQueue[q]
    BY DEF ListenersFit
  <2>3. pc[p] = "accept" => backlog[socket[p]] = {}
    BY <1>8 DEF While, Checkout, EndAccept, AcceptEnds, ListenersFit, IInv, TypeOK
  <2>. QED BY <2>1, <2>2, <2>3, BacklogKept DEF Knows
<1>9. ASSUME NEW p \in Loops, NEW l \in Listeners, BeginAccept(p, l), UNCHANGED mainVars PROVE NoLostBacklog'
  <2>1. /\ UNCHANGED <<m_errorQueue, interest, ready, backlog, quits>>
        /\ pc[p] = "serve" /\ pc'[p] = "accept" /\ socket'[p] = l /\ m_queue'[p] = m_queue[p] \ {l}
        /\ \A q \in Loops \ {p} : pc'[q] = pc[q] /\ socket'[q] = socket[q] /\ m_queue'[q] = m_queue[q]
    BY <1>9 DEF BeginAccept, kernelVars, mainVars, IInv, TypeOK
  <2>. QED BY <2>1, BacklogKept DEF Knows
<1>10. ASSUME NEW p \in Loops, NEW c \in Conns,
              ServeAndClose(p, c) \/ CloseOnError(p, c) \/ CloseOnTimeout(p, c), UNCHANGED mainVars
       PROVE  NoLostBacklog'
  <2>1. /\ UNCHANGED <<pc, socket, backlog, quits>> /\ Erase(p, c)
    BY <1>10 DEF ServeAndClose, CloseOnError, CloseOnTimeout, mainVars
  <2>2. \A q \in Loops : interest'[q] \subseteq interest[q] /\ ready[q] \cap Listeners \subseteq ready'[q]
    BY <2>1 DEF Erase, IInv, TypeOK
  <2>3. \A q \in Loops : /\ m_queue[q] \cap Listeners \subseteq m_queue'[q]
                         /\ m_errorQueue[q] \cap Listeners \subseteq m_errorQueue'[q]
    BY <1>10, ClosingQueues
  <2>. QED BY <2>1, <2>2, <2>3, BacklogKept DEF Knows
<1>11. ASSUME NEW p \in Loops, NEW c \in Conns, Serve(p, c), UNCHANGED mainVars PROVE NoLostBacklog'
  <2>1. /\ UNCHANGED <<pc, socket, m_errorQueue, interest, ready, backlog, quits>>
        /\ \A q \in Loops : m_queue[q] \cap Listeners \subseteq m_queue'[q]
    BY <1>11 DEF Serve, kernelVars, mainVars, IInv, TypeOK
  <2>. QED BY <2>1, BacklogKept DEF Knows
<1>12. ASSUME NEW p \in Loops, NEW c \in Conns, AcceptClient(p, c) \/ HandshakeFails(p, c), UNCHANGED mainVars
       PROVE  NoLostBacklog'
  <2>1. UNCHANGED <<pc, socket, m_queue, m_errorQueue, quits>>
    BY <1>12 DEF AcceptClient, HandshakeFails, threadVars, mainVars
  <2>2. \A l \in Listeners : backlog'[l] \subseteq backlog[l]
    BY <1>12, AcceptingBacklog
  <2>3. \A q \in Loops : ready[q] \subseteq ready'[q] /\ interest'[q] \cap Listeners \subseteq interest[q]
    BY <1>12, AcceptingBacklog
  <2>. QED BY <2>1, <2>2, <2>3, BacklogKept DEF Knows
<1>13. ASSUME NEW c \in Conns, NEW l \in Listeners, Connect(c, l), UNCHANGED mainVars PROVE NoLostBacklog'
  <2>1. PICK P \in Woken(l) : ready' = [p \in Loops |-> IF p \in P THEN ready[p] \cup {l} ELSE ready[p]]
    BY <1>13 DEF Connect, Edge
  <2>2. P \subseteq Loops /\ (P = {} => Interested(l) = {})
    BY <2>1 DEF Woken, Interested
  <2>3. UNCHANGED <<pc, socket, m_queue, m_errorQueue, interest, quits>>
    BY <1>13 DEF Connect, threadVars, mainVars
  <2>4. \A k \in Listeners \ {l} : backlog'[k] = backlog[k]
    BY <1>13 DEF Connect, IInv, TypeOK
  <2>5. \A p \in Loops, k \in Listeners : Knows(p, k) => Knows(p, k)'
    BY <2>1, <2>3 DEF Knows
  <2>6. \A k \in Listeners : Interested(k)' = Interested(k)
    BY <2>3 DEF Interested
  <2>7. ASSUME NEW k \in Listeners, backlog'[k] # {}, Interested(k) # {}, quits = 0
        PROVE  \E p \in Loops : Knows(p, k)'
    <3>1. CASE k = l
      BY <2>1, <2>2, <2>7, <3>1 DEF Knows
    <3>2. CASE k # l
      <4>1. \E p \in Loops : Knows(p, k)
        BY <2>4, <2>7, <3>2 DEF NoLostBacklog, Knows
      <4>. QED BY <2>5, <4>1
    <3>. QED BY <3>1, <3>2
  <2>. QED BY <2>3, <2>6, <2>7 DEF NoLostBacklog, Knows
<1>14. ASSUME NEW p \in Loops, NEW l \in Listeners, DropListener(p, l) PROVE FALSE
  BY <1>14 DEF DropListener, ListenersFit
<1>15. \A l \in Listeners : ~ListenerFails(l)
  BY DEF ListenerFails
<1>. QED BY ZenonT(60), Steps, <1>2, <1>3, <1>4, <1>5, <1>6, <1>7, <1>8, <1>9, <1>10, <1>11, <1>12, <1>13, <1>14, <1>15

(* The same for the backlog of a listener that several loops share: while    *)
(* accept4 and the listeners do not fail, some loop always still has its     *)
(* edge or is accepting from it, however the kernel chooses whom to wake.    *)
THEOREM NoClientIsForgotten ==
  ASSUME AcceptMayFail = FALSE, ListenerMayFail = FALSE
  PROVE  Spec => []NoLostBacklog
<1>1. Init => ListenersFit /\ NoLostBacklog
  BY QuitAssumption DEF Init, InitLoops, ListenersFit, NoLostBacklog
<1>2. IInv /\ (ListenersFit /\ NoLostBacklog) /\ [Next]_vars => (ListenersFit /\ NoLostBacklog)'
  BY ListenersNext, BacklogNext
<1>. QED BY <1>1, <1>2, ServerInvariant, PTL DEF Spec

-----------------------------------------------------------------------------
(* The count of a loop, on which the end of its thread depends. *)

(* Before start() no loop runs, no listener is being closed and no client    *)
(* has got further than a backlog.                                           *)
NotStarted ==
  main = "init" => /\ toErase = {} /\ toClose = {}
                   /\ \A p \in Loops : pc[p] = "none"
                   /\ \A c \in Conns : conn[c] \in {"none", "backlog"}

(* The count never reaches its width.                                        *)
LEMMA CountInWidth ==
  ASSUME IsFiniteSet(Conns), Cardinality(Sockets) < CountMod, NEW D \in SUBSET Sockets
  PROVE  IsFiniteSet(D) /\ Cardinality(D) \in 0..CountMod - 1
<1>1. IsFiniteSet(Sockets)
  BY ListenersAssumption, FS_Union DEF Sockets
<1>2. IsFiniteSet(D) /\ Cardinality(D) <= Cardinality(Sockets)
  BY <1>1, FS_Subset
<1>3. Cardinality(D) \in Nat /\ Cardinality(Sockets) \in Nat
  BY <1>1, <1>2, FS_CardinalityType
<1>. QED BY <1>2, <1>3, CountModAssumption

(* Within the width, ++ and -- of an unsigned int are what they look like.   *)
LEMMA CountSteps ==
  /\ \A n \in Nat : n < CountMod => n % CountMod = n
  /\ \A n \in Nat : n + 1 < CountMod => Inc(n) = n + 1
  /\ \A n \in Nat : n + 1 < CountMod => Dec(n + 1) = n
<1>1. CountMod \in Nat \ {0}
  BY CountModAssumption
<1>2. \A n \in Nat : n < CountMod => n % CountMod = n
  BY <1>1
<1>3. \A n \in Nat : n < CountMod => (n + CountMod) % CountMod = n
  BY <1>1
<1>4. \A n \in Nat : n + 1 < CountMod => Inc(n) = n + 1
  BY <1>1, <1>2 DEF Inc
<1>5. \A n \in Nat : n + 1 < CountMod => Dec(n + 1) = n
  <2>1. \A n \in Nat : ((n + 1) + CountMod) - 1 = n + CountMod
    BY <1>1
  <2>. QED BY <1>1, <1>3, <2>1 DEF Dec
<1>. QED BY <1>2, <1>4, <1>5

(* Nothing that the count is about changes.                                  *)
LEMMA CountKept ==
  ASSUME NEW p \in Loops, CountFits(p),
         pc'[p] = "none" <=> pc[p] = "none", pc[p] = "destroyed" => pc'[p] = "destroyed",
         m_count'[p] = m_count[p], interest'[p] \cap Conns = interest[p] \cap Conns,
         p \in told' <=> p \in told, Counted(p)' = Counted(p)
  PROVE  CountFits(p)'
BY DEF CountFits

(* A connection of a running loop comes or goes, and the count with it.      *)
LEMMA CountOne ==
  ASSUME IInv, IsFiniteSet(Conns), Cardinality(Sockets) < CountMod,
         NEW p \in Loops, CountFits(p), NEW c \in Conns,
         pc[p] \notin {"none", "destroyed"}, UNCHANGED <<pc, toErase, told>>,
         \/ /\ c \notin interest[p]
            /\ interest'[p] = interest[p] \cup {c}
            /\ m_count'[p] = Inc(m_count[p])
         \/ /\ c \in interest[p]
            /\ interest'[p] = interest[p] \ {c}
            /\ m_count'[p] = Dec(m_count[p])
  PROVE  CountFits(p)'
<1>. USE SocketsAssumption
<1> DEFINE C == Counted(p)
<1>1. /\ C \in SUBSET Listeners /\ Counted(p)' = C
      /\ m_count[p] = Cardinality((interest[p] \cap Conns) \cup C)
  BY DEF CountFits, Counted
<1> DEFINE D == (interest[p] \cap Conns) \cup C
           E == (interest'[p] \cap Conns) \cup C
<1>2. D \in SUBSET Sockets /\ E \in SUBSET Sockets /\ c \notin C
  BY <1>1 DEF Sockets
<1>3. /\ IsFiniteSet(D) /\ Cardinality(D) \in 0..CountMod - 1
      /\ IsFiniteSet(E) /\ Cardinality(E) \in 0..CountMod - 1
  BY <1>2, CountInWidth
<1>4. CASE c \notin interest[p] /\ interest'[p] = interest[p] \cup {c} /\ m_count'[p] = Inc(m_count[p])
  <2>1. E = D \cup {c} /\ c \notin D
    BY <1>2, <1>4
  <2>2. Cardinality(E) = Cardinality(D) + 1
    BY <1>3, <2>1, FS_AddElement
  <2>3. Inc(Cardinality(D)) = Cardinality(E)
    BY <1>3, <2>2, CountSteps, CountModAssumption
  <2>4. m_count'[p] = Cardinality(E)
    BY <1>1, <1>4, <2>3
  <2>. QED BY <1>1, <2>4 DEF CountFits
<1>5. CASE c \in interest[p] /\ interest'[p] = interest[p] \ {c} /\ m_count'[p] = Dec(m_count[p])
  <2>1. E = D \ {c} /\ c \in D
    BY <1>2, <1>5
  <2>2. Cardinality(E) = Cardinality(D) - 1
    <3>. HIDE DEF D, E
    <3>. QED BY <1>3, <2>1, FS_RemoveElement
  <2>3. Cardinality(E) \in Nat /\ Cardinality(E) + 1 < CountMod /\ Cardinality(D) = Cardinality(E) + 1
    BY <1>3, <2>2, CountModAssumption
  <2>4. Dec(Cardinality(D)) = Cardinality(E)
    BY <2>3, CountSteps
  <2>5. m_count'[p] = Cardinality(E)
    BY <1>1, <1>5, <2>4
  <2>. QED BY <1>1, <2>5 DEF CountFits
<1>. QED BY <1>4, <1>5

LEMMA CountNext ==
  ASSUME IInv, ListenersFit, NotStarted, CountsFit, ~ListenerMayFail, MaxRequestQuits <= 1,
         IsFiniteSet(Conns), Cardinality(Sockets) < CountMod, [Next]_vars
  PROVE  CountsFit'
<1>. USE SocketsAssumption
<1>1. ASSUME NEW q \in Loops,
             UNCHANGED <<pc, m_count, interest, toErase, told>>
      PROVE  CountFits(q)'
  BY <1>1, CountKept DEF CountsFit, Counted
<1>2. ASSUME Start \/ Quit \/ UNCHANGED vars \/ (Tick /\ UNCHANGED mainVars) PROVE CountsFit'
  BY <1>1, <1>2 DEF Start, Quit, vars, Tick, threadVars, kernelVars, mainVars, CountsFit
<1>3. ASSUME NEW c \in Conns, Send(c) \/ HangUp(c) \/ \E l \in Listeners : Connect(c, l), UNCHANGED mainVars
      PROVE  CountsFit'
  BY <1>1, <1>3 DEF Send, HangUp, Connect, threadVars, mainVars, CountsFit
<1>4. ASSUME RequestQuit PROVE CountsFit'
  <2>1. /\ told = {} /\ told' = {p \in Loops : pc[p] # "none"} /\ UNCHANGED <<pc, m_count, interest>>
        /\ toErase' = {p \in Loops : pc[p] # "none"} \X Listeners
    BY <1>4, QuitAssumption DEF RequestQuit, IInv, TypeOK, ListenersFit, threadVars, kernelVars
  <2>2. ASSUME NEW q \in Loops PROVE CountFits(q)'
    <3>1. Counted(q) = Listeners /\ (pc[q] # "none" => Counted(q)' = Listeners)
      BY <2>1 DEF Counted
    <3>. QED BY <2>1, <3>1 DEF CountsFit, CountFits
  <2>. QED BY <2>2 DEF CountsFit
<1>5. ASSUME NEW p \in Loops, NEW l \in Listeners, EraseListener(p, l) PROVE CountsFit'
  <2>1. /\ <<p, l>> \in toErase /\ toErase' = toErase \ {<<p, l>>}
        /\ interest'[p] = interest[p] \ {l} /\ m_count'[p] = Dec(m_count[p])
        /\ \A q \in Loops \ {p} : interest'[q] = interest[q] /\ m_count'[q] = m_count[q]
        /\ UNCHANGED <<pc, told>> /\ p \in told
    BY <1>5 DEF EraseListener, Unregistered, Erase, IInv, TypeOK
  <2>2. CountFits(p)'
    <3>1. CASE pc[p] = "none"
      BY <2>1, <3>1 DEF CountsFit, CountFits
    <3>2. CASE pc[p] = "destroyed"
      BY <2>1, <3>2 DEF CountFits
    <3>3. CASE pc[p] \notin {"none", "destroyed"}
      <4> DEFINE C == Counted(p)
                 D == (interest[p] \cap Conns) \cup C
                 E == (interest'[p] \cap Conns) \cup (C \ {l})
      <4>1. /\ C \subseteq Listeners /\ l \in C /\ Counted(p)' = C \ {l}
            /\ m_count[p] = Cardinality(D)
        BY <2>1, <3>3 DEF CountsFit, CountFits, Counted
      <4>2. D \in SUBSET Sockets /\ E \in SUBSET Sockets
        BY <2>1, <4>1 DEF Sockets
      <4>3. E = D \ {l} /\ l \in D
        BY <2>1, <4>1
      <4>4. /\ IsFiniteSet(D) /\ Cardinality(D) \in 0..CountMod - 1
            /\ IsFiniteSet(E) /\ Cardinality(E) \in 0..CountMod - 1
        BY <4>2, CountInWidth
      <4>5. Cardinality(E) = Cardinality(D) - 1
        <5>. HIDE DEF D, E
        <5>. QED BY <4>3, <4>4, FS_RemoveElement
      <4>6. Cardinality(E) \in Nat /\ Cardinality(E) + 1 < CountMod /\ Cardinality(D) = Cardinality(E) + 1
        BY <4>4, <4>5, CountModAssumption
      <4>7. Dec(Cardinality(D)) = Cardinality(E)
        BY <4>6, CountSteps
      <4>8. m_count'[p] = Cardinality((interest'[p] \cap Conns) \cup Counted(p)')
        BY <2>1, <4>1, <4>7
      <4>. QED BY <2>1, <3>3, <4>8 DEF CountFits
    <3>. QED BY <3>1, <3>2, <3>3
  <2>3. ASSUME NEW q \in Loops \ {p} PROVE CountFits(q)'
    <3>1. Counted(q)' = Counted(q)
      BY <2>1 DEF Counted
    <3>. QED BY <2>1, <3>1, CountKept DEF CountsFit
  <2>. QED BY <2>2, <2>3 DEF CountsFit
<1>6. ASSUME Join \/ \E l \in Listeners : CloseListener(l) PROVE CountsFit'
  <2>1. UNCHANGED <<pc, m_count, toErase, told>>
    BY <1>6 DEF Join, CloseListener, threadVars
  <2>2. ASSUME NEW q \in Loops PROVE interest'[q] \cap Conns = interest[q] \cap Conns
    BY <1>6 DEF Join, CloseListener
  <2>. QED BY <2>1, <2>2, CountKept DEF CountsFit, Counted
<1>7. ASSUME NEW p \in Loops, DestroyLoop(p) PROVE CountsFit'
  <2>1. /\ pc'[p] = "destroyed"
        /\ \A q \in Loops \ {p} : pc'[q] = pc[q] /\ interest'[q] = interest[q]
        /\ UNCHANGED <<m_count, toErase, told>>
    BY <1>7 DEF DestroyLoop, IInv, TypeOK
  <2>2. CountFits(p)'
    BY <2>1 DEF CountFits
  <2>3. ASSUME NEW q \in Loops \ {p} PROVE CountFits(q)'
    BY <2>1, CountKept DEF CountsFit, Counted
  <2>. QED BY <2>2, <2>3 DEF CountsFit
<1>8. ASSUME NEW p \in Loops, StartLoop(p) PROVE CountsFit'
  <2>1. /\ pc[p] = "none" /\ pc'[p] = "while" /\ toErase = {} /\ UNCHANGED <<toErase, told>>
        /\ m_count'[p] = (m_count[p] + Cardinality(Listeners)) % CountMod
        /\ interest'[p] \cap Conns = {}
        /\ \A q \in Loops \ {p} : pc'[q] = pc[q] /\ interest'[q] = interest[q] /\ m_count'[q] = m_count[q]
    BY <1>8 DEF StartLoop, MainRuns, IInv, TypeOK
  <2>2. m_count[p] = 0 /\ Counted(p)' = Listeners /\ p \notin told'
    BY <2>1 DEF CountsFit, CountFits, Counted
  <2>3. Cardinality(Listeners) \in 0..CountMod - 1
    BY CountInWidth DEF Sockets
  <2>4. m_count'[p] = Cardinality(Listeners)
    BY <2>1, <2>2, <2>3, CountSteps, CountModAssumption
  <2>5. m_count'[p] = Cardinality((interest'[p] \cap Conns) \cup Listeners)
    BY <2>1, <2>4
  <2>6. CountFits(p)'
    BY <2>1, <2>2, <2>5 DEF CountFits
  <2>7. ASSUME NEW q \in Loops \ {p} PROVE CountFits(q)'
    BY <2>1, CountKept DEF CountsFit, Counted
  <2>. QED BY <2>6, <2>7 DEF CountsFit
<1>9. ASSUME NEW p \in Loops, While(p) \/ Epoll(p) \/ Checkout(p) \/ EndAccept(p), UNCHANGED mainVars
      PROVE  CountsFit'
  <2>1. UNCHANGED <<m_count, interest, toErase, told>>
    BY <1>9 DEF While, Epoll, Checkout, EndAccept, kernelVars, mainVars
  <2>2. /\ pc[p] \notin {"none", "destroyed"} /\ pc'[p] \notin {"none", "destroyed"}
        /\ \A q \in Loops \ {p} : pc'[q] = pc[q]
    BY <1>9 DEF While, Epoll, Checkout, EndAccept, IInv, TypeOK
  <2>. QED BY <2>1, <2>2, CountKept DEF CountsFit, Counted
<1>10. ASSUME NEW p \in Loops, NEW l \in Listeners, BeginAccept(p, l), UNCHANGED mainVars PROVE CountsFit'
  <2>1. UNCHANGED <<m_count, interest, toErase, told>>
    BY <1>10 DEF BeginAccept, kernelVars, mainVars
  <2>2. /\ pc[p] = "serve" /\ pc'[p] = "accept"
        /\ \A q \in Loops \ {p} : pc'[q] = pc[q]
    BY <1>10 DEF BeginAccept, IInv, TypeOK
  <2>. QED BY <2>1, <2>2, CountKept DEF CountsFit, Counted
<1>11. ASSUME NEW p \in Loops, NEW c \in Conns, Serve(p, c) \/ HandshakeFails(p, c), UNCHANGED mainVars
       PROVE  CountsFit'
  BY <1>1, <1>11 DEF Serve, HandshakeFails, threadVars, kernelVars, mainVars, CountsFit
<1>12. ASSUME NEW p \in Loops, NEW c \in Conns, AcceptClient(p, c), UNCHANGED mainVars PROVE CountsFit'
  <2>1. c \notin interest[p]
    <3>1. pc[p] = "accept" /\ c \in backlog[socket[p]]
      BY <1>12 DEF AcceptClient
    <3>2. socket[p] \in Listeners
      BY <3>1 DEF IInv, TypeOK
    <3>. QED BY <3>1, <3>2, WaitingIsUnknown
  <2>2. /\ pc[p] = "accept" /\ UNCHANGED <<pc, toErase, told>>
        /\ interest'[p] = interest[p] \cup {c} /\ m_count'[p] = Inc(m_count[p])
        /\ \A q \in Loops \ {p} : interest'[q] = interest[q] /\ m_count'[q] = m_count[q]
    BY <1>12 DEF AcceptClient, mainVars, IInv, TypeOK
  <2>3. CountFits(p)'
    BY <2>1, <2>2, CountOne DEF CountsFit
  <2>4. ASSUME NEW q \in Loops \ {p} PROVE CountFits(q)'
    BY <2>2, CountKept DEF CountsFit, Counted
  <2>. QED BY <2>3, <2>4 DEF CountsFit
<1>13. ASSUME NEW p \in Loops, NEW c \in Conns,
              ServeAndClose(p, c) \/ CloseOnError(p, c) \/ CloseOnTimeout(p, c), UNCHANGED mainVars
       PROVE  CountsFit'
  <2>1. c \in m_queue[p] \cup m_errorQueue[p] /\ pc[p] \in {"serve", "while"} /\ Erase(p, c) /\ UNCHANGED <<pc, toErase, told>>
    BY <1>13 DEF ServeAndClose, CloseOnError, CloseOnTimeout, mainVars
  <2>2. c \in interest[p]
    BY <2>1, Facts
  <2>3. /\ interest'[p] = interest[p] \ {c} /\ m_count'[p] = Dec(m_count[p])
        /\ \A q \in Loops \ {p} : interest'[q] = interest[q] /\ m_count'[q] = m_count[q]
    BY <2>1 DEF Erase, IInv, TypeOK
  <2>4. CountFits(p)'
    BY <2>1, <2>2, <2>3, CountOne DEF CountsFit
  <2>5. ASSUME NEW q \in Loops \ {p} PROVE CountFits(q)'
    BY <2>1, <2>3, CountKept DEF CountsFit, Counted
  <2>. QED BY <2>4, <2>5 DEF CountsFit
<1>14. \A l \in Listeners : ~ListenerFails(l) /\ \A p \in Loops : ~DropListener(p, l)
  BY DEF DropListener, ListenerFails, ListenersFit
<1>. QED BY ZenonT(60), Steps, <1>2, <1>3, <1>4, <1>5, <1>6, <1>7, <1>8, <1>9, <1>10, <1>11, <1>12, <1>13, <1>14

LEMMA NotStartedNext ==
  ASSUME IInv, NotStarted, [Next]_vars
  PROVE  NotStarted'
<1>1. ASSUME main # "init" \/ main' # "init", main = "init" \/ main' # "init" PROVE NotStarted'
  BY <1>1 DEF NotStarted
<1>2. ASSUME UNCHANGED <<pc, conn, main, toErase, toClose>> PROVE NotStarted'
  BY <1>2 DEF NotStarted
<1>3. ASSUME Start \/ Join \/ (\E p \in Loops : StartLoop(p) \/ DestroyLoop(p)) PROVE main' # "init"
  BY <1>3 DEF Start, Join, StartLoop, DestroyLoop
<1>4. ASSUME RequestQuit \/ (\E p \in Loops, l \in Listeners : EraseListener(p, l))
             \/ (\E l \in Listeners : CloseListener(l))
      PROVE  NotStarted'
  BY <1>4, QuitAssumption DEF RequestQuit, EraseListener, CloseListener, NotStarted
<1>5. ASSUME UNCHANGED mainVars, NEW p \in Loops, pc[p] # "none" PROVE NotStarted'
  BY <1>5 DEF NotStarted, mainVars
<1>6. ASSUME Quit \/ UNCHANGED vars \/ (UNCHANGED mainVars /\ Tick)
             \/ (UNCHANGED mainVars /\ \E l \in Listeners : ListenerFails(l))
             \/ (UNCHANGED mainVars /\ \E c \in Conns : Send(c) \/ HangUp(c))
      PROVE  NotStarted'
  BY <1>2, <1>6 DEF Quit, vars, Tick, ListenerFails, Send, HangUp, threadVars, connVars, mainVars
<1>7. ASSUME UNCHANGED mainVars, NEW c \in Conns, NEW l \in Listeners, Connect(c, l) PROVE NotStarted'
  <2>1. UNCHANGED <<pc, main, toErase, toClose>> /\ conn' = [conn EXCEPT ![c] = "backlog"]
    BY <1>7 DEF Connect, threadVars, mainVars
  <2>. QED BY <2>1 DEF NotStarted, IInv, TypeOK
<1>8. \A p \in Loops :
        /\ While(p) \/ Epoll(p) \/ EndAccept(p) \/ Checkout(p) => pc[p] # "none"
        /\ \A l \in Listeners : BeginAccept(p, l) \/ DropListener(p, l) => pc[p] # "none"
        /\ \A c \in Conns : AcceptClient(p, c) \/ HandshakeFails(p, c) => pc[p] # "none"
        /\ \A c \in Conns : Serve(p, c) \/ ServeAndClose(p, c) => pc[p] # "none"
        /\ \A c \in Conns : CloseOnError(p, c) \/ CloseOnTimeout(p, c) => pc[p] # "none"
  BY DEF While, Epoll, EndAccept, Checkout, BeginAccept, DropListener, AcceptClient, HandshakeFails,
         Serve, ServeAndClose, CloseOnError, CloseOnTimeout
<1>9. ASSUME main' # "init" PROVE NotStarted'
  BY <1>9 DEF NotStarted
<1>. QED BY ZenonT(60), Steps, <1>3, <1>4, <1>5, <1>6, <1>7, <1>8, <1>9

(* A thread that ends by itself has no connection left: the count that ended *)
(* it counts them.                                                           *)
LEMMA GracefulNext ==
  ASSUME IInv, CountsFit, NotStarted, GracefulExit,
         IsFiniteSet(Conns), Cardinality(Sockets) < CountMod, [Next]_vars
  PROVE  GracefulExit'
<1>. USE SocketsAssumption
<1>1. ASSUME m_runnable' => m_runnable,
             \A p \in Loops : pc'[p] = "exited" => pc[p] = "exited",
             \A p \in Loops : pc[p] = "exited" => interest'[p] \cap Conns \subseteq interest[p]
      PROVE  GracefulExit'
  BY <1>1 DEF GracefulExit
<1>2. ASSUME UNCHANGED <<m_runnable, pc, interest>> PROVE GracefulExit'
  BY <1>1, <1>2
<1>3. ASSUME Start PROVE GracefulExit'
  BY <1>3 DEF Start, NotStarted, GracefulExit, threadVars
<1>4. ASSUME Quit \/ RequestQuit \/ UNCHANGED vars \/ (UNCHANGED mainVars /\ Tick)
             \/ (UNCHANGED mainVars /\ \E l \in Listeners : ListenerFails(l))
             \/ (UNCHANGED mainVars /\ \E c \in Conns : Send(c) \/ HangUp(c))
             \/ (UNCHANGED mainVars /\ \E c \in Conns, l \in Listeners : Connect(c, l))
      PROVE  GracefulExit'
  BY <1>1, <1>4 DEF Quit, RequestQuit, vars, Tick, ListenerFails, Send, HangUp, Connect, threadVars, kernelVars
<1>5. ASSUME Join \/ (\E l \in Listeners : CloseListener(l)) PROVE GracefulExit'
  <2>1. UNCHANGED <<m_runnable, pc>>
    BY <1>5 DEF Join, CloseListener, threadVars
  <2>2. ASSUME NEW p \in Loops PROVE interest'[p] \subseteq interest[p]
    BY <1>5 DEF Join, CloseListener
  <2>. QED BY <1>1, <2>1, <2>2
<1>6. ASSUME NEW p \in Loops, NEW l \in Listeners, EraseListener(p, l) \/ DropListener(p, l) PROVE GracefulExit'
  <2>1. UNCHANGED <<m_runnable, pc>> /\ Erase(p, l)
    BY <1>6 DEF EraseListener, Unregistered, DropListener
  <2>2. ASSUME NEW q \in Loops PROVE interest'[q] \subseteq interest[q]
    BY <2>1 DEF Erase, IInv, TypeOK
  <2>. QED BY <1>1, <2>1, <2>2
<1>7. ASSUME NEW p \in Loops, StartLoop(p) PROVE GracefulExit'
  <2>1. /\ m_runnable' = m_runnable /\ pc'[p] = "while"
        /\ \A q \in Loops \ {p} : pc'[q] = pc[q] /\ interest'[q] = interest[q]
    BY <1>7 DEF StartLoop, IInv, TypeOK
  <2>. QED BY <2>1 DEF GracefulExit
<1>8. ASSUME NEW p \in Loops, DestroyLoop(p) PROVE GracefulExit'
  <2>1. /\ m_runnable' = m_runnable /\ pc'[p] = "destroyed"
        /\ \A q \in Loops \ {p} : pc'[q] = pc[q] /\ interest'[q] = interest[q]
    BY <1>8 DEF DestroyLoop, IInv, TypeOK
  <2>. QED BY <2>1 DEF GracefulExit
<1>9. ASSUME NEW p \in Loops, While(p) PROVE GracefulExit'
  <2>1. /\ UNCHANGED <<m_runnable, interest, m_count>> /\ pc[p] = "while"
        /\ \A q \in Loops \ {p} : pc'[q] = pc[q]
        /\ pc'[p] = IF m_runnable /\ m_count[p] # 0 THEN "epoll" ELSE "exited"
    BY <1>9 DEF While, GoesOn, kernelVars, IInv, TypeOK
  <2>2. ASSUME pc'[p] = "exited", m_runnable PROVE interest[p] \cap Conns = {}
    <3>1. m_count[p] = 0
      BY <2>1, <2>2
    <3> DEFINE C == Counted(p)
    <3>2. C \subseteq Listeners /\ m_count[p] = Cardinality((interest[p] \cap Conns) \cup C)
      BY <2>1 DEF CountsFit, CountFits, Counted
    <3> DEFINE D == (interest[p] \cap Conns) \cup C
    <3>3. IsFiniteSet(D)
      BY <3>2, CountInWidth DEF Sockets
    <3>4. D = {}
      <4>1. Cardinality(D) = 0
        BY <3>1, <3>2
      <4>. HIDE DEF D
      <4>. QED BY <3>3, <4>1, FS_EmptySet
    <3>. QED BY <3>4
  <2>. QED BY <2>1, <2>2 DEF GracefulExit
<1>10. ASSUME NEW p \in Loops, Epoll(p) \/ EndAccept(p) \/ Checkout(p) PROVE GracefulExit'
  <2>1. /\ UNCHANGED <<m_runnable, interest>> /\ pc'[p] # "exited"
        /\ \A q \in Loops \ {p} : pc'[q] = pc[q]
    BY <1>10 DEF Epoll, EndAccept, Checkout, kernelVars, IInv, TypeOK
  <2>. QED BY <2>1 DEF GracefulExit
<1>11. ASSUME NEW p \in Loops, NEW l \in Listeners, BeginAccept(p, l) PROVE GracefulExit'
  <2>1. /\ UNCHANGED <<m_runnable, interest>> /\ pc'[p] # "exited"
        /\ \A q \in Loops \ {p} : pc'[q] = pc[q]
    BY <1>11 DEF BeginAccept, kernelVars, IInv, TypeOK
  <2>. QED BY <2>1 DEF GracefulExit
<1>12. ASSUME NEW p \in Loops, NEW c \in Conns, Serve(p, c) \/ HandshakeFails(p, c) PROVE GracefulExit'
  BY <1>2, <1>12 DEF Serve, HandshakeFails, threadVars, kernelVars
<1>13. ASSUME NEW p \in Loops, NEW c \in Conns, AcceptClient(p, c) PROVE GracefulExit'
  <2>1. /\ UNCHANGED <<m_runnable, pc>> /\ pc[p] = "accept"
        /\ \A q \in Loops \ {p} : interest'[q] = interest[q]
    BY <1>13 DEF AcceptClient, IInv, TypeOK
  <2>. QED BY <2>1 DEF GracefulExit
<1>14. ASSUME NEW p \in Loops, NEW c \in Conns, ServeAndClose(p, c) \/ CloseOnError(p, c) \/ CloseOnTimeout(p, c)
       PROVE  GracefulExit'
  <2>1. UNCHANGED <<m_runnable, pc>> /\ Erase(p, c)
    BY <1>14 DEF ServeAndClose, CloseOnError, CloseOnTimeout
  <2>2. ASSUME NEW q \in Loops PROVE interest'[q] \subseteq interest[q]
    BY <2>1 DEF Erase, IInv, TypeOK
  <2>. QED BY <1>1, <2>1, <2>2
<1>. QED BY ZenonT(60), Steps, <1>3, <1>4, <1>5, <1>6, <1>7, <1>8, <1>9, <1>10, <1>11, <1>12, <1>13, <1>14

(* What the end of a loop rests on, as one invariant.                        *)
ExitInv == ListenersFit /\ NotStarted /\ CountsFit /\ GracefulExit

LEMMA ExitInvariant ==
  ASSUME ListenerMayFail = FALSE, MaxRequestQuits <= 1,
         IsFiniteSet(Conns), Cardinality(Sockets) < CountMod
  PROVE  Spec => []ExitInv
<1>1. Init => ExitInv
  BY QuitAssumption DEF Init, InitLoops, ExitInv, ListenersFit, NotStarted, CountsFit, CountFits, GracefulExit
<1>2. IInv /\ ExitInv /\ [Next]_vars => ExitInv'
  BY ListenersNext, NotStartedNext, CountNext, GracefulNext DEF ExitInv
<1>. QED BY <1>1, <1>2, ServerInvariant, PTL DEF Spec

(* epoll.cpp, insert and erase: m_count, which is decremented whether or not *)
(* the socket was registered, is the number of a running loop's connections  *)
(* and of the listeners that requestQuit has left it, at every step of       *)
(* requestQuit.                                                              *)
THEOREM CountIsExact ==
  ASSUME ListenerMayFail = FALSE, MaxRequestQuits <= 1,
         IsFiniteSet(Conns), Cardinality(Sockets) < CountMod
  PROVE  Spec => []CountsFit
<1>1. ExitInv => CountsFit
  BY DEF ExitInv
<1>. QED BY <1>1, ExitInvariant, PTL

(* webserver.cpp, requestQuit, and eventloop.cpp, exec: while the server is  *)
(* not told to quit at once, no loop ends before its last connection has     *)
(* ended.  Needed for it: requestQuit comes at most once, listeners report   *)
(* no error (both would decrement m_count once too often) and the number of  *)
(* sockets fits in m_count.                                                  *)
THEOREM ExitIsGraceful ==
  ASSUME ListenerMayFail = FALSE, MaxRequestQuits <= 1,
         IsFiniteSet(Conns), Cardinality(Sockets) < CountMod
  PROVE  Spec => []GracefulExit
<1>1. ExitInv => GracefulExit
  BY DEF ExitInv
<1>. QED BY <1>1, ExitInvariant, PTL

-----------------------------------------------------------------------------
(* The server implements what it promises its clients: each step of the      *)
(* system is a step of ConnectionService or leaves its variables alone.      *)

(* How long a connection has been idle, as ConnectionService counts it.      *)
Idle == [c \in Conns |-> IF conn[c] = "open" THEN Timeout - left[c] ELSE 0]

LEMMA ServiceKept ==
  ASSUME UNCHANGED <<m_runnable, conn, unread, peerOpen, left>>
  PROVE  UNCHANGED Service!vars
BY DEF Service!vars

(* Only what the service lists as a reason lets a connection be closed.      *)
LEMMA ServiceClose ==
  ASSUME IInv, NEW C \in SUBSET Conns, CloseAll(C), UNCHANGED m_runnable,
         \A c \in C : conn[c] = "open" /\ (unread[c] \/ ~peerOpen[c] \/ left[c] = 0 \/ ~m_runnable)
  PROVE  Service!Next
<1>. USE TimeoutAssumption
<1>1. \A c \in C : Service!MayClose(c)
  BY DEF Service!MayClose
<1>2. /\ conn' = [c \in Conns |-> IF c \in C THEN "closed" ELSE conn[c]]
      /\ unread' = [c \in Conns |-> unread[c] /\ c \notin C]
      /\ UNCHANGED <<m_runnable, peerOpen>>
  BY DEF CloseAll
<1>3. Idle' = [c \in Conns |-> IF c \in C THEN 0 ELSE Idle[c]]
  BY DEF CloseAll, Idle, IInv, TypeOK
<1>4. Service!Close(C)
  BY <1>1, <1>2, <1>3 DEF Service!Close, Idle
<1>. QED BY <1>4 DEF Service!Next

LEMMA ServiceRefuse ==
  ASSUME IInv, NEW L \in SUBSET Listeners, CloseListeners(L), UNCHANGED <<m_runnable, left, peerOpen>>
  PROVE  Service!Next
<1> DEFINE C == UNION {backlog[l] : l \in L}
<1>1. C \in SUBSET Conns /\ \A c \in C : conn[c] = "backlog"
  BY DEF IInv, TypeOK, BacklogFits
<1>2. /\ conn' = [c \in Conns |-> IF c \in C THEN "refused" ELSE conn[c]]
      /\ unread' = [c \in Conns |-> unread[c] /\ c \notin C]
  BY DEF CloseListeners
<1>. HIDE DEF C
<1>3. Idle' = Idle
  BY <1>1, <1>2 DEF Idle, IInv, TypeOK
<1>4. Service!Refuse(C)
  BY <1>1, <1>2, <1>3 DEF Service!Refuse, Idle
<1>. QED BY <1>1, <1>4 DEF Service!Next

LEMMA ServiceOfMain ==
  ASSUME IInv, NotStarted, GracefulExit,
         \/ Start \/ Quit \/ RequestQuit \/ Join
         \/ \E p \in Loops : StartLoop(p) \/ DestroyLoop(p)
         \/ \E p \in Loops, l \in Listeners : EraseListener(p, l)
         \/ \E l \in Listeners : CloseListener(l)
  PROVE  [Service!Next]_(Service!vars)
<1>1. ASSUME Start PROVE Service!Next
  <2>1. Service!Start
    BY <1>1 DEF Start, NotStarted, connVars, Service!Start
  <2>. QED BY <2>1 DEF Service!Next
<1>2. ASSUME Quit PROVE Service!Next
  <2>1. Service!Quit
    BY <1>2 DEF Quit, connVars, Service!Quit
  <2>. QED BY <2>1 DEF Service!Next
<1>3. ASSUME RequestQuit \/ (\E p \in Loops, l \in Listeners : EraseListener(p, l))
             \/ (\E p \in Loops : StartLoop(p))
      PROVE  UNCHANGED Service!vars
  BY <1>3, ServiceKept DEF RequestQuit, EraseListener, StartLoop, connVars
<1>4. ASSUME Join PROVE Service!Next
  BY <1>4, ServiceRefuse DEF Join
<1>5. ASSUME NEW l \in Listeners, CloseListener(l) PROVE Service!Next
  BY <1>5, ServiceRefuse DEF CloseListener
<1>6. ASSUME NEW p \in Loops, DestroyLoop(p) PROVE Service!Next
  <2>1. /\ pc[p] = "exited" /\ CloseAll(Range(m_list[p])) /\ UNCHANGED m_runnable
    BY <1>6 DEF DestroyLoop
  <2>2. Range(m_list[p]) \subseteq interest[p] \cap Conns /\ interest[p] \cap Conns \subseteq Open
    BY Facts
  <2>3. \A c \in Range(m_list[p]) : conn[c] = "open" /\ ~m_runnable
    BY <2>1, <2>2 DEF GracefulExit, Open
  <2>. QED BY <2>1, <2>2, <2>3, ServiceClose
<1>. QED BY <1>1, <1>2, <1>3, <1>4, <1>5, <1>6

LEMMA ServiceOfWorld ==
  ASSUME IInv,
         \/ Tick \/ \E l \in Listeners : ListenerFails(l)
         \/ \E c \in Conns : Send(c) \/ HangUp(c)
         \/ \E c \in Conns, l \in Listeners : Connect(c, l)
  PROVE  [Service!Next]_(Service!vars)
<1>. USE TimeoutAssumption
<1>1. ASSUME Tick PROVE Service!Next
  <2>1. UNCHANGED <<m_runnable, conn, unread, peerOpen>>
    BY <1>1 DEF Tick, connVars
  <2>2. left' = [c \in Conns |-> IF left[c] > 0 THEN left[c] - 1 ELSE 0]
    BY <1>1 DEF Tick
  <2>3. left \in [Conns -> 0..Timeout]
    BY DEF IInv, TypeOK
  <2>4. Idle' = [c \in Conns |-> IF conn[c] = "open" /\ Idle[c] < Timeout THEN Idle[c] + 1 ELSE Idle[c]]
    BY <2>1, <2>2, <2>3 DEF Idle
  <2>5. Service!Tick
    BY <2>1, <2>4 DEF Service!Tick, Idle
  <2>. QED BY <2>5 DEF Service!Next
<1>2. ASSUME NEW l \in Listeners, ListenerFails(l) PROVE UNCHANGED Service!vars
  BY <1>2, ServiceKept DEF ListenerFails, connVars
<1>3. ASSUME NEW c \in Conns, Send(c) PROVE Service!Next
  <2>1. Idle' = Idle
    BY <1>3 DEF Send, Idle
  <2>2. Service!Request(c)
    BY <1>3, <2>1 DEF Send, Service!Request, Idle
  <2>. QED BY <2>2 DEF Service!Next
<1>4. ASSUME NEW c \in Conns, HangUp(c) PROVE Service!Next
  <2>1. Idle' = Idle
    BY <1>4 DEF HangUp, Idle
  <2>2. Service!HangUp(c)
    BY <1>4, <2>1 DEF HangUp, Service!HangUp, Idle
  <2>. QED BY <2>2 DEF Service!Next
<1>5. ASSUME NEW c \in Conns, NEW l \in Listeners, Connect(c, l) PROVE Service!Next
  <2>1. conn[c] = "none" /\ conn' = [conn EXCEPT ![c] = "backlog"] /\ UNCHANGED <<m_runnable, left, unread, peerOpen>>
    BY <1>5 DEF Connect
  <2>2. Idle' = Idle
    BY <2>1 DEF Idle, IInv, TypeOK
  <2>3. Service!Connect(c)
    BY <2>1, <2>2 DEF Service!Connect, Idle
  <2>. QED BY <2>3 DEF Service!Next
<1>. QED BY <1>1, <1>2, <1>3, <1>4, <1>5

LEMMA ServiceOfThreads ==
  ASSUME IInv, QueuedForAReason, NEW p \in Loops,
         \/ While(p) \/ Epoll(p) \/ EndAccept(p) \/ Checkout(p)
         \/ \E l \in Listeners : BeginAccept(p, l) \/ DropListener(p, l)
         \/ \E c \in Conns : AcceptClient(p, c) \/ HandshakeFails(p, c)
         \/ \E c \in Conns : Serve(p, c) \/ ServeAndClose(p, c)
         \/ \E c \in Conns : CloseOnError(p, c) \/ CloseOnTimeout(p, c)
  PROVE  [Service!Next]_(Service!vars)
<1>. USE TimeoutAssumption
<1>1. ASSUME \/ While(p) \/ Epoll(p) \/ EndAccept(p) \/ Checkout(p)
             \/ \E l \in Listeners : BeginAccept(p, l) \/ DropListener(p, l)
      PROVE  UNCHANGED Service!vars
  BY <1>1, ServiceKept DEF While, Epoll, EndAccept, Checkout, BeginAccept, DropListener, connVars
<1>2. ASSUME NEW c \in Conns, AcceptClient(p, c) \/ HandshakeFails(p, c) PROVE socket[p] \in Listeners /\ conn[c] = "backlog"
  <2>1. pc[p] = "accept" /\ c \in backlog[socket[p]]
    BY <1>2 DEF AcceptClient, HandshakeFails
  <2>2. socket[p] \in Listeners
    BY <2>1 DEF IInv, TypeOK
  <2>. QED BY <2>1, <2>2, WaitingIsUnknown
<1>3. ASSUME NEW c \in Conns, AcceptClient(p, c) PROVE Service!Next
  <2>1. /\ conn' = [conn EXCEPT ![c] = "open"] /\ left' = [left EXCEPT ![c] = Timeout]
        /\ UNCHANGED <<m_runnable, unread, peerOpen>>
    BY <1>3 DEF AcceptClient
  <2>2. conn[c] = "backlog"
    BY <1>2, <1>3
  <2>3. Idle' = Idle
    BY <2>1, <2>2 DEF Idle, IInv, TypeOK
  <2>4. Service!Accept(c)
    BY <2>1, <2>2, <2>3 DEF Service!Accept, Idle
  <2>. QED BY <2>4 DEF Service!Next
<1>4. ASSUME NEW c \in Conns, HandshakeFails(p, c) PROVE Service!Next
  <2>1. /\ conn' = [conn EXCEPT ![c] = "refused"] /\ unread' = [unread EXCEPT ![c] = FALSE]
        /\ UNCHANGED <<m_runnable, left, peerOpen>>
    BY <1>4 DEF HandshakeFails, threadVars
  <2>2. conn[c] = "backlog"
    BY <1>2, <1>4
  <2>3. Idle' = Idle
    BY <2>1, <2>2 DEF Idle, IInv, TypeOK
  <2>4. /\ conn' = [d \in Conns |-> IF d \in {c} THEN "refused" ELSE conn[d]]
        /\ unread' = [d \in Conns |-> unread[d] /\ d \notin {c}]
    BY <2>1 DEF IInv, TypeOK
  <2>5. Service!Refuse({c})
    BY <2>1, <2>2, <2>3, <2>4 DEF Service!Refuse, Idle
  <2>. QED BY <2>5 DEF Service!Next
<1>5. ASSUME NEW c \in Conns, Serve(p, c) PROVE Service!Next
  <2>1. /\ unread' = [unread EXCEPT ![c] = FALSE] /\ left' = [left EXCEPT ![c] = Timeout]
        /\ UNCHANGED <<m_runnable, conn, peerOpen>> /\ c \in m_queue[p]
    BY <1>5 DEF Serve, Reset, ReadAll
  <2>2. conn[c] = "open"
    BY <2>1, Facts DEF Open
  <2>3. unread[c]
    BY <2>1 DEF QueuedForAReason
  <2>4. Idle' = [Idle EXCEPT ![c] = 0]
    <3>1. left \in [Conns -> 0..Timeout] /\ left'[c] = Timeout /\ Timeout - Timeout = 0
      BY <2>1 DEF IInv, TypeOK
    <3>2. \A d \in Conns \ {c} : left'[d] = left[d]
      BY <2>1, <3>1
    <3>3. Idle'[c] = 0 /\ \A d \in Conns \ {c} : Idle'[d] = Idle[d]
      BY <2>1, <2>2, <3>1, <3>2 DEF Idle
    <3>. QED BY <3>3 DEF Idle
  <2>5. Service!Serve(c)
    BY <2>1, <2>2, <2>3, <2>4 DEF Service!Serve, Idle
  <2>. QED BY <2>5 DEF Service!Next
<1>6. ASSUME NEW c \in Conns, ServeAndClose(p, c) \/ CloseOnError(p, c) \/ CloseOnTimeout(p, c)
      PROVE  Service!Next
  <2>1. CloseAll({c}) /\ UNCHANGED m_runnable /\ c \in m_queue[p] \cup m_errorQueue[p]
    BY <1>6 DEF ServeAndClose, CloseOnError, CloseOnTimeout
  <2>2. conn[c] = "open"
    BY <2>1, Facts DEF Open
  <2>3. unread[c] \/ ~peerOpen[c] \/ left[c] = 0
    BY <1>6 DEF ServeAndClose, CloseOnError, CloseOnTimeout, QueuedForAReason
  <2>. QED BY <2>1, <2>2, <2>3, ServiceClose
<1>. QED BY <1>1, <1>3, <1>4, <1>5, <1>6

LEMMA ServiceNext ==
  ASSUME IInv, QueuedForAReason, NotStarted, GracefulExit, [Next]_vars
  PROVE  [Service!Next]_(Service!vars)
<1>1. ASSUME UNCHANGED vars PROVE UNCHANGED Service!vars
  BY <1>1, ServiceKept DEF vars, connVars
<1>. QED BY ZenonT(60), Steps, <1>1, ServiceOfMain, ServiceOfWorld, ServiceOfThreads

(* The whole server, however its threads, the kernel, the clients, the clock *)
(* and the signals interleave, does for each client what ConnectionService   *)
(* promises: it is accepted or refused once, and an accepted connection is   *)
(* closed once and only after a request, a hang-up, a full timeout or quit   *)
(* (eventloop.cpp; README.md: "Support gracefully closing of connections").  *)
(* The hypotheses are those of ExitIsGraceful.                               *)
THEOREM ServerKeepsPromise ==
  ASSUME ListenerMayFail = FALSE, MaxRequestQuits <= 1,
         IsFiniteSet(Conns), Cardinality(Sockets) < CountMod
  PROVE  Spec => ImplementsService
<1>1. Init => Service!Init
  BY DEF Init, InitLoops, Service!Init
<1>2. ExitInv => NotStarted /\ GracefulExit
  BY DEF ExitInv
<1>3. IInv /\ QueuedForAReason /\ ExitInv /\ [Next]_vars => [Service!Next]_(Service!vars)
  BY <1>2, ServiceNext
<1>. QED BY <1>1, <1>3, ServerInvariant, EventsInvariant, ExitInvariant, PTL
         DEF Spec, ImplementsService, Service!Spec
=============================================================================
