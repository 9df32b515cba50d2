------------------------------- MODULE EventLoop -------------------------------
(***************************************************************************)
(* The event loops of the server: EventLoop (src/core/eventloop.cpp) with    *)
(* the Epoll it owns (src/core/epoll.cpp, the Linux variant) and its         *)
(* TimerManager, one thread per loop, over the part of the Linux kernel    *)
(* they rely on (edge-triggered epoll, listening sockets, connections) and *)
(* the clients.  WebServer.tla adds the main thread and composes all.      *)
(*                                                                         *)
(* A thread's steps are cut where it reads or writes state that another    *)
(* thread, the kernel or a client changes: the test of the while loop,     *)
(* epoll_wait, each socket of a queue, each accept4, checkout.             *)
(* m_queue and m_errorQueue are sets: epoll_wait promises no order.        *)
(***************************************************************************)
EXTENDS Integers, FiniteSets, TimerList

CONSTANTS
  Loops,          \* the event loops (WebServer::m_loopCount of them)
  Listeners,      \* the listening sockets (WebServer::m_listeners)
  SslListeners,   \* those whose accepted sockets are SslSockets
  Conns,          \* client connections, each used once
  Timeout,        \* the keep-alive timeout, in ticks of the clock
  MaxSends,       \* bound: requests a client sends on one connection
  MaxEvents,      \* EPOLL_MAX_EVENTS
  CountMod,       \* m_count is an unsigned int: arithmetic modulo CountMod
  AcceptMayFail,  \* accept4 may fail although the backlog is not empty (EMFILE)
  ListenerMayFail,\* a listening socket may report an error
  nullptr         \* no socket

Sockets == Listeners \cup Conns

ASSUME SocketsAssumption ==
  /\ Listeners \cap Conns = {}
  /\ SslListeners \subseteq Listeners
  /\ nullptr \notin Sockets
ASSUME ListenersAssumption == IsFiniteSet(Listeners)
ASSUME TimeoutAssumption == Timeout \in Nat \ {0}
ASSUME MaxSendsAssumption == MaxSends \in Nat
ASSUME MaxEventsAssumption == MaxEvents \in Nat \ {0}
ASSUME CountModAssumption == CountMod \in Nat \ {0}
ASSUME FailAssumption == AcceptMayFail \in BOOLEAN /\ ListenerMayFail \in BOOLEAN

VARIABLES
  m_runnable,   \* WebServer::m_runnable, which every loop holds a reference to
  pc,           \* where the thread of each loop is
  socket,       \* the listener processQueue is accepting from
  m_queue,      \* sockets with something to read
  m_errorQueue, \* sockets with an error or a hang-up; later: the timed out ones
  m_list,       \* TimerManager: the sockets in the order of their timers
  left,         \* ticks until the socket's timer runs out
  m_count,      \* Epoll::m_count
  interest,     \* kernel: the sockets registered with each epoll instance
  ready,        \* kernel: its ready list
  listening,    \* kernel: the listening socket's descriptor is open
  failed,       \* kernel: the listening socket has an error pending
  backlog,      \* kernel: connections established and not yet accepted
  conn,         \* life of each connection
  unread,       \* kernel: request data not yet read
  peerOpen,     \* the client has not closed its side
  sends,        \* requests the client has sent
  events        \* history: the ConnectEvents handed to the event handler

threadVars == <<pc, socket, m_queue, m_errorQueue, m_list, m_count>>
kernelVars == <<interest, ready, listening, failed, backlog>>
connVars   == <<conn, unread, peerOpen, sends, events>>

InitLoops ==
  /\ m_runnable = TRUE
  /\ pc = [p \in Loops |-> "none"]
  /\ socket = [p \in Loops |-> nullptr]
  /\ m_queue = [p \in Loops |-> {}]
  /\ m_errorQueue = [p \in Loops |-> {}]
  /\ m_list = [p \in Loops |-> <<>>]
  /\ left = [c \in Conns |-> 0]
  /\ m_count = [p \in Loops |-> 0]
  /\ interest = [p \in Loops |-> {}]
  /\ ready = [p \in Loops |-> {}]
  /\ listening = [l \in Listeners |-> TRUE]
  /\ failed = [l \in Listeners |-> FALSE]
  /\ backlog = [l \in Listeners |-> {}]
  /\ conn = [c \in Conns |-> "none"]
  /\ unread = [c \in Conns |-> FALSE]
  /\ peerOpen = [c \in Conns |-> TRUE]
  /\ sends = [c \in Conns |-> 0]
  /\ events = [c \in Conns |-> <<>>]

-----------------------------------------------------------------------------
(* Helpers. *)

\* Mutant: insert forgets to count.
Inc_none(n) == n
Inc(n) == (n + 1) % CountMod
Dec(n) == (n + CountMod - 1) % CountMod

\* EPOLLERR, EPOLLHUP or EPOLLRDHUP is set.
HasError(s) == IF s \in Listeners THEN failed[s] ELSE ~peerOpen[s]

\* EPOLLIN is set.
HasInput(s) == IF s \in Listeners THEN backlog[s] # {} ELSE unread[s]

Reportable(s) == HasError(s) \/ HasInput(s)

\* Epoll::epoll: an error goes to errorEvents, else input goes to events.
\* Mutant: the else is missing.
ToQueue_both(s) == TRUE
ToQueue(s) == ~HasError(s)

\* The test of the loop in EventLoop::exec.  Mutant: || for &&.
GoesOn_either(p) == m_runnable \/ m_count[p] # 0
GoesOn(p) == m_runnable /\ m_count[p] # 0

\* The accept loop ends: the listener was closed meanwhile, or accept4 returned
\* no descriptor.  Mutant: one accept per event.
AcceptEnds_once(l) == TRUE
AcceptEnds(l) == ~listening[l] \/ backlog[l] = {} \/ AcceptMayFail

\* AbstractSocket::read until there is nothing more.  Mutant: one chunk only.
ReadAll_chunk(c) == unread
ReadAll(c) == [unread EXCEPT ![c] = FALSE]

\* Timer::reset.  Mutant: it adds to the old deadline.
Reset_adds(c) == [left EXCEPT ![c] = @ + Timeout]
Reset(c) == [left EXCEPT ![c] = Timeout]

\* Mutant of Erase: the count stays.
Erase_noCount(p, s) ==
  /\ interest' = [interest EXCEPT ![p] = @ \ {s}]
  /\ ready' = [ready EXCEPT ![p] = @ \ {s}]
  /\ UNCHANGED m_count

\* Epoll::erase: the count goes down whether or not the socket was registered.
Erase(p, s) ==
  /\ interest' = [interest EXCEPT ![p] = @ \ {s}]
  /\ ready' = [ready EXCEPT ![p] = @ \ {s}]
  /\ m_count' = [m_count EXCEPT ![p] = Dec(@)]

\* ConnectEvent::Close, then delete socket, whose destructor closes the descriptor.
CloseAll(C) ==
  /\ conn' = [c \in Conns |-> IF c \in C THEN "closed" ELSE conn[c]]
  /\ events' = [c \in Conns |-> IF c \in C THEN Append(events[c], "Close") ELSE events[c]]
  /\ unread' = [c \in Conns |-> unread[c] /\ c \notin C]
  /\ left' = [c \in Conns |-> IF c \in C THEN 0 ELSE left[c]]
  /\ UNCHANGED <<peerOpen, sends>>

\* The descriptor of a listener is closed: the kernel resets its backlog and
\* takes it out of every epoll instance.
CloseListeners(L) ==
  LET reset == UNION {backlog[l] : l \in L} IN
  /\ listening' = [l \in Listeners |-> listening[l] /\ l \notin L]
  /\ backlog' = [l \in Listeners |-> IF l \in L THEN {} ELSE backlog[l]]
  /\ failed' = [l \in Listeners |-> failed[l] /\ l \notin L]
  /\ conn' = [c \in Conns |-> IF c \in reset THEN "refused" ELSE conn[c]]
  /\ unread' = [c \in Conns |-> unread[c] /\ c \notin reset]

\* m_manager.destory(socket->timer()).  Mutant: it is forgotten.
DestoryTimer_none(p, c) == UNCHANGED m_list
DestoryTimer(p, c) ==
  \E j \in 1..Len(m_list[p]) :
    /\ m_list[p][j] = c
    /\ m_list' = [m_list EXCEPT ![p] = RemoveAt(@, j)]

-----------------------------------------------------------------------------
(* The thread of loop p: EventLoop::exec. *)

\* while(m_runnable && m_epoll.count()); the turn before has ended.
While(p) ==
  /\ pc[p] = "while"
  /\ m_errorQueue[p] = {}
  /\ pc' = [pc EXCEPT ![p] = IF GoesOn(p) THEN "epoll" ELSE "exited"]
  /\ UNCHANGED <<m_runnable, socket, m_queue, m_errorQueue, m_list, left, m_count,
                 kernelVars, connVars>>

\* Epoll::epoll: the kernel reports at most MaxEvents sockets and takes them off
\* the ready list (EPOLLET), those with nothing to report any more as well;
\* each goes to one queue, an error first.  Nothing ready: the wait times out.
Epoll(p) ==
  LET pending == {s \in ready[p] : Reportable(s)} IN
  /\ pc[p] = "epoll"
  /\ \E S \in SUBSET pending :
       /\ Cardinality(S) <= MaxEvents
       /\ S # pending => Cardinality(S) = MaxEvents
       /\ ready' = [ready EXCEPT ![p] = pending \ S]
       /\ m_queue' = [m_queue EXCEPT ![p] = @ \cup {s \in S : ToQueue(s)}]
       /\ m_errorQueue' = [m_errorQueue EXCEPT ![p] = @ \cup {s \in S : HasError(s)}]
  /\ pc' = [pc EXCEPT ![p] = "serve"]
  /\ UNCHANGED <<m_runnable, socket, m_list, left, m_count,
                 interest, listening, failed, backlog, connVars>>

\* processQueue reaches a listener.
BeginAccept(p, l) ==
  /\ pc[p] = "serve"
  /\ l \in m_queue[p]
  /\ m_queue' = [m_queue EXCEPT ![p] = @ \ {l}]
  /\ socket' = [socket EXCEPT ![p] = l]
  /\ pc' = [pc EXCEPT ![p] = "accept"]
  /\ UNCHANGED <<m_runnable, m_errorQueue, m_list, left, m_count, kernelVars, connVars>>

\* One turn of the accept loop: the client gets a timer, is registered with this
\* loop's epoll (which reports at once what already arrived) and is announced.
AcceptClient(p, c) ==
  LET l == socket[p] IN
  /\ pc[p] = "accept"
  /\ listening[l]
  /\ c \in backlog[l]
  /\ backlog' = [backlog EXCEPT ![l] = @ \ {c}]
  /\ left' = [left EXCEPT ![c] = Timeout]
  /\ \E k \in StartPoints(m_list[p], left, Timeout) :
       m_list' = [m_list EXCEPT ![p] = Emplace(@, k, c)]
  /\ interest' = [interest EXCEPT ![p] = @ \cup {c}]
  /\ ready' = [ready EXCEPT ![p] = IF Reportable(c) THEN @ \cup {c} ELSE @]
  /\ m_count' = [m_count EXCEPT ![p] = Inc(@)]
  /\ conn' = [conn EXCEPT ![c] = "open"]
  /\ events' = [events EXCEPT ![c] = Append(@, "Accpet")]
  /\ UNCHANGED <<m_runnable, pc, socket, m_queue, m_errorQueue,
                 listening, failed, unread, peerOpen, sends>>

\* Mutant of HandshakeFails: Accpet is announced before the client is validated.
HandshakeFails_announced(p, c) ==
  LET l == socket[p] IN
  /\ pc[p] = "accept"
  /\ listening[l]
  /\ l \in SslListeners
  /\ c \in backlog[l]
  /\ backlog' = [backlog EXCEPT ![l] = @ \ {c}]
  /\ conn' = [conn EXCEPT ![c] = "refused"]
  /\ unread' = [unread EXCEPT ![c] = FALSE]
  /\ events' = [events EXCEPT ![c] = Append(@, "Accpet")]
  /\ UNCHANGED <<m_runnable, threadVars, left, interest, ready, listening, failed,
                 peerOpen, sends>>

\* SSL_accept fails in the constructor of SslSocket: the client is not valid,
\* is deleted and the loop goes on.
HandshakeFails(p, c) ==
  LET l == socket[p] IN
  /\ pc[p] = "accept"
  /\ listening[l]
  /\ l \in SslListeners
  /\ c \in backlog[l]
  /\ backlog' = [backlog EXCEPT ![l] = @ \ {c}]
  /\ conn' = [conn EXCEPT ![c] = "refused"]
  /\ unread' = [unread EXCEPT ![c] = FALSE]
  /\ UNCHANGED <<m_runnable, threadVars, left, interest, ready, listening, failed,
                 peerOpen, sends, events>>

EndAccept(p) ==
  /\ pc[p] = "accept"
  /\ AcceptEnds(socket[p])
  /\ pc' = [pc EXCEPT ![p] = "serve"]
  /\ socket' = [socket EXCEPT ![p] = nullptr]
  /\ UNCHANGED <<m_runnable, m_queue, m_errorQueue, m_list, left, m_count,
                 kernelVars, connVars>>

\* m_services->process(socket) reads everything there is; it returned true.
Serve(p, c) ==
  LET dl == Reset(c)
      Points == RestartPoints(m_list[p], dl, dl[c])
  IN
  /\ pc[p] = "serve"
  /\ c \in m_queue[p] \cap Conns
  /\ m_queue' = [m_queue EXCEPT ![p] = @ \ {c}]
  /\ unread' = ReadAll(c)
  /\ left' = dl
  /\ \E j \in 1..Len(m_list[p]) :
       /\ m_list[p][j] = c
       /\ \/ \E k \in Points : m_list' = [m_list EXCEPT ![p] = Splice(@, j, k)]
          \/ Points = {} /\ UNCHANGED m_list
  /\ UNCHANGED <<m_runnable, pc, socket, m_errorQueue, m_count, kernelVars,
                 conn, peerOpen, sends, events>>

\* m_services->process(socket) returned false.
ServeAndClose(p, c) ==
  /\ pc[p] = "serve"
  /\ c \in m_queue[p] \cap Conns
  /\ m_queue' = [m_queue EXCEPT ![p] = @ \ {c}]
  /\ Erase(p, c)
  /\ DestoryTimer(p, c)
  /\ CloseAll({c})
  /\ UNCHANGED <<m_runnable, pc, socket, m_errorQueue, listening, failed, backlog>>

\* processErrorQueue reaches a connection.
CloseOnError(p, c) ==
  /\ pc[p] = "serve"
  /\ m_queue[p] = {}
  /\ c \in m_errorQueue[p] \cap Conns
  /\ m_errorQueue' = [m_errorQueue EXCEPT ![p] = @ \ {c}]
  /\ Erase(p, c)
  /\ DestoryTimer(p, c)
  /\ CloseAll({c})
  /\ UNCHANGED <<m_runnable, pc, socket, m_queue, listening, failed, backlog>>

\* processErrorQueue reaches a listener: this loop gives it up.
DropListener(p, l) ==
  /\ pc[p] = "serve"
  /\ m_queue[p] = {}
  /\ l \in m_errorQueue[p] \cap Listeners
  /\ m_errorQueue' = [m_errorQueue EXCEPT ![p] = @ \ {l}]
  /\ Erase(p, l)
  /\ UNCHANGED <<m_runnable, pc, socket, m_queue, m_list, left,
                 listening, failed, backlog, connVars>>

\* m_manager.checkout(m_errorQueue)
Checkout(p) ==
  /\ pc[p] = "serve"
  /\ m_queue[p] = {}
  /\ m_errorQueue[p] = {}
  /\ \E n \in ExpiredPrefixes(m_list[p], left, 0) :
       /\ m_errorQueue' = [m_errorQueue EXCEPT ![p] = Range(Taken(m_list[p], n))]
       /\ m_list' = [m_list EXCEPT ![p] = Remaining(@, n)]
  /\ pc' = [pc EXCEPT ![p] = "while"]
  /\ UNCHANGED <<m_runnable, socket, m_queue, left, m_count, kernelVars, connVars>>

\* processTimeoutQueue reaches a connection; its timer is gone already.
CloseOnTimeout(p, c) ==
  /\ pc[p] = "while"
  /\ c \in m_errorQueue[p]
  /\ m_errorQueue' = [m_errorQueue EXCEPT ![p] = @ \ {c}]
  /\ Erase(p, c)
  /\ CloseAll({c})
  /\ UNCHANGED <<m_runnable, pc, socket, m_queue, m_list, listening, failed, backlog>>

Thread(p) ==
  \/ While(p)
  \/ Epoll(p)
  \/ \E l \in Listeners : BeginAccept(p, l) \/ DropListener(p, l)
  \/ EndAccept(p)
  \/ Checkout(p)
  \/ \E c \in Conns :
       \/ AcceptClient(p, c)
       \/ HandshakeFails(p, c)
       \/ Serve(p, c)
       \/ ServeAndClose(p, c)
       \/ CloseOnError(p, c)
       \/ CloseOnTimeout(p, c)

-----------------------------------------------------------------------------
(* The clients, the kernel and the clock. *)

\* A new edge on socket s reaches every loop of P.
Edge(s, P) == ready' = [p \in Loops |-> IF p \in P THEN ready[p] \cup {s} ELSE ready[p]]

\* The loops that have s registered, and the choices EPOLLEXCLUSIVE leaves the
\* kernel for a listener: at least one of them.
Interested(s) == {p \in Loops : s \in interest[p]}
Woken(l) == {P \in SUBSET Interested(l) : P = {} => Interested(l) = {}}

Connect(c, l) ==
  /\ conn[c] = "none"
  /\ listening[l]
  /\ conn' = [conn EXCEPT ![c] = "backlog"]
  /\ backlog' = [backlog EXCEPT ![l] = @ \cup {c}]
  /\ \E P \in Woken(l) : Edge(l, P)
  /\ UNCHANGED <<m_runnable, threadVars, left, interest, listening, failed,
                 unread, peerOpen, sends, events>>

Send(c) ==
  /\ conn[c] \in {"backlog", "open"}
  /\ peerOpen[c]
  /\ sends[c] < MaxSends
  /\ sends' = [sends EXCEPT ![c] = @ + 1]
  /\ unread' = [unread EXCEPT ![c] = TRUE]
  /\ Edge(c, Interested(c))
  /\ UNCHANGED <<m_runnable, threadVars, left, interest, listening, failed, backlog,
                 conn, peerOpen, events>>

HangUp(c) ==
  /\ conn[c] \in {"backlog", "open"}
  /\ peerOpen[c]
  /\ peerOpen' = [peerOpen EXCEPT ![c] = FALSE]
  /\ Edge(c, Interested(c))
  /\ UNCHANGED <<m_runnable, threadVars, left, interest, listening, failed, backlog,
                 conn, unread, sends, events>>

ListenerFails(l) ==
  /\ ListenerMayFail
  /\ listening[l]
  /\ ~failed[l]
  /\ failed' = [failed EXCEPT ![l] = TRUE]
  /\ \E P \in Woken(l) : Edge(l, P)
  /\ UNCHANGED <<m_runnable, threadVars, left, interest, listening, backlog, connVars>>

Tick ==
  /\ \E c \in Conns : left[c] > 0
  /\ left' = [c \in Conns |-> IF left[c] > 0 THEN left[c] - 1 ELSE 0]
  /\ UNCHANGED <<m_runnable, threadVars, kernelVars, connVars>>

Environment ==
  \/ \E c \in Conns : Send(c) \/ HangUp(c) \/ (\E l \in Listeners : Connect(c, l))
  \/ \E l \in Listeners : ListenerFails(l)
=============================================================================
