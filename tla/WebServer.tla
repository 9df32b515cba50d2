------------------------------- MODULE WebServer -------------------------------
(***************************************************************************)
(* WebServer (src/webserver.cpp): the main thread that starts the loops,   *)
(* waits for them and destroys them, the signal handler that runs on top   *)
(* of it (main.cpp, signalHandler: quit or requestQuit), and the whole     *)
(* system: main thread, event loops, kernel, clients, clock.               *)
(*                                                                         *)
(* A signal handler is modelled on the main thread, where the kernel       *)
(* delivers a process-directed signal: while it runs, the main thread does *)
(* nothing else; the loops do not stop.                                    *)
(***************************************************************************)
EXTENDS EventLoop

CONSTANTS
  MaxRequestQuits, \* bound: how often requestQuit is called
  QuitPoints       \* the phases of the main thread in which requestQuit may come

Phases == {"init", "starting", "joining", "destroying", "finished"}

ASSUME QuitAssumption ==
  /\ MaxRequestQuits \in Nat
  /\ QuitPoints \subseteq {"starting", "joining"}

VARIABLES
  main,    \* phase of the main thread
  toErase, \* requestQuit: the unregisterListeners calls still to make
  toClose, \* requestQuit: the listeners still to close
  quits,   \* how often requestQuit was called
  told     \* history: the loops that requestQuit has found in m_loops

mainVars == <<main, toErase, toClose, quits, told>>
vars == <<m_runnable, threadVars, left, kernelVars, connVars, mainVars>>

Init ==
  /\ InitLoops
  /\ main = "init"
  /\ toErase = {}
  /\ toClose = {}
  /\ quits = 0
  /\ told = {}

\* No signal handler is on top of the main thread.
MainRuns == toErase = {} /\ toClose = {}

-----------------------------------------------------------------------------
\* start(): m_runnable is set after the listeners were checked.
Start ==
  /\ main = "init"
  /\ main' = "starting"
  /\ m_runnable' = TRUE
  /\ UNCHANGED <<threadVars, left, kernelVars, connVars, toErase, toClose, quits, told>>

\* One turn of the loop of start(): registerListeners, then the thread.  insert
\* counts every listener; only an open descriptor gets registered, and one with
\* a backlog is ready at once.  A single step, since nobody can tell a thread
\* that has not run yet from one not created: a requestQuit between the calls
\* leaves what one does that comes before the first step of the thread.
StartLoop(p) ==
  /\ main = "starting"
  /\ MainRuns
  /\ pc[p] = "none"
  /\ interest' = [interest EXCEPT ![p] = {l \in Listeners : listening[l]}]
  /\ ready' = [ready EXCEPT ![p] = {l \in Listeners : listening[l] /\ Reportable(l)}]
  /\ m_count' = [m_count EXCEPT ![p] = (@ + Cardinality(Listeners)) % CountMod]
  /\ pc' = [pc EXCEPT ![p] = "while"]
  /\ main' = IF \A q \in Loops \ {p} : pc[q] # "none" THEN "joining" ELSE "starting"
  /\ UNCHANGED <<m_runnable, socket, m_queue, m_errorQueue, m_list, left,
                 listening, failed, backlog, connVars, toErase, toClose, quits, told>>

\* quit(), in the signal handler.
Quit ==
  /\ main \in {"init", "starting", "joining"}
  /\ m_runnable
  /\ m_runnable' = FALSE
  /\ UNCHANGED <<threadVars, left, kernelVars, connVars, mainVars>>

\* requestQuit(), in the signal handler: each started loop is to unregister each
\* listener, then each listener is to be closed.
RequestQuit ==
  /\ main \in QuitPoints
  /\ MainRuns
  /\ quits < MaxRequestQuits
  /\ quits' = quits + 1
  /\ toErase' = {p \in Loops : pc[p] # "none"} \X Listeners
  /\ toClose' = Listeners
  /\ told' = told \cup {p \in Loops : pc[p] # "none"}
  /\ UNCHANGED <<m_runnable, threadVars, left, kernelVars, connVars, main>>

\* What unregisterListeners does for one listener.  Mutant: it is not counted.
Unregistered_noCount(p, l) == Erase_noCount(p, l)
Unregistered(p, l) == Erase(p, l)

\* loop->unregisterListeners, one listener of one loop.
EraseListener(p, l) ==
  /\ <<p, l>> \in toErase
  /\ toErase' = toErase \ {<<p, l>>}
  /\ Unregistered(p, l)
  /\ UNCHANGED <<m_runnable, pc, socket, m_queue, m_errorQueue, m_list, left,
                 listening, failed, backlog, connVars, main, toClose, quits, told>>

\* listener->close()
CloseListener(l) ==
  /\ toErase = {}
  /\ l \in toClose
  /\ toClose' = toClose \ {l}
  /\ CloseListeners({l})
  /\ interest' = [p \in Loops |-> interest[p] \ {l}]
  /\ ready' = [p \in Loops |-> ready[p] \ {l}]
  /\ UNCHANGED <<m_runnable, threadVars, left, peerOpen, sends, events,
                 main, toErase, quits, told>>

\* waitForFinished(): every thread is joined, m_listeners.clear().
Join ==
  /\ main = "joining"
  /\ MainRuns
  /\ \A p \in Loops : pc[p] = "exited"
  /\ main' = "destroying"
  /\ CloseListeners(Listeners)
  /\ interest' = [p \in Loops |-> interest[p] \ Listeners]
  /\ ready' = [p \in Loops |-> ready[p] \ Listeners]
  /\ UNCHANGED <<m_runnable, threadVars, left, peerOpen, sends, events,
                 toErase, toClose, quits, told>>

\* m_loops.clear(): ~EventLoop takes every timer and closes its connection;
\* ~Epoll closes the epoll instance.
DestroyLoop(p) ==
  /\ main = "destroying"
  /\ pc[p] = "exited"
  /\ pc' = [pc EXCEPT ![p] = "destroyed"]
  /\ CloseAll(Range(m_list[p]))
  /\ m_list' = [m_list EXCEPT ![p] = <<>>]
  /\ interest' = [interest EXCEPT ![p] = {}]
  /\ ready' = [ready EXCEPT ![p] = {}]
  /\ main' = IF \A q \in Loops \ {p} : pc[q] = "destroyed" THEN "finished" ELSE main
  /\ UNCHANGED <<m_runnable, socket, m_queue, m_errorQueue, m_count,
                 listening, failed, backlog, toErase, toClose, quits, told>>

MainThread ==
  \/ Start
  \/ \E p \in Loops : StartLoop(p) \/ DestroyLoop(p)
  \/ \E p \in Loops, l \in Listeners : EraseListener(p, l)
  \/ \E l \in Listeners : CloseListener(l)
  \/ Join

Signals == Quit \/ RequestQuit

LoopThread(p) == Thread(p) /\ UNCHANGED mainVars
World == Environment /\ UNCHANGED mainVars
Clock == Tick /\ UNCHANGED mainVars

\* exec() has returned: the only state in which everything may stop.
Finished == main = "finished" /\ UNCHANGED vars

Next ==
  \/ MainThread
  \/ Signals
  \/ \E p \in Loops : LoopThread(p)
  \/ World
  \/ Clock
  \/ Finished

Spec == Init /\ [][Next]_vars

\* The scheduler runs every thread and the clock goes on; clients and signals
\* may stop at any time.
Fairness ==
  /\ WF_vars(MainThread)
  /\ \A p \in Loops : WF_vars(LoopThread(p))
  /\ WF_vars(Clock)

FairSpec == Spec /\ Fairness

-----------------------------------------------------------------------------
Open == {c \in Conns : conn[c] = "open"}

(* Every variable has its type; a thread holds a listener while it accepts  *)
(* and the signal handler closes only after it has unregistered.            *)
TypeOK ==
  /\ m_runnable \in BOOLEAN
  /\ pc \in [Loops -> {"none", "while", "epoll", "serve", "accept", "exited", "destroyed"}]
  /\ socket \in [Loops -> Listeners \cup {nullptr}]
  /\ m_queue \in [Loops -> SUBSET Sockets]
  /\ m_errorQueue \in [Loops -> SUBSET Sockets]
  /\ m_list \in [Loops -> Seq(Conns)]
  /\ left \in [Conns -> 0..Timeout]
  /\ m_count \in [Loops -> 0..(CountMod - 1)]
  /\ interest \in [Loops -> SUBSET Sockets]
  /\ ready \in [Loops -> SUBSET Sockets]
  /\ listening \in [Listeners -> BOOLEAN]
  /\ failed \in [Listeners -> BOOLEAN]
  /\ backlog \in [Listeners -> SUBSET Conns]
  /\ conn \in [Conns -> {"none", "backlog", "open", "closed", "refused"}]
  /\ unread \in [Conns -> BOOLEAN]
  /\ peerOpen \in [Conns -> BOOLEAN]
  /\ sends \in [Conns -> 0..MaxSends]
  /\ events \in [Conns -> Seq({"Accpet", "Close"})]
  /\ main \in Phases
  /\ toErase \subseteq told \X Listeners
  /\ toClose \subseteq Listeners
  /\ quits \in 0..MaxRequestQuits
  /\ told \subseteq Loops
  /\ \A p \in Loops : pc[p] = "accept" <=> socket[p] # nullptr

(* A socket is deleted in five places.  Whatever still points at sockets -  *)
(* both queues, the user data of the timers, data.ptr of the registered     *)
(* epoll events - points at sockets that are not deleted.                   *)
NoDanglingPointer ==
  \A p \in Loops :
    (m_queue[p] \cup m_errorQueue[p] \cup Range(m_list[p]) \cup interest[p] \cup ready[p])
      \cap Conns \subseteq Open

(* An open connection belongs to one loop and has one timer there, or was   *)
(* taken out by checkout and is about to be closed: no connection escapes   *)
(* the timeout, none is closed or deleted twice.                            *)
OneOwner ==
  /\ \A c \in Open : \E p \in Loops : c \in interest[p]
  /\ \A p, q \in Loops : p # q => interest[p] \cap interest[q] \cap Conns = {}

TimedOut(p) == IF pc[p] = "while" THEN m_errorQueue[p] ELSE {}

OneTimer ==
  \A p \in Loops :
    /\ IsInjective(m_list[p])
    /\ interest[p] \cap Conns = Range(m_list[p]) \cup TimedOut(p)
    /\ Range(m_list[p]) \cap TimedOut(p) = {}
    /\ m_queue[p] \cap m_errorQueue[p] = {}

OneOwnerOneTimer == OneOwner /\ OneTimer

(* Queues and ready lists hold what is registered, each queue is empty      *)
(* where the thread believes it to be, and after checkout the error queue   *)
(* holds connections only.                                                  *)
QueuesFit ==
  \A p \in Loops :
    /\ (m_queue[p] \cup m_errorQueue[p]) \cap Conns \subseteq interest[p]
    /\ ready[p] \subseteq interest[p]
    /\ pc[p] \notin {"serve", "accept"} => m_queue[p] = {}
    /\ pc[p] \notin {"serve", "accept", "while"} => m_errorQueue[p] = {}
    /\ pc[p] = "while" => m_errorQueue[p] \subseteq Conns
    /\ pc[p] = "none" => interest[p] = {} /\ m_list[p] = <<>>

(* A client waits in one backlog, and only until it is accepted.            *)
BacklogFits ==
  /\ \A l \in Listeners : \A c \in backlog[l] : conn[c] = "backlog"
  /\ \A l, k \in Listeners : l # k => backlog[l] \cap backlog[k] = {}

(* The inductive invariant: no socket is deleted while something points at  *)
(* it, because owner, timer and queues agree.                               *)
IInv ==
  TypeOK /\ NoDanglingPointer /\ OneOwnerOneTimer /\ QueuesFit /\ BacklogFits

(* The timers of a loop stay ordered through start and restart.             *)
TimersOrdered == \A p \in Loops : Ordered(m_list[p], left)

(* Edge-triggered epoll reports an edge once.  A connection of a loop that  *)
(* has a request or a hang-up waiting is on the ready list or in a queue,   *)
(* or nobody would ever look at it again.                                   *)
NoLostEvent ==
  \A p \in Loops : \A c \in interest[p] \cap Conns :
    Reportable(c) => c \in ready[p] \cup m_queue[p] \cup m_errorQueue[p]

(* The same for the backlog of a listener, which several loops share: some  *)
(* loop still has its edge or is accepting, unless no loop is registered or *)
(* requestQuit is about to close the listener.                              *)
NoLostBacklog ==
  \A l \in Listeners :
    backlog[l] # {} /\ Interested(l) # {} /\ quits = 0 =>
      \E p \in Loops :
        \/ l \in ready[p] \cup m_queue[p] \cup m_errorQueue[p]
        \/ pc[p] = "accept" /\ socket[p] = l

(* process is never called on a connection that has nothing to read (it     *)
(* would take the empty read for a broken request and close).               *)
NoIdleServe == \A p \in Loops : \A c \in m_queue[p] \cap Conns : unread[c]

(* Every connection in a queue is there for a reason that still holds: there *)
(* is something to read, and a hang-up that came later is on the ready list  *)
(* again; it has hung up; or, after checkout, its time is over.              *)
QueuedForAReason ==
  \A p \in Loops :
    /\ \A c \in m_queue[p] \cap Conns : unread[c] /\ (peerOpen[c] \/ c \in ready[p])
    /\ \A c \in m_errorQueue[p] \cap Conns :
         IF pc[p] = "while" THEN left[c] = 0 ELSE ~peerOpen[c]

(* After requestQuit a loop ends only when its last connection has ended    *)
(* (README.md: "Support slow close like Nginx smooth upgrade"): with        *)
(* connections left, only quit ends it.                                     *)
GracefulExit ==
  \A p \in Loops : pc[p] = "exited" /\ m_runnable => interest[p] \cap Conns = {}

(* m_count of a running loop is the number of its connections and of the     *)
(* listeners it was given, less those that requestQuit has unregistered: all *)
(* of them from the call on, but for the unregisterListeners still to make.  *)
Counted(p) ==
  IF p \in told THEN {l \in Listeners : <<p, l>> \in toErase} ELSE Listeners

CountFits(p) ==
  /\ pc[p] = "none" => m_count[p] = 0 /\ p \notin told
  /\ pc[p] \notin {"none", "destroyed"} =>
       m_count[p] = Cardinality((interest[p] \cap Conns) \cup Counted(p))

CountsFit == \A p \in Loops : CountFits(p)

(* A client may close its side behind its last request and wait for the      *)
(* answer.  The request is not served (server_half_close.cfg): input and     *)
(* hang-up are reported together, and an error comes first.                  *)
LastRequestServed ==
  [][\A p \in Loops, c \in Conns :
       pc[p] = "serve" /\ c \in m_errorQueue[p] /\ conn'[c] = "closed" => ~unread[c]]_vars

(* The event handler sees Accpet then Close of a connection, once each,     *)
(* and never Close without Accpet.                                          *)
EventProtocol ==
  \A c \in Conns :
    events[c] = CASE conn[c] = "open"   -> <<"Accpet">>
                  [] conn[c] = "closed" -> <<"Accpet", "Close">>
                  [] OTHER              -> <<>>

(* The server implements the promise to the clients.                        *)
Service == INSTANCE ConnectionService WITH
  running <- m_runnable,
  status  <- conn,
  pending <- unread,
  idle    <- [c \in Conns |-> IF conn[c] = "open" THEN Timeout - left[c] ELSE 0]
ImplementsService == Service!Spec

-----------------------------------------------------------------------------
(* An accepted connection does not stay forever: clients send finitely      *)
(* often, then the timeout closes it (README.md: "Use timer to close        *)
(* timeout connections").                                                   *)
OpenEventuallyCloses == \A c \in Conns : conn[c] = "open" ~> conn[c] = "closed"

(* A client in the backlog is accepted or refused, unless the server ended  *)
(* before it was started.                                                   *)
BacklogServed == \A c \in Conns : conn[c] = "backlog" ~> conn[c] # "backlog"

(* requestQuit ends the server once the connections have ended.             *)
RequestQuitFinishes == (quits > 0) ~> (main = "finished")

(* quit ends the server, connections or not; a quit that came before start  *)
(* is overwritten by start.                                                 *)
QuitFinishes ==
  (main \in {"starting", "joining"} /\ ~m_runnable) ~> (main = "finished")
=============================================================================
