-------------------------------- MODULE Sockets --------------------------------
(***************************************************************************)
(* Descriptors and TLS handles of the server from listen to exit: the      *)
(* socket classes (src/abstract/abstractsocket.cpp, src/core/tcpsocket.cpp *)
(* and sslsocket.cpp), WebServer::listen, requestQuit and waitForFinished  *)
(* in the main thread (src/webserver.cpp), and the accept loop of          *)
(* EventLoop::processQueue in the others.  The kernel gives out the lowest *)
(* free descriptor, so that a number comes back at once.                   *)
(***************************************************************************)
EXTENDS Integers, SequencesExt

CONSTANTS
  Loops,       \* the threads of the event loops
  Memory,      \* bound: where sockets can be allocated
  Descriptors, \* bound: the numbers below the limit of the process
  Attempts,    \* the calls of WebServer::listen: sslEnable of each
  Addresses,   \* bound: addresses that getaddrinfo finds
  MaxClients,  \* bound: connections that are accepted
  MaxFiles,    \* bound: files that the pool opens
  nullptr

INVALID_SOCKET == -1

\* A TcpSocket or an SslSocket.
SocketObject ==
  [ssl : BOOLEAN, m_descriptor : Descriptors \cup {INVALID_SOCKET}, m_ssl : BOOLEAN,
   m_isListener : BOOLEAN, secured : BOOLEAN]

ASSUME SocketsAssumption ==
  /\ Descriptors \subseteq Nat
  /\ Attempts \in Seq(BOOLEAN)
  /\ Addresses \in Nat /\ MaxClients \in Nat /\ MaxFiles \in Nat
  /\ Loops \cap Memory = {} /\ "close" \notin Loops \cup Memory
  /\ nullptr \notin SocketObject

VARIABLES
  sslContext,
  objects,    \* the socket at each place of Memory
  handles,    \* SSL objects that were made and not freed
  table,      \* kernel: what each descriptor is
  mainPc,
  socket,     \* of the main thread: the socket being made or closed
  addresses,  \* left of the list
  swapped,    \* the descriptor that close has taken out of the socket
  results,    \* of the calls of listen
  m_listeners,
  pc,         \* of each loop
  listener,   \* it accepts from
  number,     \* the descriptor it has read from it
  descriptor, \* what accept returned
  client,     \* the socket made for it
  ret,        \* of SSL_accept
  flight,     \* how far the client's handshake is
  registered, \* the connections of each loop
  clients,
  files

mainVars == <<sslContext, mainPc, socket, addresses, swapped, results, m_listeners>>
loopVars == <<pc, listener, number, descriptor, client, ret, flight, registered>>
heap == <<objects, handles, table>>
vars == <<mainVars, loopVars, heap, clients, files>>

Init ==
  /\ sslContext = FALSE
  /\ objects = [o \in Memory |-> nullptr]
  /\ handles = 0
  /\ table = [d \in Descriptors |-> "free"]
  /\ mainPc = "start"
  /\ socket = nullptr
  /\ addresses = 0
  /\ swapped = INVALID_SOCKET
  /\ results = <<>>
  /\ m_listeners = {}
  /\ pc = [p \in Loops |-> "none"]
  /\ listener = [p \in Loops |-> nullptr]
  /\ number = [p \in Loops |-> INVALID_SOCKET]
  /\ descriptor = [p \in Loops |-> INVALID_SOCKET]
  /\ client = [p \in Loops |-> nullptr]
  /\ ret = [p \in Loops |-> 0]
  /\ flight = [p \in Loops |-> "none"]
  /\ registered = [p \in Loops |-> {}]
  /\ clients = 0
  /\ files = 0

-----------------------------------------------------------------------------
(* The kernel and the heap. *)

FreeOnes == {d \in Descriptors : table[d] = "free"}
Lowest == Min(FreeOnes)
Becomes(d, what) == table' = [table EXCEPT ![d] = what]

\* The table behind ::close(d); with -1 it fails.
Without(d) == IF d \in Descriptors THEN [table EXCEPT ![d] = "free"] ELSE table

\* A socket is constructed; an SslSocket makes its handle first.
New(o, ssl, d) ==
  /\ objects[o] = nullptr
  /\ objects' = [objects EXCEPT ![o] =
       [ssl |-> ssl, m_descriptor |-> d, m_ssl |-> ssl, m_isListener |-> FALSE, secured |-> FALSE]]
  /\ handles' = handles + (IF ssl THEN 1 ELSE 0)

\* AbstractSocket::isValid(socket), TcpSocket::isValid() and SslSocket::isValid()
IsValidDescriptor(d) == d > 0
IsValid(o) ==
  IsValidDescriptor(objects[o].m_descriptor) /\ (objects[o].ssl => objects[o].m_ssl)

\* Mutant of Closes: the destructor leaves it to close().
Closes_never(o) == FALSE
\* ~TcpSocket and ~SslSocket close what is valid.
Closes(o) == IsValid(o)
Delete(o) ==
  /\ objects' = [objects EXCEPT ![o] = nullptr]
  /\ table' = IF Closes(o) THEN Without(objects[o].m_descriptor) ELSE table
  /\ handles' = handles - (IF Closes(o) /\ objects[o].m_ssl THEN 1 ELSE 0)

-----------------------------------------------------------------------------
(* The main thread: initializatSsl, the calls of listen, exec. *)

\* The certificate and the key are good, or they are not (or not given).
InitializatSsl ==
  /\ mainPc = "start"
  /\ mainPc' = "listen"
  /\ sslContext' \in BOOLEAN
  /\ UNCHANGED <<socket, addresses, swapped, results, m_listeners, loopVars, heap, clients, files>>

SslEnable == Attempts[Len(results) + 1]
Attempting(at) == mainPc = at /\ Len(results) < Len(Attempts)

\* listen returns.
Result(what) ==
  /\ results' = Append(results, what)
  /\ mainPc' = "listen"
  /\ socket' = nullptr
  /\ UNCHANGED <<sslContext, addresses, swapped, loopVars, clients, files>>

NotAvailable ==
  /\ Attempting("listen")
  /\ SslEnable /\ ~sslContext
  /\ Result("notAvailable")
  /\ UNCHANGED <<heap, m_listeners>>

\* new SslSocket() or new TcpSocket(), and getaddrinfo.
BeginListen(o) ==
  /\ Attempting("listen")
  /\ SslEnable => sslContext
  /\ New(o, SslEnable, INVALID_SOCKET)
  /\ socket' = o
  /\ addresses' \in 0..Addresses
  /\ mainPc' = "address"
  /\ UNCHANGED <<sslContext, swapped, results, m_listeners, loopVars, table, clients, files>>

\* socket() gives a descriptor, or none.
CreateSocket ==
  /\ Attempting("address")
  /\ addresses > 0
  /\ \/ /\ FreeOnes # {}
        /\ objects' = [objects EXCEPT ![socket].m_descriptor = Lowest]
        /\ Becomes(Lowest, "socket")
     \/ /\ objects' = [objects EXCEPT ![socket].m_descriptor = INVALID_SOCKET]
        /\ UNCHANGED table
  /\ IF IsValidDescriptor(objects'[socket].m_descriptor)
     THEN mainPc' = "bind" /\ UNCHANGED addresses
     ELSE addresses' = addresses - 1 /\ UNCHANGED mainPc
  /\ UNCHANGED <<sslContext, socket, swapped, results, m_listeners, loopVars, handles,
                 clients, files>>

\* AbstractSocket::close(m_descriptor) in one thread.
CloseDescriptor(o) ==
  /\ objects' = [objects EXCEPT ![o].m_descriptor = INVALID_SOCKET]
  /\ table' = Without(objects[o].m_descriptor)

Bind ==
  /\ Attempting("bind")
  /\ mainPc' = "listening"
  /\ UNCHANGED <<sslContext, socket, addresses, swapped, results, m_listeners, loopVars, heap,
                 clients, files>>

\* "Bind failed, try the next"
BindFails ==
  /\ Attempting("bind")
  /\ CloseDescriptor(socket)
  /\ addresses' = addresses - 1
  /\ mainPc' = "address"
  /\ UNCHANGED <<sslContext, socket, swapped, results, m_listeners, loopVars, handles,
                 clients, files>>

\* The unique_ptr of WebServer::listen deletes the socket.
NoAddress ==
  /\ Attempting("address")
  /\ addresses = 0
  /\ Delete(socket)
  /\ Result("noAddress")
  /\ UNCHANGED m_listeners

Listen ==
  /\ Attempting("listening")
  /\ Becomes(objects[socket].m_descriptor, "listener")
  /\ mainPc' = "flags"
  /\ UNCHANGED <<sslContext, socket, addresses, swapped, results, m_listeners, loopVars,
                 objects, handles, clients, files>>

\* ::listen fails: closed, then deleted with INVALID_SOCKET in it.
ListenFails ==
  /\ Attempting("listening")
  /\ table' = Without(objects[socket].m_descriptor)
  /\ objects' = [objects EXCEPT ![socket] = nullptr]
  /\ Result("noListen")
  /\ UNCHANGED <<handles, m_listeners>>

SetFlags ==
  /\ Attempting("flags")
  /\ objects' = [objects EXCEPT ![socket].m_isListener = TRUE]
  /\ m_listeners' = m_listeners \cup {socket}
  /\ Result("listening")
  /\ UNCHANGED <<handles, table>>

\* fcntl fails: the destructor closes.
FlagsFail ==
  /\ Attempting("flags")
  /\ Delete(socket)
  /\ Result("noFlags")
  /\ UNCHANGED m_listeners

\* exec: start runs the loops if there is a listener.
Start ==
  /\ mainPc = "listen" /\ Len(results) = Len(Attempts)
  /\ mainPc' = IF m_listeners = {} THEN "done" ELSE "running"
  /\ pc' = IF m_listeners = {} THEN pc ELSE [p \in Loops |-> "wait"]
  /\ UNCHANGED <<sslContext, socket, addresses, swapped, results, m_listeners, listener, number,
                 descriptor, client, ret, flight, registered, heap, clients, files>>

\* Mutant of Swapped: close leaves the number where it was.
Swapped_none(o) == objects[o].m_descriptor
\* std::swap(descriptor, socket)
Swapped(o) == INVALID_SOCKET

\* requestQuit: listener->close().  An SslSocket frees its handle first, and forgets it
\* behind ::close; nobody asks for it in between, since IsValid fails without a number.
CloseListener(o) ==
  /\ mainPc = "running"
  /\ o \in m_listeners /\ IsValid(o)
  /\ swapped' = objects[o].m_descriptor
  /\ objects' = [objects EXCEPT ![o].m_descriptor = Swapped(o), ![o].m_ssl = FALSE]
  /\ handles' = handles - (IF objects[o].m_ssl THEN 1 ELSE 0)
  /\ socket' = o
  /\ mainPc' = "close"
  /\ UNCHANGED <<sslContext, addresses, results, m_listeners, loopVars, table, clients, files>>

\* ::close(descriptor); then the next listener, or waitForFinished.
CloseCall ==
  /\ mainPc = "close"
  /\ table' = Without(swapped)
  /\ swapped' = INVALID_SOCKET
  /\ socket' = nullptr
  /\ mainPc' = IF \E o \in m_listeners \ {socket} : IsValid(o) THEN "running" ELSE "waiting"
  /\ UNCHANGED <<sslContext, addresses, results, m_listeners, loopVars, objects, handles,
                 clients, files>>

\* m_listeners.clear(), behind the join of the threads.
ClearListeners(o) ==
  /\ mainPc = "waiting"
  /\ \A p \in Loops : pc[p] = "stopped"
  /\ o \in m_listeners
  /\ Delete(o)
  /\ m_listeners' = m_listeners \ {o}
  /\ UNCHANGED <<sslContext, mainPc, socket, addresses, swapped, results, loopVars, clients, files>>

\* m_loops.clear(): ~EventLoop deletes the connections that are left.
ClearLoops(p, o) ==
  /\ mainPc = "waiting"
  /\ m_listeners = {}
  /\ o \in registered[p]
  /\ Delete(o)
  /\ registered' = [registered EXCEPT ![p] = @ \ {o}]
  /\ UNCHANGED <<mainVars, pc, listener, number, descriptor, client, ret, flight, clients, files>>

\* ~WebServer: cleanUpSsl.
CleanUp ==
  /\ mainPc = "waiting"
  /\ m_listeners = {}
  /\ \A p \in Loops : pc[p] = "stopped" /\ registered[p] = {}
  /\ mainPc' = "done"
  /\ sslContext' = FALSE
  /\ UNCHANGED <<socket, addresses, swapped, results, m_listeners, loopVars, heap, clients, files>>

Main ==
  \/ InitializatSsl \/ NotAvailable \/ CreateSocket \/ Bind \/ BindFails \/ NoAddress
  \/ Listen \/ ListenFails \/ SetFlags \/ FlagsFail \/ Start \/ CloseCall \/ CleanUp
  \/ \E o \in Memory : BeginListen(o) \/ CloseListener(o) \/ ClearListeners(o)
  \/ \E p \in Loops, o \in Memory : ClearLoops(p, o)

-----------------------------------------------------------------------------
(* The thread of a loop. *)

Goes(p, from, to) == pc[p] = from /\ pc' = [pc EXCEPT ![p] = to]

\* epoll_wait has given it a listener, which requestQuit may be closing.
BeginAccept(p, o) ==
  /\ Goes(p, "wait", "valid")
  /\ o \in m_listeners
  /\ listener' = [listener EXCEPT ![p] = o]
  /\ UNCHANGED <<mainVars, number, descriptor, client, ret, flight, registered, heap,
                 clients, files>>

\* while(socket->isValid()), and accept reads m_descriptor.
TestListener(p) ==
  /\ pc[p] = "valid"
  /\ IF IsValid(listener[p]) THEN pc' = [pc EXCEPT ![p] = "read"]
                             ELSE pc' = [pc EXCEPT ![p] = "wait"]
  /\ UNCHANGED <<mainVars, listener, number, descriptor, client, ret, flight, registered, heap,
                 clients, files>>

ReadNumber(p) ==
  /\ Goes(p, "read", "accept")
  /\ number' = [number EXCEPT ![p] = objects[listener[p]].m_descriptor]
  /\ UNCHANGED <<mainVars, listener, descriptor, client, ret, flight, registered, heap,
                 clients, files>>

\* accept4 on what the number is by now.  isValid(descriptor) holds unless it is 0.
Accept4(p) ==
  /\ pc[p] = "accept"
  /\ number[p] \in Descriptors /\ table[number[p]] = "listener"
  /\ clients < MaxClients /\ FreeOnes # {}
  /\ clients' = clients + 1
  /\ Becomes(Lowest, "connection")
  /\ IF IsValidDescriptor(Lowest)
     THEN /\ Goes(p, "accept", "construct")
          /\ descriptor' = [descriptor EXCEPT ![p] = Lowest]
     ELSE Goes(p, "accept", "wait") /\ UNCHANGED descriptor
  /\ UNCHANGED <<mainVars, listener, number, client, ret, flight, registered, objects,
                 handles, files>>

\* Nobody waits, no descriptor is free, or the number is no listening socket.
Accept4Fails(p) ==
  /\ Goes(p, "accept", "wait")
  /\ UNCHANGED <<mainVars, listener, number, descriptor, client, ret, flight, registered, heap,
                 clients, files>>

\* new SslSocket(descriptor) or new TcpSocket(descriptor)
Construct(p, o) ==
  LET ssl == objects[listener[p]].ssl IN
  /\ Goes(p, "construct", IF ssl THEN "hello" ELSE "made")
  /\ New(o, ssl, descriptor[p])
  /\ client' = [client EXCEPT ![p] = o]
  /\ descriptor' = [descriptor EXCEPT ![p] = INVALID_SOCKET]
  /\ flight' = [flight EXCEPT ![p] = "none"]
  /\ ret' = [ret EXCEPT ![p] = 1]
  /\ UNCHANGED <<mainVars, listener, number, registered, table, clients, files>>

\* SSL_accept on the non-blocking socket: it reads the client's hello, sends its own
\* and reads the client's end; what is not there by then makes it return -1.
Handshake(p, at, has, next) ==
  /\ pc[p] = at
  /\ IF flight[p] = has
     THEN next /\ UNCHANGED ret
     ELSE /\ pc' = [pc EXCEPT ![p] = "shaken"]
          /\ ret' \in {[ret EXCEPT ![p] = r] : r \in IF flight[p] = "gone" THEN {0, -1} ELSE {-1}}
          /\ UNCHANGED <<flight, objects>>
  /\ UNCHANGED <<mainVars, listener, number, descriptor, client, registered, handles, table,
                 clients, files>>

ReadHello(p) ==
  Handshake(p, "hello", "hello",
            /\ pc' = [pc EXCEPT ![p] = "end"]
            /\ flight' = [flight EXCEPT ![p] = "answered"]
            /\ UNCHANGED objects)
ReadEnd(p) ==
  Handshake(p, "end", "end",
            /\ pc' = [pc EXCEPT ![p] = "shaken"]
            /\ objects' = [objects EXCEPT ![client[p]].secured = TRUE]
            /\ UNCHANGED flight)

\* Mutant of Refused: only what the client has ended.
Refused_gone(r) == r = 0
\* SSL_accept(m_ssl) < 0
Refused(r) == r < 0

\* The constructor goes on: the connection is closed when SSL_accept has failed.
Shaken(p) ==
  LET o == client[p] IN
  /\ Goes(p, "shaken", "made")
  /\ IF Refused(ret[p])
     THEN /\ table' = Without(objects[o].m_descriptor)
          /\ handles' = handles - 1
          /\ objects' = [objects EXCEPT ![o].m_descriptor = INVALID_SOCKET, ![o].m_ssl = FALSE]
     ELSE UNCHANGED heap
  /\ UNCHANGED <<mainVars, listener, number, descriptor, client, ret, flight, registered,
                 clients, files>>

\* if(!client->isValid()) delete client; else it gets a timer and is registered.
Register(p) ==
  LET o == client[p] IN
  /\ Goes(p, "made", "valid")
  /\ IF IsValid(o) THEN registered' = [registered EXCEPT ![p] = @ \cup {o}] /\ UNCHANGED heap
                   ELSE Delete(o) /\ UNCHANGED registered
  /\ client' = [client EXCEPT ![p] = nullptr]
  /\ UNCHANGED <<mainVars, listener, number, descriptor, ret, flight, clients, files>>

\* delete socket, for whatever reason.
CloseConnection(p, o) ==
  /\ Goes(p, "wait", "wait")
  /\ o \in registered[p]
  /\ Delete(o)
  /\ registered' = [registered EXCEPT ![p] = @ \ {o}]
  /\ UNCHANGED <<mainVars, listener, number, descriptor, client, ret, flight, clients, files>>

\* A handler has the pool open a file, which stays open.
OpenFile(p) ==
  /\ Goes(p, "wait", "wait")
  /\ registered[p] # {}
  /\ files < MaxFiles /\ FreeOnes # {}
  /\ files' = files + 1
  /\ Becomes(Lowest, "file")
  /\ UNCHANGED <<mainVars, listener, number, descriptor, client, ret, flight, registered,
                 objects, handles, clients>>

\* The loop ends, with or without connections (quit clears m_runnable).
Stop(p) ==
  /\ mainPc = "waiting"
  /\ Goes(p, "wait", "stopped")
  /\ UNCHANGED <<mainVars, listener, number, descriptor, client, ret, flight, registered, heap,
                 clients, files>>

\* The client: it answers what it has got, or goes.
Client(p) ==
  /\ pc[p] \in {"hello", "end"}
  /\ flight' \in {[flight EXCEPT ![p] = f] :
       f \in CASE flight[p] = "none" -> {"hello", "gone"}
               [] flight[p] = "answered" -> {"end", "gone"}
               [] OTHER -> {}}
  /\ UNCHANGED <<mainVars, pc, listener, number, descriptor, client, ret, registered, heap,
                 clients, files>>

Loop(p) ==
  \/ TestListener(p) \/ ReadNumber(p) \/ Accept4(p) \/ Accept4Fails(p)
  \/ ReadHello(p) \/ ReadEnd(p) \/ Shaken(p) \/ Register(p) \/ OpenFile(p) \/ Stop(p)
  \/ \E o \in Memory : BeginAccept(p, o) \/ Construct(p, o) \/ CloseConnection(p, o)

Next == Main \/ \E p \in Loops : Loop(p) \/ Client(p)

Spec == Init /\ [][Next]_vars

-----------------------------------------------------------------------------
(* Every descriptor of a socket is in one hand: a socket's, a thread's that  *)
(* has just accepted it, or close's.  None is lost, and none of a closed     *)
(* socket's is kept: it may be somebody else's by then, and be closed again. *)
Sockets == {o \in Memory : objects[o] # nullptr}
Holders(d) ==
  {o \in Sockets : objects[o].m_descriptor = d}
  \cup {p \in Loops : descriptor[p] = d} \cup (IF swapped = d THEN {"close"} ELSE {})
DescriptorsOwned ==
  \A d \in Descriptors :
    Cardinality(Holders(d)) = IF table[d] \in {"free", "file"} THEN 0 ELSE 1

(* Every SSL object is freed once, and all are, but those of SslSockets that *)
(* could not listen: they are not valid when they are deleted.               *)
Owned == {o \in Sockets : objects[o].m_ssl}
Lost == {i \in DOMAIN results : Attempts[i] /\ results[i] \in {"noAddress", "noListen"}}
HandlesOwned == handles = Cardinality(Owned) + Cardinality(Lost)

(* Those are lost, too (sockets_fails.cfg).                                  *)
NoHandleLost == handles = Cardinality(Owned)

(* A connection over TLS is registered, and its requests are read, when its  *)
(* handshake is done, or when the client has gone (SSL_accept returns 0, and *)
(* it is taken for success).                                                 *)
HandshakeDone ==
  \A p \in Loops :
    pc[p] = "made" /\ objects[client[p]].ssl /\ IsValid(client[p]) =>
      objects[client[p]].secured \/ flight[p] = "gone"

(* The inductive invariant: types; who may delete a socket; which sockets    *)
(* hold a descriptor and a handle; how far a handshake is.                   *)
TypeOK ==
  /\ sslContext \in BOOLEAN
  /\ objects \in [Memory -> SocketObject \cup {nullptr}]
  /\ handles \in Nat
  /\ table \in [Descriptors -> {"free", "socket", "listener", "connection", "file"}]
  /\ mainPc \in {"start", "listen", "address", "bind", "listening", "flags",
                 "running", "close", "waiting", "done"}
  /\ socket \in Memory \cup {nullptr}
  /\ addresses \in 0..Addresses
  /\ swapped \in Descriptors \cup {INVALID_SOCKET}
  /\ results \in Seq({"notAvailable", "noAddress", "noListen", "noFlags", "listening"})
  /\ m_listeners \subseteq Memory
  /\ pc \in [Loops -> {"none", "wait", "valid", "read", "accept", "construct",
                       "hello", "end", "shaken", "made", "stopped"}]
  /\ listener \in [Loops -> Memory \cup {nullptr}]
  /\ number \in [Loops -> Descriptors \cup {INVALID_SOCKET}]
  /\ descriptor \in [Loops -> Descriptors \cup {INVALID_SOCKET}]
  /\ client \in [Loops -> Memory \cup {nullptr}]
  /\ ret \in [Loops -> {-1, 0, 1}]
  /\ flight \in [Loops -> {"none", "hello", "answered", "end", "gone"}]
  /\ registered \in [Loops -> SUBSET Memory]
  /\ clients \in Nat /\ files \in Nat

\* Every place that is pointed at holds a socket, which one thread alone may delete.
Making == mainPc \in {"address", "bind", "listening", "flags"}
HasClient(p) == pc[p] \in {"hello", "end", "shaken", "made"}
MainOwns(o) == (Making /\ o = socket) \/ o \in m_listeners
LoopOwns(p, o) == (HasClient(p) /\ o = client[p]) \/ o \in registered[p]
OneOwner ==
  /\ \A o \in Memory : MainOwns(o) => o \in Sockets /\ \A p \in Loops : ~LoopOwns(p, o)
  /\ \A p \in Loops : \A o \in Memory :
       LoopOwns(p, o) => o \in Sockets /\ \A q \in Loops : LoopOwns(q, o) => q = p
  /\ Making => socket \in Memory \ m_listeners
  /\ \A p \in Loops : HasClient(p) => client[p] \in Memory \ registered[p]

\* Loops run behind start, and accept from listeners that are not yet deleted.
LoopsFit ==
  /\ \A p \in Loops : pc[p] # "none" => mainPc \in {"running", "close", "waiting", "done"}
  /\ \A p \in Loops : pc[p] \notin {"none", "wait", "stopped"} => listener[p] \in m_listeners

\* A handle without a descriptor: only while the socket of listen has none yet.
HandleFits(o) ==
  LET valid == IsValidDescriptor(objects[o].m_descriptor) IN
  /\ objects[o].m_ssl => objects[o].ssl /\ (valid \/ (Making /\ o = socket))
  /\ objects[o].ssl /\ valid => objects[o].m_ssl
DescriptorsFit ==
  /\ \A o \in Sockets : HandleFits(o)
  /\ Making =>
       /\ objects[socket].ssl = SslEnable /\ objects[socket].m_ssl = SslEnable
       /\ mainPc = "address" <=> ~IsValidDescriptor(objects[socket].m_descriptor)
       /\ mainPc # "address" => addresses > 0
  /\ IF mainPc = "close" THEN IsValidDescriptor(swapped) ELSE swapped = INVALID_SOCKET
  /\ \A p \in Loops :
       IF pc[p] = "construct" THEN IsValidDescriptor(descriptor[p])
                              ELSE descriptor[p] = INVALID_SOCKET

HandshakeFits ==
  \A p \in Loops :
    /\ pc[p] \in {"hello", "end"} => ret[p] = 1
    /\ pc[p] \in {"hello", "end", "shaken"} => objects[client[p]].ssl /\ IsValid(client[p])
    /\ pc[p] = "shaken" =>
         Refused(ret[p]) \/ objects[client[p]].secured \/ flight[p] = "gone"

InOneHand(d) ==
  IF table[d] \in {"free", "file"} THEN Holders(d) = {}
  ELSE \E h \in Memory \cup Loops \cup {"close"} : Holders(d) = {h}

SocketsInv ==
  /\ TypeOK
  /\ OneOwner /\ LoopsFit /\ DescriptorsFit
  /\ IsFiniteSet(Owned) /\ HandlesOwned
  /\ HandshakeFits /\ HandshakeDone
  /\ 0 \notin Descriptors => \A d \in Descriptors : InOneHand(d)

(* A client that speaks TLS and stays is not refused (sockets_fails.cfg: it  *)
(* is when it has not answered by the time SSL_accept looks).                *)
ClientServed ==
  \A p \in Loops : pc[p] = "shaken" /\ Refused(ret[p]) => flight[p] = "gone"
=============================================================================
