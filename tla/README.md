# TLA+ specifications of Tiny Web Server

Tiny Web Server (`src/TinyWebServer`) is an HTTP/HTTPS server in C++17: event
loops over edge-triggered epoll, one thread each, timers that close silent
connections, and two ways to end the server. The modules in this directory
describe its Linux build. TLC checks them on small instances, TLAPS checks the
proofs about them.

Line numbers below are lines of files under `src/TinyWebServer/src/`.
`PROJECT.json` has the full map from definitions to lines.

## 1. The system

| Component | State | Operations | Talks to |
|---|---|---|---|
| Life cycle (`webserver.cpp/.h`) | `m_runnable`, `m_loops`, `m_listeners`, `m_timeout` | `start`, `exec`, `quit`, `requestQuit`, `waitForFinished` | creates and joins the loops; `requestQuit` reaches into every loop's epoll from the main thread |
| Event loop (`core/eventloop.cpp`) | `m_queue`, `m_errorQueue`, local to `exec` | `exec`, `processQueue`, `processErrorQueue`, `processTimeoutQueue`, destructor | Epoll, timers, sockets, services, event handler |
| Epoll (`core/epoll.cpp`) | the kernel's epoll instance, `m_count` | `insert`, `erase`, `epoll`, `count` | kernel |
| Timers (`util/timermanager.h`) | `m_list`, a list kept in order by insertion; a reference to `m_timeout` | `start`, `restart`, `destory`, `checkout`, `takeFirst` | clock; the user data point at sockets |
| Sockets (`abstract/abstractsocket.cpp`, `core/tcpsocket.cpp`, `core/sslsocket.cpp`) | descriptor or `SSL*`, `m_times`, `m_timer` | `read`, `write`, `sendStream`, `sendFile`, `accept`, `close`, `listen` | kernel, OpenSSL |
| HTTP services (`http/httpservices.cpp`) | `m_services`, `m_defaultHandler`; a `thread_local` request, response, buffer | `addService`, `setDefaultService`, `process`, `callHandler` | sockets, handlers |
| HTTP request (`http/httprequest.cpp`) | raw data, views into them, arguments, headers | `parse`, `reset`, `parseRange` | services, handlers |
| HTTP response (`http/httpresponse.cpp`) | state, headers, body, `m_isKeepAlive` | `setBody` (text, stream, file), `setHttpState`, `setRawHeader`, `setKeepAlive`, `reset`, `toRawData`, `replyRange` | handlers, services |
| Handlers (`main.cpp`) | none | `/hello`, `/adder`, `/post`, HEAD and GET of shared files | request, response, shared files |
| Shared files (`util/sharedfilepool.cpp`) | `m_pool`, `m_invalidPaths` under a `shared_mutex` | `get`, destructor | handlers of all loops, file system |
| Thread pool (`util/threadpool.h`) | queue, `m_stop`, mutex, condition variable | `enqueue`, destructor, workers | not used by the server |
| Signals (`main.cpp`) | none | `signalHandler` | `quit`, `requestQuit` |
| Events (`util/event.h`) | thread-local events | handed to the installed handler | event loop |
| Helpers (`util/util.h`, `headermap.h`, `backtrace.*`, `http/url.h`) | none | string functions, stack traces | all |

What is hard about it:

* Loops share listeners with `EPOLLEXCLUSIVE`, and an edge is reported once.
  Data, hang-ups and clients that arrive between `accept4`, `epoll_ctl`, `read`
  and `epoll_wait` have to leave a trace.
* Sockets are deleted in five places while queues, timers and epoll events keep
  plain pointers to them.
* A loop ends by a counter. The main thread decrements it for listeners while
  the loop's own thread counts connections.
* All connections of a thread use one request object. What one of them leaves
  behind is there for the next.
* Sockets do not block: every transfer may be short, and so may the TLS
  handshake.
* Descriptors are numbers that the kernel gives out again at once.
  `requestQuit` closes listeners while loops accept from them.
* `SharedFilePool::get` releases its lock three times on the way.

What makes each component correct:

* event loops: nothing points at a deleted socket; every open connection has one
  owner and one timer; no event is lost; `process` is called only when there is
  something to read; connections are closed for a reason a client can name;
* life cycle: `quit` ends the server, `requestQuit` ends it after its last
  connection and cuts none off;
* timers: the list is ordered without ever being sorted, and `checkout` takes
  exactly what has run out;
* sockets: what was read is what was sent, in order; what is reported as sent was
  sent; every descriptor and every TLS handle is in one hand and is given back
  once;
* HTTP: a request is understood as the client meant it, and its handler gets
  the request of the connection it answers; the choice of handler does not
  depend on the order of registration; an answer has nothing of an earlier one;
  the client is told whether the connection stays and where the next answer
  begins; the part of a file that is sent is the one asked for and lies in the
  file;
* shared files: a reply's descriptor is open and the right one; the tables keep
  their limits; an iterator is used while it is valid;
* thread pool: each task runs once, the destructor ends.

The `hazards` of `PROJECT.json` list the places in the code where these can go
wrong. Under `properties` stand those that would notice, and no others: where the
code does go wrong, the property of the run leaves the case out (section 3,
"Conditions"), the hazard has none, and its note names the configuration beside
the runs that shows what happens.

## 2. The modules

    TimerList ------- TimerManager ----(implements)---- TimerSet
        |                  MCTimerManager
        +--- EventLoop --- WebServer ---(implements)---- ConnectionService
        |                  MCWebServer
        |
        +--- TimerListProofs --+-- TimerManagerProofs
                               +-- WebServerProofs

    SocketRead (SocketReadProofs)                  a thread that reads
    Sockets (MCSockets, SocketsProofs)             descriptors, from listen to exit
    HttpRequest --- HttpServices (MCHttpServices, HttpServicesProofs)
                                                   one thread, several connections
    SocketWrite --+
    HttpRange ----+-- Answer (MCAnswer, AnswerProofs)
    HttpResponse -+                                from handlers to the bytes sent
    SharedFilePool (MCSharedFilePool) --+          the threads of all loops
    ThreadPool (MCThreadPool) ----------+-- PoolProofs
                                                   a pool and its owner

**TimerList** has the sequence operators `start`, `restart` and `checkout` are
made of: where a timer is put (`StartPoints`, `RestartPoints`), `Emplace`,
`Splice`, and how `checkout` splits the list. Both TimerManager and EventLoop
use them, so the timers of the loops are those of the timer module.

**TimerManager** adds the clock, `m_timeout` as the reference every timer
keeps, and what the loop does with the timers it gets. **TimerSet** is the same
without a list: a set of users with deadlines. `ImplementsTimerSet` is the
refinement.

**EventLoop** is one thread per loop. `pc` is where it stands in `exec`
(`while`, `epoll`, `serve`, `accept`, ...); a step ends where the thread reads or
writes something that others change: the test of the `while`, `epoll_wait`, each
socket of a queue, each `accept4`, `checkout`. What the code does to a
socket in one go - erase from epoll, destroy the timer, send the event, delete -
is one step, because nobody else sees the middle. The kernel is `interest`,
`ready`, `listening`, `failed`, `backlog`; `Edge` puts a socket on ready lists,
`epoll_wait` takes up to `MaxEvents` off. The clients connect, send, hang up.
`left` counts ticks to each deadline, which keeps the clock bounded.

**WebServer** adds the main thread. A signal handler runs on top of it: while
`toErase` or `toClose` is not empty the main thread does nothing else, and
the loops go on (`requestQuit` makes one `unregisterListeners` and one
`close` per step, so a loop may run between any two). `told` remembers which
loops requestQuit has found in `m_loops`, and is read by properties only. The
signals come to the main thread because the kernel delivers process signals there.
`StartLoop` makes a loop, registers the listeners with it and starts its thread in
one step, since nobody can tell a thread that has not run yet from one that was not
created. A `requestQuit` between these calls erases listeners that are inserted
behind it, and closes them: the count comes to 0 with nothing registered, as when it
comes between `StartLoop` and the first step of the thread.

**ConnectionService** is what a client sees: accepted or refused once, served,
closed once and for a reason. No queue, timer or loop appears in it;
`requestQuit` is not a reason to close a connection. `ImplementsService` maps
`conn`, `unread` and `Timeout - left` to it.

**SocketRead** is one call of `read` at a time with bytes that are numbered, so a
property can say which bytes arrive where; `kind` says whether the socket is a
`TcpSocket` or an `SslSocket`. `Drained` is what entitles EventLoop to treat
`process` as reading everything (`ReadAll`).

**Sockets** follows the descriptors and the SSL objects. The kernel is `table`,
which says what each number is, and gives out the lowest free one. The main
thread calls `listen` for each listener, with every system call failing or not,
starts the loops, closes the listeners (`requestQuit`, in the three steps of
`close`: take the number out of the socket, `::close`, go on), and deletes
everything. The loops are reduced to what makes and deletes sockets: the test of
`isValid`, reading the number, `accept4`, the constructor with its TLS
handshake, registration, `delete`. A pool's files take numbers, too. Which loop
does what when is EventLoop's concern.

**HttpRequest** is `parse` as operators over tokens: a delimiter or a run of
other characters. `ReferTil` is `Util::referTil` with its maximum, `Arguments`,
`ParseRequestLine` and `ParseRequestHeaders` are the functions of these names;
places may lie behind the data, as the offsets of the code may. `Word` says what
a word is without case and without escapes, so that a configuration chooses the
words. `Values` is the header table: names compare without case and the first
one stays.

**HttpServices** is `process` with the request's `m_rawData`, `m_body` and
arguments, which outlive a connection. Clients write requests that the network
cuts at the places `Cuts`, or garbage; a token remembers its connection. A
request is `WellFormed`: no word of it contains the delimiter behind it, the
method has less than 8 characters, and `close` is what its first `Connection`
header says. TLC evaluates this for the requests of an instance
(`RequestsAssumption`), and the proofs rest on it. The two phases `setup` and `serving` are the registration
and `exec`. What is written as an answer is one step here, and Answer's subject.

**Answer** is the other half of `process`: the handlers of `main.cpp` fill in the
thread's response (**HttpResponse** has the setters as operators on a record),
the head with a text is written, then a stream or a file is sent. The calls of
a socket are those of **SocketWrite**, where the kernel's send buffer fills and
the peer drains it; data are numbered from 1 in each call, and 0 is a unit that
is none of the data. The next request comes on the same connection when it was
kept, else on a new one, with the same response object. **HttpRange** is
`parseRange` and `replyRange` over numbers modulo `SIZE`. Some handlers are not
`main.cpp`'s but such as the interface allows: streams that are fresh, partly read
or bad, and a state above 500. The pool has remembered the size and the date of
its file, which somebody may truncate once.

**SharedFilePool** has one action per locked section of `get` and one per
unlocked step between them. An iterator stands for one entry (no two have the same
descriptor, so that tells them apart). `get` uses it behind the lock: `Deref` reads
the entry if it is still in the table; of an entry that another thread has erased
meanwhile `DerefErased` reads any number, or ends the program, and `stale` remembers
that. An exception that nothing catches ends the behaviour (`InsertThrows`, also
`HandlerThrows` in Answer).

**ThreadPool** splits `wait(lock, predicate)` into the test and the wait; the
mutex is held in between, but the destructor does not take it.

Definitions named `X_y` next to `X` are faulty variants of `X`: each property
of a passing run is violated when one of them takes the place of `X`
(`mutants` of `PROJECT.json`).

## 3. The runs

All bounds are constants. "Pass" means that TLC explores every reachable state.

| Run | Instance | Shows |
|---|---|---|
| `timer_manager` | 3 users, 5 ticks, timeout 1 or 2, never lowered | list ordered, `checkout` exact, implements TimerSet |
| `server_quit` | 2 loops, 1 listener, 2 clients, `quit` and one `requestQuit` in any phase | pointers, owners and timers, events, backlog, no call of `process` for nothing, the count of a loop, graceful end, implements ConnectionService |
| `server_errors` | 1 loop, HTTP and HTTPS listener, 2 clients with 2 requests each; `accept4`, handshake and listeners may fail | the proved invariant, timer order, event protocol |
| `server_live` | 2 loops, 1 client with 2 requests, fairness | the backlog is served, every accepted connection closes, both ways to quit finish |
| `thread_pool` | 2 workers, 3 tasks, fairness | each task once; a finished destructor means all have run; every task runs |
| `file_pool` | 2 threads, 3 files, tables of 2, a file that changes | limits, and the descriptor of a reply whose entry was there |
| `socket_read` | TCP and TLS, buffer of 2, up to 6 bytes in any pieces, 2 interrupts, fairness | over TCP nothing is stored outside the buffer and what is read is what was sent; drained or an edge pending; `read` comes back unless interrupted |
| `sockets` | 2 loops, an HTTP and an HTTPS listener, 2 clients, 4 descriptors, 1 file | descriptors and handles are in one hand and given back once; a connection over TLS is registered after its handshake |
| `http_services` | 4 registrations in any order, a GET and a POST request, 3 cuts, garbage, 2 connections with 4 pieces in all, failing writes, states above 500, `m_maxTimes` 1 | choice of handler, own request, whole requests understood, one answer behind the limit and no more |
| `answer` | TCP and TLS, 2 requests in a row of any kind, files of 0, 1, 3, 6, numbers of 3 bits, all Range headers over 0..8, send buffer 4, up to two drains per call | a prefix is sent and success is exact; nothing of an earlier answer; the part of a file lies in the file and, when proper, is as asked; client and server agree where the next answer begins |

`IInv` of `server_errors` contains the `TypeOK` of WebServer. The invariants that
the other proofs rest on contain the `TypeOK` of their modules. They are checked by
configurations beside the runs, on the instances of the runs; TLC finds no error:

| Configuration | Module | Invariant |
|---|---|---|
| `timer_inv.cfg` | MCTimerManager | `TimersInv` |
| `server_inv.cfg` | MCWebServer | `QueuedForAReason` |
| `file_pool_inv.cfg` | MCSharedFilePool | `FilesInv` |
| `socket_read_inv.cfg` | SocketRead | `ReadInv` |
| `answer_inv.cfg` | MCAnswer | `AnswerInv` |

`PoolInv`, `SocketsInv` and `ServicesInv`, which contain the `TypeOK` of ThreadPool,
Sockets and HttpServices, have no configuration of their own: they take the place of
the invariants of `thread_pool.cfg`, `sockets.cfg` and `http_services.cfg`. They hold
in all 1 848, 1 468 870 and 96 620 states of these instances, as `CountedFit` does
in the last, and `SocketsInv` in those of `sockets_fails.cfg`,
which has a descriptor 0, as well.

Two runs end in a violation: the code does not do what the repository says of it
(`findings` of `PROJECT.json` quotes the sentence).

| Run | What TLC finds |
|---|---|
| `server_quit_failed_listener` | `requestQuit` after a listener has failed undercounts; a loop ends with a connection open |
| `thread_pool_destroy` | a notification between a worker's test and its wait is lost; the destructor hangs |

The remaining configurations in this directory are instances beside the runs. Each
checks stronger forms of properties, which the code does not have; TLC finds
each of them violated. They are the reason for the conditions of the properties
above. TLC stops at the first: leave one in the file to see its behaviour.

| Configuration | Property | What TLC finds |
|---|---|---|
| `timer_shrink.cfg` | `CheckoutExact` | `setTimeout` with a smaller value during the run leaves the timer list unordered; `checkout` misses a timer |
| `server_quit_twice.cfg` | `GracefulExit` | the second `requestQuit` undercounts; a loop ends with a connection open |
| `server_quit_starting.cfg` | `RequestQuitFinishes` | `requestQuit` during `start`: a later loop never ends |
| `server_half_close.cfg` | `LastRequestServed` | a client sends a request and closes its side: the error queue wins over the data and the request is not served |
| `read_fails.cfg` | `ReadReturns` | end of data with an old `EINTR` in `errno`: `read` never returns |
| | `ReadDelivers` | what TLS delivered is dropped when a record is shorter than the buffer |
| `file_pool_fails.cfg` | `IteratorValid` | an iterator is dereferenced after another thread has erased its entry |
| | `AlwaysReturnedIsOpen` | and the reply shows a number that is no descriptor, or another file's |
| | `NothingLeaked` | the descriptor of an evicted entry is never closed, and neither is the second one of a file that two threads opened |
| | `FoundIfThere` | a file that has appeared since it was looked for is not found |
| `sockets_fails.cfg` | `DescriptorsOwned` | with descriptor 0 among the numbers: a socket that gets 0 counts as invalid and is not closed |
| | `NoHandleLost` | the SSL object of a socket that could not listen is not freed |
| | `ClientServed` | a TLS client whose next message is not there when `SSL_accept` looks is dropped |
| `http_fails.cfg` | `AlwaysOwnRequest` | what is left of a refused request becomes the beginning of the next one, of any connection of the thread |
| | `OwnArguments` | the arguments of a refused request are parsed again, and are there twice |
| | `WholeIsUnderstood` | behind garbage a good request is refused or misread |
| | `HandledIsComplete` | a request that is cut behind a header line is handled before the rest has come |
| | `OwnBody` | a request without body shows the body of the one before |
| | `HandledIsAnswered` | a response with a state above 500 is never written |
| | `MaxTimesKept` | one request more than the maximum is served |
| | `ToldTheTruth` | the last answer that the limit allows promises keep-alive, and the connection is closed |
| `answer_fails.cfg` | `SentIsPrefix` | after a short `::write` memory behind the string is sent; over TLS zeros behind the end of a truncated file |
| | `SuccessExact` | a stream of a multiple of the buffer is sent and reported as failed |
| | `PartIsMapped` | a part of a file that does not start at a page is not mapped |
| | `OneByteServed` | `bytes=n-n` is taken for `bytes=n-` |
| | `LongRangeServed` | a range that ends behind the file is answered with the whole file |
| | `AlwaysInSync` | of a stream that is partly read less is sent than announced, on a connection that is kept |
| | `LengthIsTold` | 405, an empty file and an empty post are answered without a length on a connection that is kept |
| | `NotModifiedIsTrue` | 304 is answered for a file that has changed since the pool opened it |

### Why the bounds are enough

* Two loops are what sharing a listener needs; two clients are what it takes for
  a queue, a timer list or a backlog to hold more than one, and for one to
  time out while another is served. `server_errors` has two requests per client so that
  a timer is restarted behind and before others.
* `MaxEvents` is 2 with three or four sockets: `epoll_wait` leaves some behind.
* `CountMod` is 8, more than listeners and connections together: `m_count` wraps
  only when it is decremented below zero, as with a 32-bit `unsigned`.
* `Timeout` is 1 or 2 ticks, so timers expire in the same and in different turns.
* A table of two with three files evicts; two threads are two readers, or a
  reader and a writer, of one entry.
* A buffer of two bytes and six bytes sent gives reads that are empty, short,
  full, and full twice, in any order with the arrivals.
* `http_services` has four pieces in all: a cut request and its rest on each connection,
  in any order, or on one of them as many requests as it takes to go over the limit of
  one, with one more. The cuts are behind the method, the LF of the first line and
  the CR of the last one: before, between and inside the things the parser looks
  for. The POST request has an escape, arguments, a body and two `Connection` headers
  in different case.
* `answer` has two requests in a row, so that what is left of one meets the next,
  and files that need no, one or several writes into a send buffer of four.
  Three bits have every relation between start, end and total, and the wrap.
* `sockets`: with both listeners and two clients four descriptors are all taken,
  so that the last `accept4` and the file find none, and the two loops race for
  the number of a listener that is being closed. One address makes the list end
  behind a failure.

### Conditions of the results

* `NoLostBacklog`, `BacklogServed` and the liveness of `server_live` are
  checked with `AcceptMayFail = FALSE`. When `accept4` fails with `EMFILE`, the
  accept loop ends with clients waiting and nothing wakes it before the next
  client connects; with `TRUE` these properties do not hold.
* `GracefulExit` is checked for one `requestQuit` and listeners that do not
  fail; `server_live` has it while the main thread waits in `waitForFinished`.
* `CheckoutExact` is checked for timeouts that are not lowered during the run.
* `QuitFinishes` speaks of a `quit` after `start` has set `m_runnable`; one that
  came before is overwritten (webserver.cpp:43).
* Signals arrive on the main thread. A `requestQuit` from another thread would
  race with `m_loops.clear()`; this is not modelled.
* `TcpReadDelivers` is about TCP, and `UninterruptedReadReturns` about threads
  none of whose system calls was interrupted.
* `CallSendsPrefix` leaves out a `TcpSocket::write` during which the peer made room
  (`Refilled`), `CallSuccessExact` streams that end in an empty chunk
  (`EndsEmpty`), and both the mapping of a file that has lost some of the part
  (`PartLost`). `leftSize` that has wrapped is shown as a negative number.
* `InSync` leaves out streams that are partly read, and says nothing of answers
  without a length.
* `OwnRequest` and `UnderstoodWhole` leave out the call of a handler that comes
  next after a refused request. Headers of a refused request stay in the table as
  views of data that may have moved: what such a call finds under `Connection` is
  a free choice.
* `sockets` has descriptors from 1 (0 is standard input), and `HandlesOwned`
  counts the handles of sockets that could not listen as lost.
* `getaddrinfo` is taken to give an empty list when it fails; the code walks and
  frees an uninitialised one then (abstractsocket.cpp:85).
* `ReturnedIsOpen` leaves out replies that were read from an erased entry (`stale`);
  with fewer files than `MAX_SHARED_FILE` there are none (`SafeWhileNotFull`).
* `AnswersAreLimited` allows the one answer more than the limit that `<=` gives
  (httpservices.cpp:106).
* `PartOfFile` compares with the size that the pool remembers. A file that has been
  truncated since then is the subject of `CallSuccessExact` and `InSync`.

### Deadlock

TLC checks for deadlock in the server and timer runs; `Finished` is the only
state of WebServer that may go on for ever without a step. The other
configurations say `CHECK_DEADLOCK FALSE` because their systems stop: requests
that have all been answered, a server that has given everything back, a pool
whose owner has joined it (or waits for ever, which `DestructorJoins`
shows), clients that have sent all they may, a program that was terminated.

### Fairness

* WebServer: weak fairness for the main thread, each loop and the clock. The
  operating system schedules the threads, and `epoll_wait` has a timeout, so a
  loop always takes its next step. Clients and signals are not fair: a client
  may stay silent for ever.
* ThreadPool: weak fairness for each worker and for the owner's notifications
  and join. The owner need not enqueue or stop, and nobody wakes spuriously by
  force. Lock contention does not need strong fairness here, as the number of tasks is
  bounded and so is the number of times the others take the mutex.
* SocketRead: weak fairness of the thread.

## 4. The proofs

Each theorem holds for every value of the constants that the assumptions of the
modules allow (finitely many listeners, disjoint from the connections; `nullptr` is
no socket; sizes and limits are numbers, positive where the code has them so).
Some need more, which the column "if" states: they do not hold of the code
without it (section 3). The bounds that are there for TLC
(`MaxSends`, `MaxTime`, `MaxBytes`, `MaxFd`, ...) are any numbers.

| Module | Theorem | Statement | If |
|---|---|---|---|
| TimerManagerProofs | `TimersInvariant` | `[]TimersInv` | |
| | `ListStaysOrdered` | `[]ListOrdered` | timeout not lowered |
| | `CheckoutTakesExactly` | `CheckoutExact`, an action property | timeout not lowered |
| | `ListImplementsTimerSet` | `ImplementsTimerSet`, a refinement | timeout not lowered |
| WebServerProofs | `ServerInvariant` | `[]IInv` | |
| | `ServerTypeOK` | `[]TypeOK` | |
| | `NoUseAfterDelete` | `[]NoDanglingPointer` | |
| | `OwnedAndTimed` | `[]OneOwnerOneTimer` | |
| | `HandlerSeesProtocol` | `[]EventProtocol` | |
| | `NoEventIsLost` | `[]NoLostEvent` | |
| | `ServedHasInput` | `[]NoIdleServe` | |
| | `QueuedIsDue` | `[]QueuedForAReason` | |
| | `TimersStayOrdered` | `[]TimersOrdered` | |
| | `NoClientIsForgotten` | `[]NoLostBacklog` | neither `accept4` nor listeners fail |
| | `CountIsExact` | `[]CountsFit` | listeners do not fail, one `requestQuit`, `m_count` is wide enough |
| | `ExitIsGraceful` | `[]GracefulExit` | the same |
| | `ServerKeepsPromise` | `ImplementsService`, a refinement | the same |
| PoolProofs | `PoolInvariant` | `[]PoolInv` | |
| | `NoTaskLostOrDoubled` | `[]TaskOnce` | |
| | `DestructorWaits` | `[]JoinedMeansDone` | there is a worker |
| | `FilesInvariant` | `[]FilesInv` | |
| | `TablesAreBounded` | `[]Bounded` | |
| | `HandlersSendTheRightFile` | `[]ReturnedIsOpen` | |
| | `SafeWhileNotFull` | `[](IteratorValid /\ AlwaysReturnedIsOpen)` | fewer files than `MAX_SHARED_FILE` |
| SocketReadProofs | `ReadInvariant` | `[]ReadInv` | |
| | `TcpStaysInBuffer` | `[]TcpKeepsToBuffer` | |
| | `TcpDelivers` | `[]TcpReadDelivers` | |
| | `NothingIsLeft` | `[]Drained` | |
| AnswerProofs | `AnswerInvariant` | `[]AnswerInv` | |
| | `AnswersAreOwn` | `[]OwnAnswer` | |
| | `CallsSendPrefixes` | `[]CallSendsPrefix` | |
| | `SuccessIsExact` | `[]CallSuccessExact` | |
| | `PartLiesInFile` | `[]PartOfFile` | |
| | `RangeIsServed` | `[]RangeServed` | |
| | `ClientStaysInSync` | `InSync`, an action property | |
| SocketsProofs | `SocketsInvariant` | `[]SocketsInv` | |
| | `EveryDescriptorIsOwned` | `[]DescriptorsOwned` | 0 is not among the descriptors |
| | `EveryHandleIsOwned` | `[]HandlesOwned` | |
| | `HandshakeIsDone` | `[]HandshakeDone` | |
| HttpServicesProofs | `ServicesInvariant` | `[]ServicesInv` | |
| | `AnyOrderOfRegistration` | `[]OrderOfRegistration` | |
| | `HandlersSeeOwnRequest` | `[]OwnRequest` | |
| | `AnswersStayLimited` | `[]AnswersAreLimited` | |
| | `WholeRequestsAreUnderstood` | `UnderstoodWhole`, an action property | |

"`m_count` is wide enough" means that there are finitely many clients and fewer
sockets than `CountMod`, as with 2^32. The pool of no worker is what
`hardware_concurrency()` gives when it does not know; such a pool's destructor
comes back at once.

### Along which arguments

**The lists.** `TimerListProofs` proves for lists of any length what `Emplace`,
`Splice`, `RemoveAt` and the split of `checkout` do to the users on the list: which
are on it afterwards, and that nobody is on it twice. Both timer modules cite it.

**Timers.** `ListOrdered` alone is not inductive: `start` and `restart` walk from
the end of the list past later deadlines only, so where they stop says nothing
unless the new deadline is known to be late. `TimersInv` adds that no deadline is
later than `now + m_timeout`, which is where a timer is put next; this is what a
lowered timeout breaks, so it stands under `~TimeoutMayShrink`. It also says
that nobody is on the list twice, or on it and handed over. `checkout` looks at
the front only; on an ordered list that is the set of those whose time is over,
which gives `CheckoutExact` and the step of the refinement for `Checkout`.
`start` and `restart` are one step of `TimerSet`, `Arm`, and `destory` and
`takeFirst` another, `Disarm`.

**The server.** `NoDanglingPointer` alone is not inductive. When a loop deletes a
connection that it finds in its error queue, one must know that no other queue,
timer or loop holds it. So `IInv` adds: every open connection is registered with
one loop (`OneOwner`); what a loop has registered is what has a timer there,
plus what `checkout` has just moved to the error queue (`OneTimer`); queues and
ready lists hold registered sockets only, and are empty where the thread is past
them (`QueuesFit`); backlogs are disjoint and hold clients that were not yet
accepted (`BacklogFits`). `CloseOneInv` is the common part of the three ways a
loop closes a connection: it is taken out of its one loop's queues, timers and
epoll, hence out of everything. There is one lemma per action, and under it one
step per conjunct; `NextInv` puts them together.

**Events.** The second half of `WebServerProofs` rests on `IInv`.
* A socket is in a queue because of something `epoll_wait` saw, and others act
  before the loop comes to it. `QueuedForAReason` says what is still true then:
  input is unread, and a hang-up that came since is on the ready list
  again; who is in the error queue has hung up or, after `checkout`, is out of
  time. With it `NoLostEvent` is inductive: the loop that takes a socket
  off a queue reads all of it or closes it.
* `TimersOrdered` is the argument of TimerManager for every loop, over
  `left`, the ticks that remain, under a fixed timeout.
* A backlog is forgotten if all loops believe that another one was woken.
  `NoLostBacklog` needs `ListenersFit`: a listener that was closed has no
  backlog, and only `requestQuit` and the end of the server close one. It is false
  for an `accept4` that fails, hence the condition.
* `GracefulExit` is about the moment when a loop finds its count at zero. It
  needs `CountsFit`: `m_count` is the number of the loop's connections and of
  its listeners that are not unregistered yet: all of them for a loop that no
  `requestQuit` has found in `m_loops` (`told`), else those still in `toErase`. That
  one is inductive only with `ListenersFit` and with `NotStarted` (nothing of this goes on before
  `start`), and only while no listener is erased twice, which a failing
  listener or a second `requestQuit` does.
* `ServerKeepsPromise` maps every action of the server to an action of
  ConnectionService or a stutter. The closing steps are the work: the reason the
  service allows (a request, a hang-up, a timeout that has run out) comes from
  `QueuedForAReason`, and that a loop's destructor closes connections only after
  `quit` from `GracefulExit`. `requestQuit` and what it does to the loops stutter.

**Thread pool.** A task is in the queue, in the hands of one worker, or done.
`JoinedMeansDone` needs that a worker who has returned saw an empty queue
behind `m_stop`, and that nothing is enqueued behind it (`PoolInv`).

**Shared files.** `get` is a chain of locked sections; between them other threads
evict entries and open the same file. `FilesInv` follows each descriptor through
the chain (`HoldsOpen`): what a thread has opened, or read from an entry that was
there, is open and of that file. It stays so because nothing but the
destructor closes a descriptor - that entries leak (`NothingLeaked` fails) is why
`ReturnedIsOpen` holds when the entry is evicted behind the reading. An entry that
is evicted before it is read makes the reply worthless, and no invariant forbids
that. Only a table that never fills does: `NeverFull` counts its entries against the
files there are, and `SafeWhileNotFull` follows. `Bounded` needs that the tables are finite and that
insertion and eviction are one section.

**Reading.** `TcpReadDelivers` speaks of the string that is parsed; a turn of `read`
moves bytes through a room of `SOCKET_BUF_SIZE` that is appended to it. `ReadInv`
says where the bytes are in between: while the room is filled, string and room
together are what was taken since the event, and `leftSize` is what is free.

**Answering.** `CallSuccessExact` is about a call's end. `SentFits` says at every place
within the call how many units were sent (`Len(sent)` against `buf`, `leftSize`
and `Offered`, which is the end of what `write` was given so far), and that
up to `Offered` they are the data and behind it are not. So a
`TcpSocket::write` that is refilled has sent too much and cannot report the
right count: `SuccessIsExact` needs no exception for it. `AnswerInv` connects the
call with the response: the response is fresh between requests, and the call
being made is the one that its body asks for. What `ReplyRange` gives is proved in
two lemmas, `ReplyInFile` and `ReplyAsAsked`, for numbers modulo any `SIZE`. `InSync` follows at the step
that keeps the connection: it is taken only after a call that has succeeded.

**Descriptors.** `DescriptorsOwned` counts who holds a number: a socket, a thread
that has just accepted it, or the `close` that has taken it out of its socket. A step
that frees a number must be the only one that can. So `SocketsInv` says first who
may delete a socket: the main thread what it has in `listen` or among its
listeners, a loop what it is constructing or has registered, nobody else
(`OneOwner`). Then it says which of them hold a number and an SSL object at which
place (`DescriptorsFit`), and that a number has one holder, by name (`InOneHand`;
the count follows). A loop that has read the number of a listener which
`requestQuit` is closing has a copy that is no hand: it only gives it to `accept4`.
A socket that gets 0 looks like one without a number, and nobody gives that back;
hence the condition of `EveryDescriptorIsOwned`. `HandlesOwned` is the same
argument over the objects that hold an SSL object, and `HandshakeDone` needs what
`SSL_accept` has returned when the loop comes back from it (`HandshakeFits`).

**Services.** `addService` and the two kinds of `setDefaultService` make an entry of
`m_services` when they find none. `ServicesFit` says what the map and the default
are in terms of the set of what was registered, which has no order; each of the
three calls preserves it, and what `callHandler` finds follows (`HandlerFound`).
`OwnRequest` needs that nothing is left of another connection's data when a
request arrives: `ServicesInv` says that `m_rawData` and the arguments are empty
unless the last request was refused, and that what waits in a socket came on
its connection. `AnswersAreLimited` needs `CountedFit`: an answer is never written
that was not counted, and a connection that stays open is not over its limit.

**Parsing.** `UnderstoodWhole` compares what `parse` makes of data with the request
that a client meant, for requests of any length. One half says where everything
is in what was written (`MessagePlaces`: n arguments take 2n places, m headers
6m), the other follows the parser over these places (`RequestParsed`, from
`LineParsed`, `RequestHeadersParsed` and `KeepAliveRead`). The recursive functions in
between - the arguments, the headers, the length of a word, `FlattenSeq` - need an
induction that the installed provers cannot take from the library, because its
theorems have operators as parameters. The proofs use a least counterexample
instead (`LeastNumber`, which follows from `WFMin`, a theorem about sets): that the
function exists is shown from the places where it does not (`ArgumentsExist`,
`HeadersExist`, `JoinExists`), and what it gives from the places where it gives
something else. The parser is proved for requests that arrive whole and behind
nothing else; for the others the runs show what happens.

### Only model-checked

All liveness: `OpenEventuallyCloses`, `BacklogServed`, `RequestQuitFinishes` and
`QuitFinishes` of `server_live`, `TasksRun` of `thread_pool` and
`UninterruptedReadReturns` of `socket_read`. Fairness and `ENABLED` are not
supported by the provers. Every other property of a passing run is a theorem, for
some under the condition in the table.

## 5. Not modelled

* The Windows, macOS and BSD branches (`WSAPoll`, `kqueue`, `TransmitFile`).
* Socket options (`TCP_CORK`, `SO_LINGER`), host names and ports, what OpenSSL
  does inside a call.
* `uriUnescape` character by character: `Word` lists what becomes of the words
  of an instance. Requests of more than `MAX_REQUEST_SIZE` (a constant that
  nothing uses).
* The texts of headers, dates and MIME types, and what a body says.
* The memory of bodies: `HttpResponse` makes a new body in the place of the old
  one without destroying that, so a long text or a stream is never given back.
* `uri.back()` of an empty URI (main.cpp:163), which is undefined.
* Backtraces, hexadecimal numbers, event objects: functions without state.
* The registration of signals in `main.cpp` (only `SIGINT` is registered,
  although `signalHandler` knows `SIGUSR2`), and the `SIGPIPE` action, whose
  flags are not set.
* A `requestQuit` from a thread other than the main one.

## 6. Plan

Done first, because most can go wrong there: timers, event loops, life cycle and
their invariant; then sockets, HTTP services, shared files, thread pool; then
the parser in place of an abstraction of it, the response and the handlers on
top of the socket's writes, and the descriptors from `listen` to the end.

Then the proofs: first each invariant, then the refinements, the descriptors and,
last, the parser.

Next, in this order:

1. `requestQuit` from a thread of its own, the registration of signals, a second
   `exec` after the first has returned.
2. A composition of SharedFilePool with the transfers that use its descriptors
   while another thread evicts the entry.

Worth proving when these are there: that the invariants of the parts still hold
in the composition, and that data in pieces which end in the middle of a
line are refused and never misread.
