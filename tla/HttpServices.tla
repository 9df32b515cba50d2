----------------------------- MODULE HttpServices -----------------------------
(***************************************************************************)
(* HttpServices::process (src/http/httpservices.cpp) with the HttpRequest  *)
(* it works on, in one thread of the server: the registration of handlers, *)
(* then requests of several connections, served one after the other with   *)
(* the same thread_local objects.                                          *)
(*                                                                         *)
(* A client writes whole requests, in as many pieces as the network makes  *)
(* of them, or garbage.  What arrives are the tokens of a piece, from a    *)
(* first one to a last one; a token remembers its connection.              *)
(***************************************************************************)
EXTENDS HttpRequest, FiniteSets

CONSTANTS
  Conns,
  Requests,       \* what clients write: [method, uri, args, headers, close, body]
  Garbage,        \* and something that is no request
  Cuts,           \* bound: tokens behind which the network cuts a request
  Handlers,       \* the calls of addService and setDefaultService: [method, uri]
  m_maxTimes,
  m_isAutoKeepAlive,
  MinHandlers,    \* bound: registered before exec
  MaxPieces,      \* bound: pieces that all clients send
  WritesMayFail,  \* write, sendStream or sendFile may be short
  OddStates,      \* handlers may set a state of 501 to 599
  any,            \* no URI: a default handler; no method: the default of all
  none            \* no call; no token

ASSUME ServicesAssumption ==
  /\ m_maxTimes \in Nat
  /\ m_isAutoKeepAlive \in BOOLEAN
  /\ Garbage \in Seq(Text)
  /\ Requests \in Seq([method : Text, uri : Text, args : Seq(Text),
                        headers : Seq(Text \X Text), close : BOOLEAN, body : Seq(Text)])
  /\ Cuts \subseteq Nat \ {0}
  /\ MinHandlers \in Nat
  /\ MaxPieces \in Nat
  /\ WritesMayFail \in BOOLEAN
  /\ OddStates \in BOOLEAN
  /\ Handlers \subseteq [method : {h.method : h \in Handlers}, uri : {h.uri : h \in Handlers}]
  /\ \A h \in Handlers : h.method = any => h.uri = any  \* setDefaultService has neither
  /\ \A r \in DOMAIN Requests : <<Requests[r].method>> # any

\* The first Connection header says close.
Closes(headers) ==
  \E i \in DOMAIN headers :
    /\ SameName(<<headers[i][1]>>, <<"Connection">>)
    /\ \A j \in 1..i - 1 : ~SameName(<<headers[j][1]>>, <<"Connection">>)
    /\ Folded(<<headers[i][2]>>) = <<"close">>
\* What a client writes is a request: words with the delimiters between them.
WellFormed(r) ==
  /\ r.method # Space /\ Word[r.method].length < 8
  /\ r.uri \notin {"?", Space}
  /\ \A i \in DOMAIN r.args : r.args[i] \notin {"&", Space}
  /\ \A i \in DOMAIN r.headers :
       r.headers[i][1] \notin {":", CR} /\ r.headers[i][2] \notin {Space, CR}
  /\ r.close <=> Closes(r.headers)
ASSUME RequestsAssumption == \A r \in DOMAIN Requests : WellFormed(Requests[r])

VARIABLES
  phase,      \* "setup", then "serving"
  m_services, \* [set of methods -> [uris, default]]
  m_default,  \* m_defaultHandler
  added,      \* history: the handlers that were registered
  m_rawData,  \* of the thread's request
  m_body,     \* the tokens of m_rawData it is a view of, from first to last
  m_urlArguments,
  refused,    \* process has returned early since the last reset
  arrived,    \* what waits in each connection's socket
  sending,    \* the request each client is writing and the next place in it
  pieces,     \* pieces sent
  open,       \* the connection is open
  times,      \* AbstractSocket::m_times
  call,       \* history: the last call of a handler
  calls,      \* history: calls for each connection
  replies     \* history: answers written to each connection

services == <<m_services, m_default, added>>
request == <<m_rawData, m_body, m_urlArguments, refused>>
clients == <<sending, pieces>>
vars == <<phase, services, request, arrived, clients, open, times, call, calls, replies>>

\* What the three lambdas of the program answer when nobody registered better.
Status404 == <<"404", any, any>>
Status405 == <<"405", any, any>>
Handler(h) == <<"200", h.method, h.uri>>

\* A request as the client writes it.
Query(args) ==
  FlattenSeq([i \in DOMAIN args |-> <<IF i = 1 THEN "?" ELSE "&", args[i]>>])
HeaderLines(headers) ==
  FlattenSeq([i \in DOMAIN headers |-> <<headers[i][1], ":", Space, headers[i][2], CR, LF>>])
MessageHead(r) ==
  <<r.method, Space, r.uri>> \o Query(r.args) \o <<Space, "HTTP/1.1", CR, LF>>
  \o HeaderLines(r.headers) \o <<CR, LF>>
Message(r) == MessageHead(r) \o r.body

\* A token of the data: what is written on it and where it comes from.
Token == [text : Text, conn : Conns]
Messages == [r \in DOMAIN Requests |-> Message(Requests[r])]
Written(r) == IF r = 0 THEN Garbage ELSE Messages[r]
Tokens(c, r, first, last) ==
  [i \in 1..last + 1 - first |-> [text |-> Written(r)[first + i - 1], conn |-> c]]

Init ==
  /\ phase = "setup"
  /\ m_services = [x \in {} |-> 0]
  /\ m_default = Status405
  /\ added = {}
  /\ m_rawData = <<>>
  /\ m_body = <<1, 0>>
  /\ m_urlArguments = <<>>
  /\ refused = FALSE
  /\ arrived = [c \in Conns |-> <<>>]
  /\ sending = [c \in Conns |-> <<0, 1>>]
  /\ pieces = 0
  /\ open = [c \in Conns |-> TRUE]
  /\ times = [c \in Conns |-> 0]
  /\ call = none
  /\ calls = [c \in Conns |-> 0]
  /\ replies = [c \in Conns |-> 0]

-----------------------------------------------------------------------------
(* Registration. *)

\* Mutant of Entry: addService always makes a new entry.
Entry_new(m) == [uris |-> {}, default |-> Status404]
\* m_services[method], or what addService starts with.
Entry(m) == IF m \in DOMAIN m_services THEN m_services[m]
                                       ELSE [uris |-> {}, default |-> Status404]

SetEntry(m, e) ==
  m_services' = [x \in DOMAIN m_services \cup {m} |-> IF x = m THEN e ELSE m_services[x]]

AddService(h) ==
  /\ h.uri # any
  /\ SetEntry(h.method, [Entry(h.method) EXCEPT !.uris = @ \cup {h.uri}])
  /\ UNCHANGED m_default

SetMethodDefault(h) ==
  /\ h.uri = any /\ h.method # any
  /\ SetEntry(h.method, [Entry(h.method) EXCEPT !.default = Handler(h)])
  /\ UNCHANGED m_default

SetDefault(h) ==
  /\ h.method = any
  /\ m_default' = Handler(h)
  /\ UNCHANGED m_services

Register(h) ==
  /\ phase = "setup"
  /\ h \notin added
  /\ added' = added \cup {h}
  /\ AddService(h) \/ SetMethodDefault(h) \/ SetDefault(h)
  /\ UNCHANGED <<phase, request, arrived, clients, open, times, call, calls, replies>>

Exec ==
  /\ phase = "setup"
  /\ Cardinality(added) >= MinHandlers
  /\ phase' = "serving"
  /\ UNCHANGED <<services, request, arrived, clients, open, times, call, calls, replies>>

-----------------------------------------------------------------------------
(* process(socket). *)

\* callHandler: by method, then by URI.
CallHandler(method, uri) ==
  IF method \in DOMAIN m_services
  THEN IF uri \in m_services[method].uris
       THEN Handler([method |-> method, uri |-> uri])
       ELSE m_services[method].default
  ELSE m_default

\* addTimes, when there is a limit.
Counted(n) == IF m_maxTimes # 0 THEN n + 1 ELSE n

\* Mutant of KeepsOpen: the request is counted behind the test.
KeepsOpen_before(keepAlive, n) == keepAlive /\ n <= m_maxTimes + 1
\* response->isKeepAlive() && socket->times() <= m_maxTimes
KeepsOpen(keepAlive, n) == keepAlive /\ n <= m_maxTimes

\* Mutant of Cleared: reset forgets m_rawData.
Cleared_none(raw) == raw
\* reset() clears m_rawData.
Cleared(raw) == <<>>

\* The request is not valid: process returns false before there is anything that
\* would reset it.
Refuse(c, raw, parsed) ==
  /\ ~parsed.valid
  /\ m_rawData' = raw
  /\ m_urlArguments' = m_urlArguments \o parsed.args
  /\ refused' = TRUE
  /\ open' = [open EXCEPT ![c] = FALSE]
  /\ UNCHANGED <<m_body, times, call, calls, replies>>

\* m_body is set when something is left, and reset does not clear it.
Body(data, end) == IF end <= Len(data) THEN <<end, Len(data)>> ELSE m_body

\* What the response says.  The headers of a refused request stay in m_headers, as
\* views of data that may have moved: whether Connection is found is anybody's guess.
SaysKeepAlive(keepAlive) ==
  IF m_isAutoKeepAlive /\ refused THEN BOOLEAN ELSE {m_isAutoKeepAlive => keepAlive}

\* The response is written.
Replied(c, keepAlive) ==
  /\ replies' = [replies EXCEPT ![c] = @ + 1]
  /\ open' = [open EXCEPT ![c] = KeepsOpen(keepAlive, times'[c])]

\* Not all of it could be written.
WriteFails(c) ==
  /\ WritesMayFail
  /\ open' = [open EXCEPT ![c] = FALSE]
  /\ UNCHANGED replies

\* The response is not valid: process returns true and writes nothing.
NothingWritten ==
  /\ OddStates
  /\ UNCHANGED <<open, replies>>

\* The handler is called; afterwards the request is reset.
Answer(c, raw, parsed) ==
  /\ parsed.valid
  /\ m_rawData' = Cleared(raw)
  /\ m_urlArguments' = <<>>
  /\ m_body' = Body(raw, parsed.end)
  /\ refused' = FALSE
  /\ times' = [times EXCEPT ![c] = Counted(@)]
  /\ calls' = [calls EXCEPT ![c] = @ + 1]
  /\ \E keepAlive \in SaysKeepAlive(parsed.keepAlive) :
       /\ call' = [conn |-> c, raw |-> raw, end |-> parsed.end, body |-> m_body',
                   handler |-> CallHandler(parsed.method, parsed.uri),
                   args |-> m_urlArguments \o parsed.args,
                   keepAlive |-> keepAlive, behind |-> refused]
       /\ Replied(c, keepAlive) \/ WriteFails(c) \/ NothingWritten

\* read appends what has arrived to m_rawData.
Process(c) ==
  /\ phase = "serving"
  /\ open[c]
  /\ arrived[c] # <<>>
  /\ arrived' = [arrived EXCEPT ![c] = <<>>]
  /\ LET raw == m_rawData \o arrived[c]
         parsed == Parse(raw)
     IN Refuse(c, raw, parsed) \/ Answer(c, raw, parsed)
  /\ UNCHANGED <<phase, services, clients>>

-----------------------------------------------------------------------------
(* The clients. *)

Arrives(c, r, first, last) ==
  /\ phase = "serving"
  /\ open[c]
  /\ pieces < MaxPieces
  /\ pieces' = pieces + 1
  /\ arrived' = [arrived EXCEPT ![c] = @ \o Tokens(c, r, first, last)]
  /\ UNCHANGED <<phase, services, request, open, times, call, calls, replies>>

\* A request, or what is left of it, up to some place arrives.
SendRequest(c, r) ==
  LET length == Len(Messages[r])
      first == sending[c][2]
  IN
  /\ first > 1 => r = sending[c][1]
  /\ \E last \in {n \in Cuts : first <= n /\ n < length} \cup {length} :
       /\ sending' = [sending EXCEPT ![c] = IF last = length THEN <<0, 1>> ELSE <<r, last + 1>>]
       /\ Arrives(c, r, first, last)

SendGarbage(c) ==
  /\ Garbage # <<>>
  /\ sending[c] = <<0, 1>>
  /\ UNCHANGED sending
  /\ Arrives(c, 0, 1, Len(Garbage))

Send(c) == SendGarbage(c) \/ \E r \in DOMAIN Requests : SendRequest(c, r)

Next ==
  \/ \E h \in Handlers : Register(h)
  \/ Exec
  \/ \E c \in Conns : Process(c) \/ Send(c)

Spec == Init /\ [][Next]_vars

-----------------------------------------------------------------------------
(* Types.  Without a limit connections are not counted; no reply comes       *)
(* without a call of a handler.                                              *)
TypeOK ==
  /\ phase \in {"setup", "serving"}
  /\ added \subseteq Handlers
  /\ m_rawData \in Seq(Token)
  /\ refused \in BOOLEAN
  /\ arrived \in [Conns -> Seq(Token)]
  /\ sending \in [Conns -> (0..Len(Requests)) \X (Nat \ {0})]
  /\ pieces \in 0..MaxPieces
  /\ open \in [Conns -> BOOLEAN]
  /\ times \in [Conns -> IF m_maxTimes = 0 THEN {0} ELSE Nat]
  /\ calls \in [Conns -> Nat] /\ replies \in [Conns -> Nat]
  /\ \A c \in Conns : replies[c] <= calls[c]

(* Whatever the order of registration: the handler of a request is the one   *)
(* for its method and URI, else the method's default, else 404 when the      *)
(* method is known by some URI, else the default of all, else 405.           *)
Registered(m, u) == [method |-> m, uri |-> u] \in added
Chosen(m, u) ==
  CASE Registered(m, u) -> <<"200", m, u>>
    [] ~Registered(m, u) /\ Registered(m, any) -> <<"200", m, any>>
    [] ~Registered(m, u) /\ ~Registered(m, any) /\ (\E h \in added : h.method = m) -> Status404
    [] ~(\E h \in added : h.method = m) /\ Registered(any, any) -> <<"200", any, any>>
    [] OTHER -> Status405
OrderOfRegistration ==
  \A r \in DOMAIN Requests :
    LET method == <<Requests[r].method>>
        uri == UriUnescape(<<Requests[r].uri>>)
    IN CallHandler(method, uri) = Chosen(method, uri)

\* What parse took for the request line and the headers of the last call (the place
\* behind them may lie behind the data), and what the view of the body shows: behind
\* the data there are zeros or older data.
Handled == SubSeq(call.raw, 1, Min({call.end - 1, Len(call.raw)}))
Shown ==
  [i \in 1..call.body[2] + 1 - call.body[1] |->
     IF call.body[1] + i - 1 <= Len(call.raw) THEN call.raw[call.body[1] + i - 1] ELSE none]

(* A handler is called with a request that came on the connection it answers *)
(* (nothing of it was handled before: it would be another's then).           *)
Own == \A i \in DOMAIN call.raw : i < call.end => call.raw[i].conn = call.conn

(* That is so for the calls that do not come next after a refused request.   *)
OwnRequest == call # none /\ ~call.behind => Own

(* The inductive invariant: what registration has built; what waits came on  *)
(* its connection, and only a refused request leaves something behind.       *)
ServicesFit ==
  /\ DOMAIN m_services = {h.method : h \in added} \ {any}
  /\ \A m \in DOMAIN m_services :
       m_services[m] = [uris |-> {h.uri : h \in {k \in added : k.method = m}} \ {any},
                        default |-> IF Registered(m, any) THEN <<"200", m, any>> ELSE Status404]
  /\ m_default = IF Registered(any, any) THEN <<"200", any, any>> ELSE Status405
SendingFits ==
  \A c \in Conns : sending[c][2] > 1 =>
    sending[c][1] \in DOMAIN Requests /\ sending[c][2] <= Len(Messages[sending[c][1]])
AllOf(data, c) == \A i \in DOMAIN data : data[i].conn = c
ServicesInv ==
  /\ TypeOK
  /\ ServicesFit
  /\ SendingFits
  /\ \A c \in Conns : AllOf(arrived[c], c)
  /\ ~refused => m_rawData = <<>> /\ m_urlArguments = <<>>
  /\ call # none /\ ~call.behind => AllOf(call.raw, call.conn)

(* After one, the handler is called with the beginning of the refused        *)
(* request, which another client has sent (http_fails.cfg).                  *)
AlwaysOwnRequest == call # none => Own

(* The arguments of a call are those of its request; behind a refused one    *)
(* they were parsed twice (http_fails.cfg).                                  *)
OwnArguments == call # none => call.args = ParseRequestLine(Handled).args

(* Handlers are called when the headers are complete.  Not so when the data  *)
(* read so far end with a line (http_fails.cfg).                             *)
HandledIsComplete ==
  call # none => \E r \in DOMAIN Requests : Texts(Handled) = MessageHead(Requests[r])

(* The body a handler sees came behind its request.  Not so when the request *)
(* has none and one before it had (http_fails.cfg).                          *)
OwnBody == call # none /\ call.body[1] <= call.body[2] => call.body[1] = call.end

(* Every request that reached a handler and can be written is answered.  Not *)
(* so when the handler sets a state above 500 (http_fails.cfg).              *)
HandledIsAnswered == ~WritesMayFail => replies = calls

(* parse reads what the client wrote: a request that has arrived whole, in   *)
(* one piece, is handled as what it is - handler, arguments, body and wish   *)
(* to keep the connection - whatever the others have sent, if no request of  *)
(* the thread was refused since the last one that was handled.               *)
Understood(c, r) ==
  /\ calls'[c] = calls[c] + 1
  /\ call'.handler = Chosen(<<r.method>>, UriUnescape(<<r.uri>>))
  /\ call'.args = [i \in DOMAIN r.args |-> <<r.args[i]>>]
  /\ call'.keepAlive = (m_isAutoKeepAlive => ~r.close)
  /\ r.body # <<>> => Texts(Shown') = r.body
Processed(c) == arrived[c] # <<>> /\ arrived'[c] = <<>>
UnderstoodIfWhole(c) ==
  \A r \in DOMAIN Requests : Texts(arrived[c]) = Messages[r] => Understood(c, Requests[r])
UnderstoodWhole ==
  [][\A c \in Conns : ~refused /\ Processed(c) => UnderstoodIfWhole(c)]_vars

(* It is so after a refused request, too (http_fails.cfg: it is not).        *)
WholeIsUnderstood ==
  [][\A c \in Conns : Processed(c) => UnderstoodIfWhole(c)]_vars

(* A connection is kept for one answer more than setMaxTimes says, and not   *)
(* for more, however its requests were cut, refused or mixed with those of   *)
(* others.  Calls without an answer (NothingWritten) do not end it.          *)
AnswersAreLimited == \A c \in Conns : m_maxTimes # 0 => replies[c] <= m_maxTimes + 1

(* Why that holds: every answer is counted, and a connection that stays has  *)
(* not been answered more often than the limit says.                         *)
CountedFit ==
  m_maxTimes # 0 =>
    \A c \in Conns :
      /\ replies[c] <= times[c]
      /\ open[c] => replies[c] <= m_maxTimes
      /\ replies[c] <= m_maxTimes + 1

(* "Maximum number of requests per connection", unlimited when it is 0: one  *)
(* more is served (http_fails.cfg).                                          *)
MaxTimesKept == \A c \in Conns : m_maxTimes # 0 => calls[c] <= m_maxTimes

(* The client is told what happens: after an answer that promises keep-alive *)
(* the connection stays open, and it is closed after one that does not.  Not *)
(* so at the limit, which the head of the answer does not know of            *)
(* (http_fails.cfg).                                                         *)
ToldTheTruth ==
  [][\A c \in Conns : replies'[c] > replies[c] => (open'[c] <=> call'.keepAlive)]_vars
=============================================================================
