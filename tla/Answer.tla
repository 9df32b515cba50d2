-------------------------------- MODULE Answer --------------------------------
(***************************************************************************)
(* Answering: from a request that was read and parsed to the bytes on its  *)
(* connection.  This is the second half of HttpServices::process           *)
(* (src/http/httpservices.cpp) with the handlers of src/main.cpp, the      *)
(* thread_local HttpResponse they fill in, and the calls of write,         *)
(* sendStream and sendFile that follow; one thread with one connection at  *)
(* a time, which may be kept for more requests.                            *)
(*                                                                         *)
(* The head of an answer is one unit of data, its text follows it in the   *)
(* same write.                                                             *)
(***************************************************************************)
EXTENDS SocketWrite, HttpRange, HttpResponse

CONSTANTS
  Requests,   \* [method, target, keepAlive, range, since, size]: since - it holds the
              \* file's Last-Modified; size - of its body, or of a stream to be sent
  FileSizes,  \* of the only file in the pool
  TextSize,   \* length of the texts of src/main.cpp
  MaxAnswers, \* bound
  none        \* no Range header; no request

ASSUME AnswerAssumption ==
  /\ FileSizes \subseteq Size
  /\ TextSize \in Nat \ {0}
  /\ \A r \in Requests : r.size \in Nat
  /\ MaxAnswers \in Nat

VARIABLES
  stage,    \* "idle", "head", "body", "closed", "terminated"
  request,  \* being answered
  response, \* the thread's
  fileSize, \* what the pool has remembered of the file
  answered  \* number of requests that were handled

vars == <<socketVars, stage, request, response, fileSize, answered>>

Init ==
  /\ InitSocket
  /\ stage = "idle"
  /\ request = none
  /\ response = NewResponse
  /\ fileSize \in FileSizes
  /\ length = fileSize
  /\ answered = 0

-----------------------------------------------------------------------------
(* The handlers of src/main.cpp. *)

Build404Response(resp) == SetHttpState(SetTextBody(resp, TextSize), 404)

\* Without a Range header: the file, or the word that it has not changed.
WholeFile(resp, r) ==
  LET modified == InsertRawHeader(resp, "Last-Modified", TRUE)
      cached(control) == InsertRawHeader(modified, "Cache-Control", control)
  IN IF r.since THEN SetHttpState(cached("max-age=0, public"), 304)
                ELSE SetFileBody(cached("public"), 0, fileSize)

PartOfFileFor(resp, r) ==
  LET part == ReplyRange(ParseRange(r.range), fileSize) IN
  SetFileBody(SetHttpState(InsertRawHeader(resp, "Content-Range", part.says), 206),
              part.offset, part.count)

GetFile(resp, r) ==
  LET ranges == InsertRawHeader(resp, "Accept-Ranges", "bytes") IN
  IF r.range = none THEN WholeFile(ranges, r) ELSE PartOfFileFor(ranges, r)

\* Handlers of somebody else's: streams that are fresh, partly read or broken.
Stream(r) == [bad |-> r.target = "/broken", start |-> IF r.target = "/resume" THEN 1 ELSE 0,
              size |-> r.size]

\* callHandler with the handlers that main registers and those of somebody else.
CallHandler(resp, r) ==
  CASE r.method = "GET" /\ r.target = "/hello"  -> SetTextBody(resp, TextSize)
    [] r.method = "GET" /\ r.target = "/file"   -> GetFile(resp, r)
    [] r.method = "GET" /\ r.target \in {"/stream", "/resume", "/broken"} ->
         SetStreamBody(resp, Stream(r))
    [] r.method = "GET" /\ r.target = "/unavailable" -> SetHttpState(resp, 503)
    [] r.method = "GET" /\ r.target = "/missing" -> Build404Response(resp)
    [] r.method = "HEAD" /\ r.target = "/file"  ->
         InsertRawHeader(resp, "Content-Length", fileSize)
    [] r.method = "HEAD" /\ r.target # "/file"  -> SetHttpState(resp, 404)
    [] r.method = "POST" /\ r.target = "/post"  -> SetTextBody(resp, r.size)
    [] r.method = "POST" /\ r.target # "/post"  -> SetHttpState(resp, 404)
    [] OTHER -> SetHttpState(resp, 405)

-----------------------------------------------------------------------------
(* process(socket), when the request is valid. *)

\* toRawData: the length of the head, which is one unit, with the text behind it.
RawSize(resp) == 1 + IF resp.body.type = "text" THEN resp.body.count ELSE 0

\* The handler is called.
Handled(r) == CallHandler(SetKeepAlive(response, r.keepAlive), r)
Called(r) ==
  /\ stage = "idle"
  /\ answered < MaxAnswers
  /\ answered' = answered + 1
  /\ r.range # none => Readable(r.range)
  /\ UNCHANGED <<kind, room, length, fileSize>>

\* The head and the text are to be written.
Handle(r) ==
  /\ Called(r)
  /\ IsResponseValid(Handled(r))
  /\ response' = Handled(r)
  /\ request' = r
  /\ stage' = "head"
  /\ Begin("start", "write", RawSize(response'), 0)

\* The response is not valid: process returns true, and the client gets nothing.
HandleInVain(r) ==
  /\ Called(r)
  /\ ~IsResponseValid(Handled(r))
  /\ response' = ResetResponse(Handled(r))
  /\ UNCHANGED <<stage, request, callState>>

\* stoul throws in parseRange.
HandlerThrows(r) ==
  /\ stage = "idle"
  /\ r.method = "GET" /\ r.target = "/file" /\ r.range # none
  /\ ~Readable(r.range)
  /\ stage' = "terminated"
  /\ UNCHANGED <<socketVars, request, response, fileSize, answered>>

\* process returns: the response is reset, and the connection closed unless it is kept.
Finish(isKept) ==
  /\ stage' = IF isKept THEN "idle" ELSE "closed"
  /\ response' = ResetResponse(response)
  /\ request' = none
  /\ NoCall

\* write(buffer) != buffer.size()
HeadFails ==
  /\ stage = "head" /\ pc = "returned"
  /\ ret # size
  /\ Finish(FALSE)
  /\ UNCHANGED <<kind, room, length, fileSize, answered>>

\* visitBody: a text has been written, the others are to be sent.
VisitBody ==
  LET body == response.body IN
  /\ stage = "head" /\ pc = "returned"
  /\ ret = size
  /\ CASE body.type = "text" -> Finish(response.keepAlive)
       [] body.type = "stream" -> stage' = "body" /\ Begin("start", "sendStream", body.count, 0)
       [] body.type = "file" ->
            stage' = "body" /\ Begin("start", "sendFile", body.count, body.offset)
  /\ body.type # "text" => UNCHANGED <<request, response>>
  /\ UNCHANGED <<kind, room, length, fileSize, answered>>

\* sendStream(...), or sendFile(...) == file.count
BodySent ==
  /\ stage = "body" /\ pc = "returned"
  /\ Finish(Succeeded /\ response.keepAlive)
  /\ UNCHANGED <<kind, room, length, fileSize, answered>>

\* The thread's next connection.
Accept ==
  /\ stage = "closed"
  /\ stage' = "idle"
  /\ kind' \in Kinds
  /\ room' = SendBuffer
  /\ UNCHANGED <<callState, length, request, response, fileSize, answered>>

\* Somebody makes the file shorter.
Truncate ==
  /\ length = fileSize
  /\ length' \in 0..fileSize - 1
  /\ UNCHANGED <<kind, room, callState, stage, request, response, fileSize, answered>>

Socket ==
  /\ stage # "terminated"
  /\ Thread \/ (stage # "closed" /\ Drain)
  /\ UNCHANGED <<stage, request, response, fileSize, answered>>

Next ==
  \/ \E r \in Requests : Handle(r) \/ HandleInVain(r) \/ HandlerThrows(r)
  \/ HeadFails \/ VisitBody \/ BodySent
  \/ Accept \/ Truncate \/ Socket

Spec == Init /\ [][Next]_vars

-----------------------------------------------------------------------------
(* An answer speaks of its own request: nothing of an earlier answer, of     *)
(* this connection or another one, is left in the thread's response.         *)
OwnAnswer ==
  stage \in {"head", "body"} =>
    response = CallHandler(SetKeepAlive(NewResponse, request.keepAlive), request)

(* The units of the body that the client has got, and the number it was      *)
(* told: HEAD and 304 have no body whatever their headers say.               *)
BodyUnits == IF stage = "head" THEN Len(sent) - 1 ELSE Len(sent)
Told == "Content-Length" \in DOMAIN response.headers
Bodiless == request.method = "HEAD" \/ response.state = 304
Promised == IF Bodiless THEN 0 ELSE response.headers["Content-Length"]
KeptOpen == stage \in {"head", "body"} /\ stage' = "idle"

(* The client and the server agree where the next answer begins: when the    *)
(* connection is kept, the client has got as many units of the body as the   *)
(* head has announced.  Not so for a stream with its beginning read already  *)
(* (answer_fails.cfg).                                                       *)
Agreed == Told \/ Bodiless => BodyUnits = Promised
InSync == [][KeptOpen /\ request.target # "/resume" => Agreed]_vars
AlwaysInSync == [][KeptOpen => Agreed]_vars

(* Every answer on a connection that is kept tells its length, or has no     *)
(* body by its kind (answer_fails.cfg: 405, an empty file, an empty post).   *)
LengthIsTold == [][KeptOpen => Told \/ Bodiless]_vars

(* Whatever the Range header says, the part that is sent is not empty and    *)
(* ends in the file, as long as it was when the pool opened it; nothing      *)
(* wraps on the way.  Content-Range announces the bytes that are sent.       *)
SendsFile == stage \in {"head", "body"} /\ response.body.type = "file"
PartOfFile ==
  SendsFile =>
    LET body == response.body IN
    /\ 0 < body.count /\ body.offset + body.count <= fileSize
    /\ response.state = 206 =>
         response.headers["Content-Range"] = <<body.offset, body.offset + body.count - 1, fileSize>>

(* A range with its end before the end of the file, and one without an end,  *)
(* is served as asked; only bytes that are more than one.                    *)
Asked(range) == range \notin {none, malformed} /\ range.first < fileSize
Serves(first, last) == response.body.offset = first /\ response.body.count = last - first + 1
RangeServed ==
  SendsFile /\ Asked(request.range) =>
    LET range == request.range IN
    /\ range.last = open => Serves(range.first, fileSize - 1)
    /\ range.last # open /\ range.first < range.last /\ range.last < fileSize =>
         Serves(range.first, range.last)

(* The inductive invariant: with OwnAnswer, the response has been reset when *)
(* a request comes, and the call that is made is the one its body asks for.  *)
AnswerInv ==
  /\ SocketInv
  /\ OwnAnswer
  /\ fileSize \in FileSizes /\ length <= fileSize
  /\ stage \in {"idle", "head", "body", "closed", "terminated"}
  /\ stage \in {"head", "body"} =>
       /\ request \in Requests
       /\ request.range # none => Readable(request.range)
  /\ stage \notin {"head", "body"} => pc = "idle"
  /\ stage \in {"idle", "closed"} => response = NewResponse
  /\ stage = "head" => call = "write" /\ size = RawSize(response)
  /\ stage = "body" =>
       /\ response.body.type = (IF call = "sendStream" THEN "stream" ELSE "file")
       /\ call \in {"sendStream", "sendFile"} /\ size = response.body.count

(* One byte of a file is a range, too (answer_fails.cfg: it is not).         *)
OneByteServed ==
  SendsFile /\ Asked(request.range) /\ request.range.last = request.range.first =>
    Serves(request.range.first, request.range.first)

(* A range that ends behind the file ends with the file (answer_fails.cfg:   *)
(* it is taken for the whole file).                                          *)
LongRangeServed ==
  SendsFile /\ Asked(request.range) /\ request.range.last # open
    /\ request.range.last >= fileSize => Serves(request.range.first, fileSize - 1)

(* 304 is answered when the file is as the client has it (answer_fails.cfg:  *)
(* the pool has remembered the time of an older one).                        *)
NotModifiedIsTrue ==
  [][\A r \in Requests : Handle(r) /\ response'.state = 304 => length = fileSize]_vars
=============================================================================
