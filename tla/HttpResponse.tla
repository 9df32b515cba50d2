----------------------------- MODULE HttpResponse -----------------------------
(***************************************************************************)
(* HttpResponse (src/http/httpresponse.cpp): what its setters leave in it. *)
(*                                                                         *)
(* A body is its type, where it starts in its file or stream, and its      *)
(* length; a text starts at 0.  Headers map names to values; texts of      *)
(* headers and phrases are left out.                                       *)
(***************************************************************************)
EXTENDS Integers

NoBody == [type |-> "text", offset |-> 0, count |-> 0]
NewResponse == [state |-> 200, headers |-> [name \in {} |-> 0], body |-> NoBody, keepAlive |-> TRUE]

\* setRawHeader<false> and setRawHeader<true>
SetHeader(headers, name, value) ==
  [n \in DOMAIN headers \cup {name} |-> IF n = name THEN value ELSE headers[n]]
SetRawHeader(resp, name, value) ==
  [resp EXCEPT !.headers = SetHeader(resp.headers, name, value)]
InsertRawHeader(resp, name, value) ==
  IF name \in DOMAIN resp.headers THEN resp ELSE SetRawHeader(resp, name, value)

\* A body replaces the one before and tells its length.
SetBody(resp, type, offset, count, length) ==
  [SetRawHeader(resp, "Content-Length", length) EXCEPT
     !.body = [type |-> type, offset |-> offset, count |-> count]]

\* setBody(const StringBody &): an empty text is ignored.
SetTextBody(resp, size) ==
  IF size = 0 THEN resp ELSE SetBody(resp, "text", 0, size, size)

\* setBody(StreamBody &&): the length announced is the place of the end, whatever the
\* place the stream will be read from; of an empty stream nothing is said.
SetStreamBody(resp, stream) ==
  LET count == stream.size - stream.start IN
  IF stream.bad THEN resp
  ELSE IF stream.size # 0 THEN SetBody(resp, "stream", stream.start, count, stream.size)
  ELSE [resp EXCEPT !.body = [type |-> "stream", offset |-> 0, count |-> 0]]

\* setBody(const FileBody &): nothing of a file is ignored.
SetFileBody(resp, offset, count) ==
  IF count = 0 THEN resp ELSE SetBody(resp, "file", offset, count, count)

SetHttpState(resp, state) == [resp EXCEPT !.state = state]

SetKeepAlive(resp, isKeepAlive) ==
  [SetRawHeader(resp, "Connection", isKeepAlive) EXCEPT !.keepAlive = isKeepAlive]

IsResponseValid(resp) == resp.state \in 200..500

\* Mutant of ResetResponse: the headers stay.
ResetResponse_headers(resp) == [NewResponse EXCEPT !.headers = resp.headers]
\* reset()
ResetResponse(resp) == NewResponse
=============================================================================
