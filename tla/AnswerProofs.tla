------------------------------ MODULE AnswerProofs ------------------------------
(***************************************************************************)
(* Proofs about Answer for any requests, files, widths of a number, sizes  *)
(* of the buffers and drains of the peer: the part of a file for a Range   *)
(* header, what the handlers leave in a response, what a call on a socket  *)
(* sends and reports, and how the connection goes on after it.             *)
(***************************************************************************)
EXTENDS Answer, SequenceTheorems, TLAPS

-----------------------------------------------------------------------------
(* Numbers modulo SIZE. *)

LEMMA ModSmall == ASSUME NEW x \in 0..SIZE - 1 PROVE x % SIZE = x
BY RangeAssumption

LEMMA ModSize == SIZE % SIZE = 0
BY RangeAssumption

LEMMA ModBelow == ASSUME NEW x \in 1..SIZE PROVE (0 - x) % SIZE = SIZE - x
BY RangeAssumption

(* The part of a file that replyRange gives lies in the file, and is empty   *)
(* only when the file is.  Content-Range gives its first and last byte.      *)
LEMMA ReplyInFile ==
  ASSUME NEW total \in Size, NEW first \in Size, NEW last \in Size
  PROVE  LET part == ReplyRange(<<first, last>>, total) IN
         /\ total = 0 => part.count = 0
         /\ total > 0 =>
              /\ part.offset \in Nat /\ part.count \in Nat \ {0}
              /\ part.offset + part.count <= total
              /\ part.says = <<part.offset, part.offset + part.count - 1, total>>
<1> DEFINE part == ReplyRange(<<first, last>>, total)
           r == Valid(<<first, last>>, total)
<1>0. SIZE \in Nat \ {0} /\ total \in 0..SIZE - 1 /\ first \in 0..SIZE - 1
      /\ last \in 0..SIZE - 1
  BY RangeAssumption DEF Size
<1>1. /\ part.offset = r[1] /\ part.says = <<r[1], r[2], total>>
      /\ part.count = Plus(Minus(r[2], r[1]), 1)
  BY DEF ReplyRange
<1>2. CASE total = 0
  <2>1. r = <<0, Minus(0, 1)>>
    BY <1>0, <1>2 DEF Valid, OutOfFile
  <2>2. Minus(0, 1) = SIZE - 1
    <3>1. \A x \in 1..SIZE : Minus(0, x) = SIZE - x
      BY ModBelow DEF Minus
    <3>. QED BY <1>0, <3>1
  <2>3. Minus(SIZE - 1, 0) = SIZE - 1 /\ Plus(SIZE - 1, 1) = 0
    BY <1>0, ModSmall, ModSize DEF Minus, Plus
  <2>. QED BY <1>1, <1>2, <2>1, <2>2, <2>3
<1>3. CASE total > 0
  <2>1. Minus(total, 1) = total - 1
    BY <1>0, <1>3, ModSmall DEF Minus
  <2>2. \E a, b \in 0..SIZE - 1 : r = <<a, b>> /\ a <= b /\ b < total
    <3>1. CASE OutOfFile(<<first, last>>, total)
      <4>1. r = <<0, total - 1>>
        BY <2>1, <3>1 DEF Valid
      <4>. QED BY <1>0, <1>3, <4>1
    <3>2. CASE ~OutOfFile(<<first, last>>, total) /\ last <= first
      <4>1. r = <<first, total - 1>> /\ first < total
        BY <1>0, <2>1, <3>2 DEF Valid, OutOfFile
      <4>. QED BY <1>0, <1>3, <4>1
    <3>3. CASE ~OutOfFile(<<first, last>>, total) /\ ~(last <= first)
      <4>1. r = <<first, last>> /\ last < total
        BY <1>0, <2>1, <3>3 DEF Valid, OutOfFile
      <4>. QED BY <1>0, <3>3, <4>1
    <3>. QED BY <3>1, <3>2, <3>3
  <2>3. PICK a, b \in 0..SIZE - 1 : r = <<a, b>> /\ a <= b /\ b < total
    BY <2>2
  <2>4. Minus(b, a) = b - a
    BY <1>0, <2>3, ModSmall DEF Minus
  <2>5. Plus(b - a, 1) = b - a + 1
    BY <1>0, <2>3, ModSmall DEF Plus
  <2>6. part.offset = a /\ part.count = b - a + 1 /\ part.says = <<a, b, total>>
    BY <1>1, <2>3, <2>4, <2>5
  <2>. QED BY <1>0, <1>3, <2>3, <2>6
<1>4. total = 0 \/ total > 0
  BY <1>0
<1>. HIDE DEF part, r
<1>5. QED BY <1>2, <1>3, <1>4 DEF part

(* A range with its end before the end of the file is served as asked, and   *)
(* one without an end is served to the end of the file.                      *)
LEMMA ReplyAsAsked ==
  ASSUME NEW total \in Size, NEW first \in Size, NEW last \in Size, first < total
  PROVE  LET part == ReplyRange(<<first, last>>, total) IN
         /\ last = 0 => part.offset = first /\ part.count = total - first
         /\ first < last /\ last < total =>
              part.offset = first /\ part.count = last - first + 1
<1> DEFINE part == ReplyRange(<<first, last>>, total)
           r == Valid(<<first, last>>, total)
<1>0. SIZE \in Nat \ {0} /\ total \in 0..SIZE - 1 /\ first \in 0..SIZE - 1
      /\ last \in 0..SIZE - 1
  BY RangeAssumption DEF Size
<1>1. part.offset = r[1] /\ part.count = Plus(Minus(r[2], r[1]), 1)
  BY DEF ReplyRange
<1>2. ASSUME last = 0 PROVE part.offset = first /\ part.count = total - first
  <2>1. Minus(total, 1) = total - 1
    BY <1>0, ModSmall DEF Minus
  <2>2. r = <<first, total - 1>>
    BY <1>0, <1>2, <2>1 DEF Valid, OutOfFile
  <2>3. Minus(total - 1, first) = total - 1 - first
    BY <1>0, ModSmall DEF Minus
  <2>4. Plus(total - 1 - first, 1) = total - first
    BY <1>0, ModSmall DEF Plus
  <2>. QED BY <1>1, <2>2, <2>3, <2>4
<1>3. ASSUME first < last, last < total
      PROVE  part.offset = first /\ part.count = last - first + 1
  <2>1. r = <<first, last>>
    BY <1>0, <1>3 DEF Valid, OutOfFile
  <2>2. Minus(last, first) = last - first
    BY <1>0, <1>3, ModSmall DEF Minus
  <2>3. Plus(last - first, 1) = last - first + 1
    BY <1>0, <1>3, ModSmall DEF Plus
  <2>. QED BY <1>1, <2>1, <2>2, <2>3
<1>. QED BY <1>2, <1>3

-----------------------------------------------------------------------------
(* The setters of a response. *)

Resp(s, h, b, k) == [state |-> s, headers |-> h, body |-> b, keepAlive |-> k]

LEMMA HeaderSet ==
  ASSUME NEW h, NEW n, NEW v
  PROVE  /\ DOMAIN SetHeader(h, n, v) = DOMAIN h \cup {n}
         /\ SetHeader(h, n, v)[n] = v
         /\ \A m \in DOMAIN h \ {n} : SetHeader(h, n, v)[m] = h[m]
BY DEF SetHeader

LEMMA RawHeaderSet ==
  ASSUME NEW s, NEW h, NEW b, NEW k, NEW n, NEW v
  PROVE  SetRawHeader(Resp(s, h, b, k), n, v) = Resp(s, SetHeader(h, n, v), b, k)
BY DEF SetRawHeader, Resp

LEMMA RawHeaderInserted ==
  ASSUME NEW s, NEW h, NEW b, NEW k, NEW n, NEW v, n \notin DOMAIN h
  PROVE  InsertRawHeader(Resp(s, h, b, k), n, v) = Resp(s, SetHeader(h, n, v), b, k)
<1>1. Resp(s, h, b, k).headers = h
  BY DEF Resp
<1>. QED BY <1>1, RawHeaderSet DEF InsertRawHeader

LEMMA BodySet ==
  ASSUME NEW s, NEW h, NEW b, NEW k, NEW t, NEW o, NEW c, NEW l
  PROVE  SetBody(Resp(s, h, b, k), t, o, c, l)
           = Resp(s, SetHeader(h, "Content-Length", l),
                  [type |-> t, offset |-> o, count |-> c], k)
<1> DEFINE hh == SetHeader(h, "Content-Length", l)
           bb == [type |-> t, offset |-> o, count |-> c]
<1>1. SetRawHeader(Resp(s, h, b, k), "Content-Length", l) = Resp(s, hh, b, k)
  BY RawHeaderSet
<1>2. SetBody(Resp(s, h, b, k), t, o, c, l) = [Resp(s, hh, b, k) EXCEPT !.body = bb]
  BY <1>1 DEF SetBody
<1>. HIDE DEF hh, bb
<1>3. [Resp(s, hh, b, k) EXCEPT !.body = bb] = Resp(s, hh, bb, k)
  BY DEF Resp
<1>. QED BY <1>2, <1>3 DEF hh, bb

LEMMA StateSet ==
  ASSUME NEW s, NEW h, NEW b, NEW k, NEW t
  PROVE  SetHttpState(Resp(s, h, b, k), t) = Resp(t, h, b, k)
BY DEF SetHttpState, Resp

\* What a handler finds: the reset response with the header Connection.
Fresh(k) == SetKeepAlive(NewResponse, k)

LEMMA FreshShape ==
  ASSUME NEW k
  PROVE  \E h : DOMAIN h = {"Connection"} /\ Fresh(k) = Resp(200, h, NoBody, k)
<1> DEFINE h0 == [name \in {} |-> 0]
           h == SetHeader(h0, "Connection", k)
<1>0. PICK t : t = TRUE
  OBVIOUS
<1>1. NewResponse = Resp(200, h0, NoBody, t)
  BY <1>0 DEF NewResponse, Resp
<1>2. DOMAIN h0 = {}
  OBVIOUS
<1>. HIDE DEF h0
<1>3. DOMAIN h = {"Connection"}
  BY <1>2 DEF SetHeader
<1>4. SetRawHeader(NewResponse, "Connection", k) = Resp(200, h, NoBody, t)
  BY <1>1, RawHeaderSet
<1>. HIDE DEF h
<1>5. Fresh(k) = Resp(200, h, NoBody, k)
  BY <1>4 DEF Fresh, SetKeepAlive, Resp
<1>. QED BY <1>3, <1>5

-----------------------------------------------------------------------------
(* What the handlers leave in a response. *)

\* Its body, and the length that the head tells of it.
Tells(resp, r) ==
  /\ resp.body.type \in {"text", "stream", "file"}
  /\ resp.body.count \in Nat
  /\ resp.body.type = "file" =>
       resp.body.count > 0 /\ r.method = "GET" /\ r.target = "/file"
  /\ r.method = "HEAD" \/ resp.state = 304 => resp.body = NoBody
  /\ "Content-Length" \in DOMAIN resp.headers /\ r.method # "HEAD" /\ resp.state # 304
       /\ r.target # "/resume" => resp.headers["Content-Length"] = resp.body.count

\* The part of a file: PartOfFile and RangeServed of a response and a request.
ServesPart(resp, r) ==
  LET body == resp.body
      Is(first, last) == body.offset = first /\ body.count = last - first + 1
  IN
  body.type = "file" =>
    /\ body.offset \in Nat
    /\ body.offset + body.count <= fileSize
    /\ resp.state = 206 =>
         resp.headers["Content-Range"] = <<body.offset, body.offset + body.count - 1, fileSize>>
    /\ Asked(r.range) =>
         /\ r.range.last = open => Is(r.range.first, fileSize - 1)
         /\ r.range.last # open /\ r.range.first < r.range.last /\ r.range.last < fileSize =>
              Is(r.range.first, r.range.last)

\* A text, or none.
LEMMA TextTells ==
  ASSUME NEW r, NEW st, NEW h, NEW k, NEW n \in Nat,
         r.method # "HEAD", st # 304, "Content-Length" \notin DOMAIN h
  PROVE  LET resp == SetTextBody(Resp(st, h, NoBody, k), n) IN
         Tells(resp, r) /\ resp.body.type = "text" /\ resp.state = st
<1>1. CASE n = 0
  <2>1. SetTextBody(Resp(st, h, NoBody, k), n) = Resp(st, h, NoBody, k)
    BY <1>1 DEF SetTextBody
  <2>. QED BY <2>1 DEF Tells, Resp, NoBody
<1>2. CASE n # 0
  <2> DEFINE hh == SetHeader(h, "Content-Length", n)
             b == [type |-> "text", offset |-> 0, count |-> n]
  <2>1. SetTextBody(Resp(st, h, NoBody, k), n) = Resp(st, hh, b, k)
    BY <1>2, BodySet DEF SetTextBody
  <2>2. hh["Content-Length"] = n
    BY DEF SetHeader
  <2>. HIDE DEF hh
  <2>. QED BY <2>1, <2>2 DEF Tells, Resp
<1>. QED BY <1>1, <1>2

\* Nothing but a state.
LEMMA StateTells ==
  ASSUME NEW r, NEW st, NEW h, NEW k, "Content-Length" \notin DOMAIN h
  PROVE  LET resp == SetHttpState(Resp(200, h, NoBody, k), st) IN
         Tells(resp, r) /\ resp.body.type = "text"
<1>1. SetHttpState(Resp(200, h, NoBody, k), st) = Resp(st, h, NoBody, k)
  BY StateSet
<1>. QED BY <1>1 DEF Tells, Resp, NoBody

LEMMA StreamTells ==
  ASSUME NEW r, NEW h, NEW k, r.size \in Nat, r.method = "GET",
         "Content-Length" \notin DOMAIN h,
         r.target \in {"/stream", "/resume", "/broken"}
  PROVE  LET resp == SetStreamBody(Resp(200, h, NoBody, k), Stream(r)) IN
         Tells(resp, r) /\ resp.body.type # "file"
<1>1. CASE r.target = "/broken"
  <2>1. SetStreamBody(Resp(200, h, NoBody, k), Stream(r)) = Resp(200, h, NoBody, k)
    BY <1>1 DEF SetStreamBody, Stream
  <2>. QED BY <2>1 DEF Tells, Resp, NoBody
<1>2. CASE r.target # "/broken" /\ r.size = 0
  <2> DEFINE b == [type |-> "stream", offset |-> 0, count |-> 0]
  <2>1. SetStreamBody(Resp(200, h, NoBody, k), Stream(r)) = Resp(200, h, b, k)
    BY <1>2 DEF SetStreamBody, Stream, Resp
  <2>. QED BY <1>2, <2>1 DEF Tells, Resp
<1>3. CASE r.target # "/broken" /\ r.size # 0
  <2> DEFINE hh == SetHeader(h, "Content-Length", r.size)
             start == IF r.target = "/resume" THEN 1 ELSE 0
             b == [type |-> "stream", offset |-> start, count |-> r.size - start]
  <2>1. SetStreamBody(Resp(200, h, NoBody, k), Stream(r)) = Resp(200, hh, b, k)
    <3>1. ~Stream(r).bad /\ Stream(r).size = r.size /\ Stream(r).start = start
      BY <1>3 DEF Stream
    <3>2. SetStreamBody(Resp(200, h, NoBody, k), Stream(r))
            = SetBody(Resp(200, h, NoBody, k), "stream", start, r.size - start, r.size)
      BY <1>3, <3>1 DEF SetStreamBody
    <3>. QED BY <3>2, BodySet
  <2>2. hh["Content-Length"] = r.size
    BY DEF SetHeader
  <2>3. r.size - start \in Nat /\ (r.target # "/resume" => r.size - start = r.size)
    BY <1>3
  <2>. HIDE DEF hh, start
  <2>. QED BY <1>3, <2>1, <2>2, <2>3 DEF Tells, Resp
<1>. QED BY <1>1, <1>2, <1>3

\* Where the part is that a Range header asks for.
AsAsked(range, o, n) ==
  Asked(range) =>
    /\ range.first \in Nat
    /\ range.last = open => o = range.first /\ n = fileSize - range.first
    /\ range.last # open /\ range.first < range.last /\ range.last < fileSize =>
         o = range.first /\ n = range.last - range.first + 1

\* A part of a file, or nothing of an empty one, behind some headers.
LEMMA FileTells ==
  ASSUME NEW r, NEW st, NEW h, NEW k, NEW o \in Nat, NEW n \in Nat,
         r.method = "GET", r.target = "/file", st \in {200, 206},
         "Content-Length" \notin DOMAIN h, o + n <= fileSize, fileSize \in Nat,
         st = 206 /\ n > 0 => /\ "Content-Range" \in DOMAIN h
                              /\ h["Content-Range"] = <<o, o + n - 1, fileSize>>,
         AsAsked(r.range, o, n)
  PROVE  LET resp == SetFileBody(Resp(st, h, NoBody, k), o, n) IN
         Tells(resp, r) /\ ServesPart(resp, r)
<1>1. CASE n = 0
  <2>1. SetFileBody(Resp(st, h, NoBody, k), o, n) = Resp(st, h, NoBody, k)
    BY <1>1 DEF SetFileBody
  <2>. QED BY <2>1 DEF Tells, ServesPart, Resp, NoBody
<1>2. CASE n # 0
  <2> DEFINE hh == SetHeader(h, "Content-Length", n)
             b == [type |-> "file", offset |-> o, count |-> n]
             resp == Resp(st, hh, b, k)
  <2>1. SetFileBody(Resp(st, h, NoBody, k), o, n) = resp
    BY <1>2, BodySet DEF SetFileBody
  <2>2. hh["Content-Length"] = n
    BY DEF SetHeader
  <2>3. st = 206 => hh["Content-Range"] = <<o, o + n - 1, fileSize>>
    <3>1. n > 0
      BY <1>2
    <3>. QED BY <3>1 DEF SetHeader
  <2>. HIDE DEF hh
  <2>4. /\ resp.state = st /\ resp.headers = hh /\ resp.body.type = "file"
        /\ resp.body.offset = o /\ resp.body.count = n
    BY DEF Resp
  <2>. HIDE DEF resp
  <2>5. Tells(resp, r)
    BY <1>2, <2>2, <2>4 DEF Tells
  <2>6. ServesPart(resp, r)
    BY <1>2, <2>3, <2>4 DEF ServesPart, AsAsked
  <2>. QED BY <2>1, <2>5, <2>6 DEF resp
<1>. QED BY <1>1, <1>2

LEMMA WholeFileTells ==
  ASSUME NEW r, NEW h, NEW k, fileSize \in Nat,
         r.method = "GET", r.target = "/file", r.range = none,
         DOMAIN h = {"Connection", "Accept-Ranges"}
  PROVE  LET resp == WholeFile(Resp(200, h, NoBody, k), r) IN
         Tells(resp, r) /\ ServesPart(resp, r)
<1> DEFINE h1 == SetHeader(h, "Last-Modified", TRUE)
           h2(control) == SetHeader(h1, "Cache-Control", control)
<1>0. PICK t : t = TRUE
  OBVIOUS
<1>1. InsertRawHeader(Resp(200, h, NoBody, k), "Last-Modified", t)
        = Resp(200, SetHeader(h, "Last-Modified", t), NoBody, k)
  BY RawHeaderInserted
<1>2. InsertRawHeader(Resp(200, h, NoBody, k), "Last-Modified", TRUE)
        = Resp(200, h1, NoBody, k)
  BY <1>0, <1>1
<1>3. DOMAIN h1 = {"Connection", "Accept-Ranges", "Last-Modified"}
  BY DEF SetHeader
<1>. HIDE DEF h1
<1>4. ASSUME NEW control
      PROVE  /\ InsertRawHeader(Resp(200, h1, NoBody, k), "Cache-Control", control)
                  = Resp(200, h2(control), NoBody, k)
             /\ "Content-Length" \notin DOMAIN h2(control)
  <2>1. "Cache-Control" \notin DOMAIN h1
    BY <1>3
  <2>2. InsertRawHeader(Resp(200, h1, NoBody, k), "Cache-Control", control)
          = Resp(200, h2(control), NoBody, k)
    BY <2>1, RawHeaderInserted
  <2>3. DOMAIN h2(control) = DOMAIN h1 \cup {"Cache-Control"}
    BY DEF SetHeader
  <2>. QED BY <1>3, <2>2, <2>3
<1>. HIDE DEF h2
<1>5. CASE r.since
  <2>1. PICK hc : hc = h2("max-age=0, public")
    OBVIOUS
  <2>2. WholeFile(Resp(200, h, NoBody, k), r) = SetHttpState(Resp(200, hc, NoBody, k), 304)
    BY <1>2, <1>4, <1>5, <2>1 DEF WholeFile
  <2>3. WholeFile(Resp(200, h, NoBody, k), r) = Resp(304, hc, NoBody, k)
    BY <2>2, StateSet
  <2>. QED BY <2>3 DEF Tells, ServesPart, Resp, NoBody
<1>6. CASE ~r.since
  <2>1. WholeFile(Resp(200, h, NoBody, k), r)
          = SetFileBody(Resp(200, h2("public"), NoBody, k), 0, fileSize)
    BY <1>2, <1>4, <1>6 DEF WholeFile
  <2>2. AsAsked(r.range, 0, fileSize) /\ "Content-Length" \notin DOMAIN h2("public")
    BY <1>4 DEF Asked, AsAsked
  <2>. QED BY <2>1, <2>2, FileTells
<1>. QED BY <1>5, <1>6

LEMMA PartOfFileTells ==
  ASSUME NEW r, NEW h, NEW k, fileSize \in Size,
         r.method = "GET", r.target = "/file", r.range # none, Readable(r.range),
         DOMAIN h = {"Connection", "Accept-Ranges"}
  PROVE  LET resp == PartOfFileFor(Resp(200, h, NoBody, k), r) IN
         Tells(resp, r) /\ ServesPart(resp, r)
<1> DEFINE range == ParseRange(r.range)
           part == ReplyRange(range, fileSize)
           hh == SetHeader(h, "Content-Range", part.says)
<1>0. SIZE \in Nat \ {0} /\ open \notin Nat /\ 0 \in Size /\ fileSize \in Nat
  BY RangeAssumption DEF Size
<1>1. \E first, last \in Size :
         /\ range = <<first, last>>
         /\ Asked(r.range) =>
              /\ first = r.range.first
              /\ last = IF r.range.last = open THEN 0 ELSE r.range.last
  <2>1. CASE r.range = malformed
    BY <1>0, <2>1 DEF ParseRange, Asked
  <2>2. CASE r.range # malformed
    <3>1. /\ r.range.first \in Size /\ r.range.last \in Size \cup {open}
          /\ range = <<r.range.first, IF r.range.last = open THEN 0 ELSE r.range.last>>
      BY <2>2 DEF Readable, ParseRange
    <3>. HIDE DEF range
    <3>. QED BY <1>0, <3>1
  <2>. QED BY <2>1, <2>2
<1>2. PICK first, last \in Size :
         /\ range = <<first, last>>
         /\ Asked(r.range) =>
              /\ first = r.range.first
              /\ last = IF r.range.last = open THEN 0 ELSE r.range.last
  BY <1>1
<1>. HIDE DEF range
<1>3. /\ fileSize = 0 => part.count = 0
      /\ fileSize > 0 =>
           /\ part.offset \in Nat /\ part.count \in Nat \ {0}
           /\ part.offset + part.count <= fileSize
           /\ part.says = <<part.offset, part.offset + part.count - 1, fileSize>>
  BY <1>2, ReplyInFile
<1>4. first < fileSize =>
         /\ last = 0 => part.offset = first /\ part.count = fileSize - first
         /\ first < last /\ last < fileSize =>
              part.offset = first /\ part.count = last - first + 1
  BY <1>2, ReplyAsAsked
<1>. HIDE DEF part
<1>5. InsertRawHeader(Resp(200, h, NoBody, k), "Content-Range", part.says)
        = Resp(200, hh, NoBody, k)
  BY RawHeaderInserted
<1>6. /\ DOMAIN hh = {"Connection", "Accept-Ranges", "Content-Range"}
      /\ hh["Content-Range"] = part.says
  BY DEF SetHeader
<1>. HIDE DEF hh
<1>7. PartOfFileFor(Resp(200, h, NoBody, k), r)
        = SetFileBody(Resp(206, hh, NoBody, k), part.offset, part.count)
  <2>1. PartOfFileFor(Resp(200, h, NoBody, k), r)
          = SetFileBody(SetHttpState(Resp(200, hh, NoBody, k), 206), part.offset, part.count)
    BY <1>5 DEF PartOfFileFor, part, range
  <2>. QED BY <2>1, StateSet
<1>8. CASE fileSize = 0
  <2>1. SetFileBody(Resp(206, hh, NoBody, k), part.offset, part.count)
          = Resp(206, hh, NoBody, k)
    BY <1>3, <1>8 DEF SetFileBody
  <2>. QED BY <1>6, <1>7, <2>1 DEF Tells, ServesPart, Resp, NoBody
<1>9. CASE fileSize > 0
  <2>1. AsAsked(r.range, part.offset, part.count)
    BY <1>0, <1>2, <1>4 DEF Asked, AsAsked, Size
  <2>2. part.offset \in Nat /\ part.count \in Nat /\ part.offset + part.count <= fileSize
    BY <1>3, <1>9
  <2>3. /\ "Content-Length" \notin DOMAIN hh /\ "Content-Range" \in DOMAIN hh
        /\ hh["Content-Range"] = <<part.offset, part.offset + part.count - 1, fileSize>>
    BY <1>3, <1>6, <1>9
  <2>4. PICK o, n, st : o = part.offset /\ n = part.count /\ st = 206
    OBVIOUS
  <2>5. LET resp == SetFileBody(Resp(st, hh, NoBody, k), o, n) IN
        Tells(resp, r) /\ ServesPart(resp, r)
    <3>1. o \in Nat /\ n \in Nat /\ st \in {200, 206} /\ o + n <= fileSize
      BY <2>2, <2>4
    <3>2. st = 206 /\ n > 0 =>
            /\ "Content-Range" \in DOMAIN hh
            /\ hh["Content-Range"] = <<o, o + n - 1, fileSize>>
      BY <2>3, <2>4
    <3>3. AsAsked(r.range, o, n) /\ "Content-Length" \notin DOMAIN hh
      BY <2>1, <2>3, <2>4
    <3>. QED BY <1>0, <3>1, <3>2, <3>3, FileTells
  <2>. QED BY <1>7, <2>4, <2>5
<1>. QED BY <1>0, <1>8, <1>9

(* Whatever the request is, the head tells the length of the body and a part *)
(* of a file is one of the file.                                             *)
LEMMA HandlersTell ==
  ASSUME NEW r, r.size \in Nat, NEW k, fileSize \in Size,
         r.range # none => Readable(r.range)
  PROVE  LET resp == CallHandler(Fresh(k), r) IN
         Tells(resp, r) /\ ServesPart(resp, r)
<1>0. TextSize \in Nat \ {0} /\ fileSize \in Nat
  BY AnswerAssumption, RangeAssumption DEF Size
<1>1. PICK h : DOMAIN h = {"Connection"} /\ Fresh(k) = Resp(200, h, NoBody, k)
  BY FreshShape
<1>2. "Content-Length" \notin DOMAIN h
  BY <1>1
<1>3. ASSUME NEW resp, resp.body.type # "file" PROVE ServesPart(resp, r)
  BY <1>3 DEF ServesPart
<1> DEFINE resp == CallHandler(Fresh(k), r)
           first == Resp(200, h, NoBody, k)
<1>4. CASE r.method = "GET" /\ r.target = "/hello"
  <2>1. resp = SetTextBody(first, TextSize)
    BY <1>1, <1>4 DEF CallHandler
  <2>2. LET text == SetTextBody(first, TextSize) IN Tells(text, r) /\ text.body.type = "text"
    BY <1>0, <1>2, <1>4, TextTells
  <2>. QED BY <1>3, <2>1, <2>2
<1>5. CASE r.method = "GET" /\ r.target = "/file"
  <2> DEFINE hh == SetHeader(h, "Accept-Ranges", "bytes")
  <2>1. resp = GetFile(first, r)
    BY <1>1, <1>5 DEF CallHandler
  <2>2. InsertRawHeader(first, "Accept-Ranges", "bytes") = Resp(200, hh, NoBody, k)
    BY <1>1, RawHeaderInserted
  <2>3. DOMAIN hh = {"Connection", "Accept-Ranges"}
    BY <1>1 DEF SetHeader
  <2>. HIDE DEF hh
  <2>4. CASE r.range = none
    <3>1. resp = WholeFile(Resp(200, hh, NoBody, k), r)
      BY <2>1, <2>2, <2>4 DEF GetFile
    <3>. QED BY <1>0, <1>5, <2>3, <2>4, <3>1, WholeFileTells
  <2>5. CASE r.range # none
    <3>1. resp = PartOfFileFor(Resp(200, hh, NoBody, k), r)
      BY <2>1, <2>2, <2>5 DEF GetFile
    <3>. QED BY <1>0, <1>5, <2>3, <2>5, <3>1, PartOfFileTells
  <2>. QED BY <2>4, <2>5
<1>6. CASE r.method = "GET" /\ r.target \in {"/stream", "/resume", "/broken"}
  <2>1. resp = SetStreamBody(first, Stream(r))
    BY <1>1, <1>6 DEF CallHandler
  <2>. QED BY <1>2, <1>3, <1>6, <2>1, StreamTells
<1>7. CASE r.method = "GET" /\ r.target = "/unavailable"
  <2>1. resp = SetHttpState(first, 503)
    BY <1>1, <1>7 DEF CallHandler
  <2>. QED BY <1>2, <1>3, <2>1, StateTells
<1>8. CASE r.method = "GET" /\ r.target = "/missing"
  <2>1. resp = Build404Response(first)
    BY <1>1, <1>8 DEF CallHandler
  <2> DEFINE hh == SetHeader(h, "Content-Length", TextSize)
             b == [type |-> "text", offset |-> 0, count |-> TextSize]
  <2>2. SetTextBody(first, TextSize) = Resp(200, hh, b, k)
    BY <1>0, BodySet DEF SetTextBody
  <2>3. hh["Content-Length"] = TextSize
    BY DEF SetHeader
  <2>. HIDE DEF hh, b, first
  <2>4. resp = Resp(404, hh, b, k)
    BY <2>1, <2>2, StateSet DEF Build404Response
  <2>. QED BY <1>0, <1>8, <2>3, <2>4 DEF Tells, ServesPart, Resp, b
<1>9. CASE r.method = "HEAD" /\ r.target = "/file"
  <2> DEFINE hh == SetHeader(h, "Content-Length", fileSize)
  <2>1. resp = InsertRawHeader(first, "Content-Length", fileSize)
    BY <1>1, <1>9 DEF CallHandler
  <2>2. resp = Resp(200, hh, NoBody, k)
    BY <1>2, <2>1, RawHeaderInserted
  <2>. HIDE DEF hh
  <2>. QED BY <1>9, <2>2 DEF Tells, ServesPart, Resp, NoBody
<1>10. CASE r.method = "HEAD" /\ r.target # "/file"
  <2>1. resp = SetHttpState(first, 404)
    BY <1>1, <1>10 DEF CallHandler
  <2>. QED BY <1>2, <1>3, <2>1, StateTells
<1>11. CASE r.method = "POST" /\ r.target = "/post"
  <2>1. resp = SetTextBody(first, r.size)
    BY <1>1, <1>11 DEF CallHandler
  <2>2. PICK n : n \in Nat /\ n = r.size
    OBVIOUS
  <2>3. LET text == SetTextBody(first, n) IN Tells(text, r) /\ text.body.type = "text"
    <3>1. r.method # "HEAD" /\ 200 # 304
      BY <1>11
    <3>. QED BY <1>2, <2>2, <3>1, TextTells
  <2>. QED BY <1>3, <2>1, <2>2, <2>3
<1>12. CASE r.method = "POST" /\ r.target # "/post"
  <2>1. resp = SetHttpState(first, 404)
    BY <1>1, <1>12 DEF CallHandler
  <2>. QED BY <1>2, <1>3, <2>1, StateTells
<1> DEFINE other ==
             /\ r.method = "GET" => r.target \notin {"/hello", "/file", "/stream", "/resume",
                                                     "/broken", "/unavailable", "/missing"}
             /\ r.method \notin {"HEAD", "POST"}
<1>13. CASE other
  <2>1. resp = SetHttpState(first, 405)
    BY <1>1, <1>13 DEF CallHandler
  <2>. QED BY <1>2, <1>3, <2>1, StateTells
<1>14. \/ other
       \/ r.method = "GET" /\ r.target \in {"/hello", "/file", "/stream", "/resume",
                                            "/broken", "/unavailable", "/missing"}
       \/ r.method \in {"HEAD", "POST"}
  OBVIOUS
<1>. HIDE DEF other, resp
<1>. QED
  BY <1>4, <1>5, <1>6, <1>7, <1>8, <1>9, <1>10, <1>11, <1>12, <1>13, <1>14 DEF resp

-----------------------------------------------------------------------------
(* Units of data. *)

LEMMA ShownShape ==
  ASSUME NEW n \in Nat, NEW l \in Nat
  PROVE  /\ Shown(n, l) \in Seq(Nat) /\ Len(Shown(n, l)) = n
         /\ \A i \in 1..n : Shown(n, l)[i] = IF i <= l THEN i ELSE 0
<1>1. Shown(n, l) = [i \in 1..n |-> IF i <= l THEN i ELSE 0]
  BY DEF Shown
<1>2. Shown(n, l) \in [1..n -> Nat]
  BY <1>1
<1>3. Shown(n, l) \in Seq(Nat) /\ Len(Shown(n, l)) = n
  BY <1>2, LenProperties
<1>. QED BY <1>1, <1>3

LEMMA ShownWithin ==
  ASSUME NEW n \in Nat, NEW l \in Nat, n <= l
  PROVE  Shown(n, l) = Prefix(n)
BY DEF Shown, Prefix

(* What is shown is the data exactly when it is as long and within it.       *)
LEMMA ShownIsPrefix ==
  ASSUME NEW n \in Nat, NEW l \in Nat, NEW m \in Nat, Shown(n, l) = Prefix(m)
  PROVE  n = m /\ n <= l
<1>1. Prefix(m) = Shown(m, m)
  BY ShownWithin
<1>2. n = m
  BY <1>1, ShownShape
<1>3. ASSUME n > l PROVE FALSE
  <2>1. l + 1 \in 1..n
    BY <1>3
  <2>2. Shown(n, l)[l + 1] = 0
    BY <2>1 DEF Shown
  <2>3. Shown(m, m)[l + 1] = l + 1
    BY <1>2, <2>1 DEF Shown
  <2>. QED BY <1>1, <2>2, <2>3
<1>. QED BY <1>2, <1>3

LEMMA ShownGrows ==
  ASSUME NEW n \in Nat, NEW m \in Nat, NEW l \in Nat, NEW s \in Seq(Nat),
         Len(s) = m, \A i \in 1..m : s[i] = IF n + i <= l THEN n + i ELSE 0
  PROVE  Shown(n, l) \o s = Shown(n + m, l)
<1> DEFINE a == Shown(n, l)
           c == Shown(n + m, l)
<1>1. /\ a \in Seq(Nat) /\ Len(a) = n /\ \A i \in 1..n : a[i] = IF i <= l THEN i ELSE 0
      /\ c \in Seq(Nat) /\ Len(c) = n + m
      /\ \A i \in 1..n + m : c[i] = IF i <= l THEN i ELSE 0
  BY ShownShape
<1>. HIDE DEF a, c
<1>2. /\ a \o s \in Seq(Nat) /\ Len(a \o s) = n + m
      /\ \A i \in 1..n + m : (a \o s)[i] = IF i <= n THEN a[i] ELSE s[i - n]
  BY <1>1, ConcatProperties
<1>3. \A i \in 1..n + m : (a \o s)[i] = c[i]
  <2> TAKE i \in 1..n + m
  <2>0. i <= n \/ i > n
    OBVIOUS
  <2>1. CASE i <= n
    BY <2>1, <1>1, <1>2
  <2>2. CASE i > n
    <3>1. i - n \in 1..m /\ n + (i - n) = i
      BY <2>2
    <3>2. (a \o s)[i] = s[i - n]
      BY <2>2, <1>2
    <3>3. s[i - n] = IF i <= l THEN i ELSE 0
      BY <3>1
    <3>. QED BY <3>2, <3>3, <1>1
  <2>. QED BY <2>0, <2>1, <2>2
<1>4. a \o s = c
  BY <1>1, <1>2, <1>3, SeqEqual
<1>. QED BY <1>4 DEF a, c

LEMMA NothingShown == ASSUME NEW l \in Nat PROVE <<>> = Shown(0, l)
<1>1. Shown(0, l) \in Seq(Nat) /\ Len(Shown(0, l)) = 0
  BY ShownShape
<1>. QED BY <1>1, EmptySeq

(* What a system call takes, behind what was taken before.                   *)
LEMMA TakesFit ==
  ASSUME SocketInv, pc \in {"write", "sendfile"}, NEW n \in Nat
  PROVE  /\ sent \o Units(n) \in Seq(Nat)
         /\ Len(sent \o Units(n)) = buf + n
         /\ ~PartLost => sent \o Units(n) = Shown(buf + n, Offered)
<1>0. /\ sent \in Seq(Nat) /\ buf \in Nat /\ leftSize \in Int /\ size \in Nat
      /\ streamed \in Nat /\ length \in Nat /\ offset \in Nat
      /\ Len(sent) = buf /\ buf + leftSize = Offered /\ Offered \in Nat
  BY DEF SocketInv, TypeOK, SentFits, Offered
<1>1. Units(n) = [i \in 1..n |-> Unit(buf + i)]
  BY DEF Units
<1>2. \A i \in 1..n : Unit(buf + i) \in Nat
  BY <1>0 DEF Unit
<1>3. Units(n) \in [1..n -> Nat]
  BY <1>1, <1>2
<1>4. Units(n) \in Seq(Nat) /\ Len(Units(n)) = n
  BY <1>3, LenProperties
<1>5. sent \o Units(n) \in Seq(Nat) /\ Len(sent \o Units(n)) = buf + n
  BY <1>0, <1>4, ConcatProperties
<1>6. ASSUME ~PartLost PROVE sent \o Units(n) = Shown(buf + n, Offered)
  <2>1. sent = Shown(buf, Offered)
    BY <1>0, <1>6 DEF SocketInv, SentFits
  <2>2. \A i \in 1..n : Unit(buf + i) = IF buf + i <= Offered THEN buf + i ELSE 0
    BY <1>0, <1>6 DEF Unit, PartLost, Offered
  <2>3. \A i \in 1..n : Units(n)[i] = IF buf + i <= Offered THEN buf + i ELSE 0
    BY <1>1, <2>2
  <2>. HIDE DEF Offered
  <2>4. Shown(buf, Offered) \o Units(n) = Shown(buf + n, Offered)
    <3>1. PICK b, u, o : b = buf /\ u = Units(n) /\ o = Offered
      OBVIOUS
    <3>2. /\ b \in Nat /\ o \in Nat /\ u \in Seq(Nat) /\ Len(u) = n
          /\ \A i \in 1..n : u[i] = IF b + i <= o THEN b + i ELSE 0
      BY <1>0, <1>4, <2>3, <3>1
    <3>3. Shown(b, o) \o u = Shown(b + n, o)
      BY <3>2, ShownGrows
    <3>. QED BY <3>1, <3>3
  <2>. QED BY <2>1, <2>4
<1>. QED BY <1>5, <1>6

-----------------------------------------------------------------------------
(* Chunks of a stream. *)

LEMMA WholeChunks ==
  ASSUME NEW N \in Nat \ {0}, NEW x \in Nat, NEW q \in 0..x, x = q * N
  PROVE  /\ x % N = 0
         /\ \E p \in 0..x + N : x + N = p * N
<1>1. (N * q) % N = 0
  OBVIOUS
<1>2. x + N = (q + 1) * N /\ q + 1 \in 0..x + N
  OBVIOUS
<1>3. q * N = N * q
  OBVIOUS
<1>. QED BY <1>1, <1>2, <1>3

-----------------------------------------------------------------------------
(* The steps of a call. *)

\* What a step within a call leaves: its arguments, hence the conditions on them.
LEMMA SameCall ==
  ASSUME UNCHANGED args
  PROVE  /\ UNCHANGED <<kind, length, call, size, offset>>
         /\ PartLost' <=> PartLost
         /\ EndsEmpty' <=> EndsEmpty
         /\ drains' = drains => (Refilled' <=> Refilled)
         /\ streamed' = streamed => Offered' = Offered
         /\ ret' = ret => (Succeeded' <=> Succeeded)
BY DEF args, PartLost, EndsEmpty, Refilled, Offered, Succeeded

LEMMA SocketTypes ==
  ASSUME SocketInv
  PROVE  /\ SendBuffer \in Nat /\ SOCKET_BUF_SIZE \in Nat \ {0}
         /\ kind \in {"tcp", "ssl"}
         /\ room \in Nat /\ room <= SendBuffer /\ length \in Nat
         /\ size \in Nat /\ offset \in Nat /\ streamed \in Nat /\ streamed <= size
         /\ count \in Nat /\ buf \in Nat /\ leftSize \in Int /\ ret \in Int
         /\ sent \in Seq(Nat) /\ Len(sent) \in Nat /\ drains \in Nat
         /\ Offered \in Nat /\ Offered <= size
<1>1. sent \in Seq(Nat) /\ Len(sent) \in Nat
  BY LenProperties DEF SocketInv, TypeOK
<1>. QED BY <1>1, WriteAssumption DEF SocketInv, TypeOK, Offered

\* write(...) for all of a string or of a mapped part, or the loop of sendFile.
LEMMA StartsKeeps ==
  ASSUME SocketInv, Write \/ SslSendFile \/ SendFile
  PROVE  SocketInv'
<1>0. /\ pc = "start" /\ call # "sendStream" /\ UNCHANGED args
      /\ UNCHANGED <<streamed, eof, ret, sent, room, drains>>
      /\ count' = size /\ buf' = 0 /\ leftSize' = size
      /\ size > 0 /\ streamed = 0
      /\ \/ pc' = "write" /\ (call = "sendFile" => kind = "ssl")
         \/ pc' = "sendfile" /\ call = "sendFile" /\ kind = "tcp"
  <2>1. pc = "start" /\ call # "sendStream" /\ UNCHANGED args
        /\ UNCHANGED <<streamed, eof, sent, room, drains>>
    BY DEF Write, SslSendFile, SendFile
  <2>2. size > 0 /\ streamed = 0 /\ size \in Nat
    BY <2>1 DEF SocketInv, TypeOK, CallFits
  <2>3. CASE SendFile
    BY <2>1, <2>2, <2>3 DEF SendFile
  <2>4. CASE Write
    BY <2>1, <2>2, <2>4 DEF Write, CallWrite
  <2>5. CASE SslSendFile
    BY <2>1, <2>2, <2>5 DEF SslSendFile, CallWrite
  <2>. QED BY <2>1, <2>2, <2>3, <2>4, <2>5
<1>1. TypeOK'
  BY <1>0, SocketTypes DEF SocketInv, TypeOK, args
<1>2. CallFits'
  BY <1>0 DEF SocketInv, CallFits, args
<1>3. SentFits'
  <2>1. Offered' = size /\ Len(sent) = 0 /\ Offered = size
    BY <1>0, SameCall DEF SocketInv, SentFits, Offered
  <2>2. /\ UNCHANGED <<kind, length, call, size, offset, sent>>
        /\ PartLost' <=> PartLost
        /\ EndsEmpty' <=> EndsEmpty
        /\ Refilled' <=> Refilled
    BY <1>0, SameCall
  <2>. QED BY <1>0, <2>1, <2>2, SocketTypes DEF SocketInv, SentFits
<1>. QED BY <1>1, <1>2, <1>3 DEF SocketInv

\* The next chunk of a stream is written.
LEMMA ReadStreamKeeps ==
  ASSUME SocketInv, ReadStream
  PROVE  SocketInv'
<1> DEFINE gcount == Least(SOCKET_BUF_SIZE, size - streamed)
<1>0. /\ pc = "start" /\ call = "sendStream" /\ ~eof /\ UNCHANGED args
      /\ UNCHANGED <<sent, room, drains>>
      /\ streamed' = streamed + gcount /\ eof' = (gcount < SOCKET_BUF_SIZE)
      /\ count' = gcount /\ buf' = streamed /\ leftSize' = gcount
      /\ IF gcount = 0 THEN pc' = "written" /\ ret' = -1
                       ELSE pc' = "write" /\ ret' = ret
  BY DEF ReadStream, CallWrite
<1>1. /\ gcount \in Nat /\ streamed + gcount <= size
      /\ gcount < SOCKET_BUF_SIZE => streamed + gcount = size
      /\ ~(gcount < SOCKET_BUF_SIZE) => gcount = SOCKET_BUF_SIZE
  BY SocketTypes DEF Least
<1>2. PICK chunks \in 0..streamed : streamed = chunks * SOCKET_BUF_SIZE
  BY <1>0 DEF SocketInv, CallFits
<1>3. /\ streamed % SOCKET_BUF_SIZE = 0
      /\ \E more \in 0..streamed + SOCKET_BUF_SIZE :
           streamed + SOCKET_BUF_SIZE = more * SOCKET_BUF_SIZE
  BY <1>2, SocketTypes, WholeChunks
<1>4. gcount = 0 => EndsEmpty
  <2>1. gcount = 0 => streamed = size
    BY <1>1, SocketTypes
  <2>. QED BY <1>0, <1>3, <2>1 DEF EndsEmpty
<1>. HIDE DEF gcount
<1>5. TypeOK'
  <2>1. eof' \in BOOLEAN
    BY <1>0
  <2>2. pc' \in {"write", "written"} /\ ret' \in Int
    BY <1>0, SocketTypes
  <2>3. streamed' \in 0..size /\ count' \in Nat /\ buf' \in Nat /\ leftSize' \in Int
    BY <1>0, <1>1, SocketTypes
  <2>. QED BY <1>0, <2>1, <2>2, <2>3 DEF SocketInv, TypeOK, args
<1>6. CallFits'
  <2>1. CASE gcount < SOCKET_BUF_SIZE
    <3>1. eof' /\ streamed' = size'
      BY <1>0, <1>1, <2>1 DEF args
    <3>. QED BY <1>0, <3>1 DEF CallFits, args
  <2>2. CASE ~(gcount < SOCKET_BUF_SIZE)
    <3>1. ~eof' /\ streamed' = streamed + SOCKET_BUF_SIZE
      BY <1>0, <1>1, <2>2
    <3>. QED BY <1>0, <1>3, <3>1 DEF CallFits, args
  <2>. QED BY <2>1, <2>2
<1>7. SentFits'
  <2>1. Offered' = streamed + gcount /\ Offered = streamed /\ Len(sent) = streamed
    BY <1>0 DEF Offered, args, SocketInv, SentFits
  <2>2. /\ UNCHANGED <<kind, length, call, size, offset, sent>>
        /\ PartLost' <=> PartLost
        /\ EndsEmpty' <=> EndsEmpty
        /\ Refilled' <=> Refilled
    BY <1>0, SameCall
  <2>3. ~PartLost' => sent' = Shown(Len(sent'), Offered')
    <3>1. Shown(streamed, streamed) = Shown(streamed, streamed + gcount)
      BY <1>1, SocketTypes, ShownWithin
    <3>. QED BY <2>1, <2>2, <3>1 DEF SocketInv, SentFits
  <2>4. CASE gcount = 0
    BY <1>0, <1>1, <1>4, <2>1, <2>2, <2>3, <2>4, SocketTypes DEF SentFits
  <2>5. CASE gcount # 0
    BY <1>0, <1>1, <2>1, <2>2, <2>3, <2>5, SocketTypes DEF SentFits
  <2>. QED BY <2>4, <2>5
<1>. QED BY <1>5, <1>6, <1>7 DEF SocketInv

\* ::write or sendfile64 takes what fits.
LEMMA TakesKeeps ==
  ASSUME SocketInv, TcpTakes \/ FileTakes
  PROVE  SocketInv'
<1>1. PICK n \in Nat :
         /\ kind = "tcp" /\ pc \in {"write", "sendfile"}
         /\ UNCHANGED args /\ UNCHANGED <<streamed, eof, count, drains>>
         /\ sent' = sent \o Units(n) /\ room' = room - n /\ room - n \in Nat
         /\ buf' = buf + n /\ leftSize' = leftSize - n
         /\ n <= count \/ n <= leftSize
         /\ pc = "sendfile" => n <= leftSize
         /\ n = room \/ pc = "sendfile" \/ n = count
         /\ pc = "write" => room > 0
         /\ IF leftSize - n = 0
            THEN pc' = (IF pc = "write" THEN "written" ELSE "returned") /\ ret' = count
            ELSE UNCHANGED <<pc, ret>>
  <2>1. CASE TcpTakes
    <3> DEFINE n == Least(Asks, room)
    <3>1. n \in Nat /\ n <= count /\ n <= room /\ (n = room \/ n = count)
      BY SocketTypes DEF Least, Asks
    <3>2. room - n \in Nat
      BY <3>1, SocketTypes
    <3>. HIDE DEF n
    <3>3. /\ sent' = sent \o Units(n) /\ room' = room - n
          /\ buf' = buf + n /\ leftSize' = leftSize - n
          /\ IF leftSize - n = 0 THEN pc' = "written" /\ ret' = count
                                 ELSE UNCHANGED <<pc, ret>>
          /\ pc = "write" /\ kind = "tcp" /\ room > 0
          /\ UNCHANGED args /\ UNCHANGED <<streamed, eof, count, drains>>
      BY <2>1 DEF TcpTakes, n
    <3>. QED BY <3>1, <3>2, <3>3
  <2>2. CASE FileTakes
    <3> DEFINE n == Least(Least(FileAsks, room), Available)
    <3>0. pc = "sendfile" /\ kind = "tcp" /\ leftSize \in Nat /\ Available \in Nat
      <4>1. pc = "sendfile"
        BY <2>2 DEF FileTakes
      <4>2. kind = "tcp" /\ leftSize > 0
        BY <4>1 DEF SocketInv, SentFits
      <4>3. Available \in Nat
        BY SocketTypes DEF Available
      <4>. QED BY <4>1, <4>2, <4>3, SocketTypes
    <3>1. n \in Nat /\ n <= leftSize /\ n <= room
      BY <3>0, SocketTypes DEF Least, FileAsks
    <3>2. room - n \in Nat
      BY <3>1, SocketTypes
    <3>. HIDE DEF n
    <3>3. /\ sent' = sent \o Units(n) /\ room' = room - n
          /\ buf' = buf + n /\ leftSize' = leftSize - n
          /\ IF leftSize - n = 0 THEN pc' = "returned" /\ ret' = count
                                 ELSE UNCHANGED <<pc, ret>>
          /\ UNCHANGED args /\ UNCHANGED <<streamed, eof, count, drains>>
      BY <2>2 DEF FileTakes, n
    <3>. QED BY <3>0, <3>1, <3>2, <3>3
  <2>. QED BY <2>1, <2>2
<1>2. /\ kind = "tcp" /\ pc \in {"write", "sendfile"}
      /\ UNCHANGED args /\ UNCHANGED <<streamed, eof, count, drains>>
  BY <1>1
<1>3. /\ n \in Nat /\ room - n \in Nat
      /\ n <= count \/ n <= leftSize
      /\ pc = "sendfile" => n <= leftSize
      /\ n = room \/ pc = "sendfile" \/ n = count
      /\ pc = "write" => room > 0
  BY <1>1
<1>4. room' = room - n /\ buf' = buf + n /\ leftSize' = leftSize - n
  BY <1>1
<1>5. IF leftSize - n = 0
      THEN pc' = (IF pc = "write" THEN "written" ELSE "returned") /\ ret' = count
      ELSE UNCHANGED <<pc, ret>>
  BY <1>1
<1>6. /\ count \in Nat /\ buf \in Nat /\ leftSize \in Int /\ room \in Nat /\ Offered \in Nat
      /\ size \in Nat /\ room <= SendBuffer /\ SendBuffer \in Nat
  BY SocketTypes
<1>7. /\ sent' \in Seq(Nat) /\ Len(sent') = buf + n
      /\ ~PartLost => sent' = Shown(buf + n, Offered)
  BY <1>1, TakesFit
<1>8. TypeOK'
  <2>1. pc' \in {"write", "sendfile", "written", "returned"} /\ ret' \in Int
    BY <1>2, <1>5, SocketTypes
  <2>2. room' \in 0..SendBuffer /\ buf' \in Nat /\ leftSize' \in Int
    BY <1>3, <1>4, <1>6
  <2>. QED BY <1>2, <1>7, <2>1, <2>2 DEF SocketInv, TypeOK, args
<1>9. CallFits'
  <2>1. pc # "idle" /\ pc' # "idle"
    BY <1>2, <1>5
  <2>. QED BY <1>2, <2>1 DEF SocketInv, CallFits, args
<1>10. SentFits'
  <2>1. /\ UNCHANGED <<kind, length, call, size, offset>>
        /\ PartLost' <=> PartLost
        /\ EndsEmpty' <=> EndsEmpty
        /\ Refilled' <=> Refilled
        /\ Offered' = Offered
    BY <1>2, SameCall
  <2>2. /\ buf + leftSize = Offered /\ Len(sent) = buf /\ leftSize # 0
        /\ Offered \in Nat
    <3>1. CASE pc = "write"
      BY <3>1, <1>6 DEF SocketInv, SentFits
    <3>2. CASE pc = "sendfile"
      <4>1. call = "sendFile" /\ leftSize > 0 /\ buf + leftSize = size /\ Len(sent) = buf
        BY <3>2 DEF SocketInv, SentFits
      <4>. QED BY <4>1, <1>6 DEF Offered
    <3>. QED BY <1>2, <3>1, <3>2
  <2>3. CASE pc = "write"
    <3>0. /\ count > 0 /\ (call # "sendStream" => count = size)
          /\ call # "sendFile"
          /\ ~Refilled => leftSize = count \/ (room = 0 /\ leftSize > 0)
      BY <1>2, <2>3 DEF SocketInv, SentFits
    <3>1. ~Refilled => buf + n <= Offered
      BY <1>3, <1>6, <2>2, <2>3, <3>0
    <3>2. CASE leftSize - n = 0
      <4>1. pc' = "written" /\ ret' = count' /\ count' = count /\ Len(sent') = Offered
        BY <1>2, <1>3, <1>5, <1>6, <1>7, <2>2, <2>3, <3>2
      <4>. QED BY <1>7, <2>1, <2>2, <3>0, <3>1, <4>1, SocketTypes DEF SentFits
    <3>3. CASE leftSize - n # 0
      <4>1. pc' = "write" /\ leftSize' = leftSize - n /\ buf' = buf + n /\ count' = count
            /\ room' = room - n /\ buf + n + (leftSize - n) = Offered
        BY <1>2, <1>3, <1>4, <1>5, <1>6, <2>2, <2>3, <3>3
      <4>2. ~Refilled' => leftSize' = count' \/ (room' = 0 /\ leftSize' > 0)
        BY <1>3, <1>6, <2>1, <2>2, <2>3, <3>0, <3>3, <4>1
      <4>. QED BY <1>2, <1>6, <1>7, <2>1, <2>2, <3>0, <3>1, <3>3, <4>1, <4>2 DEF SentFits
    <3>. QED BY <3>2, <3>3
  <2>4. CASE pc = "sendfile"
    <3>0. /\ call = "sendFile" /\ kind = "tcp" /\ count = size /\ leftSize > 0
          /\ Offered = size /\ ~Refilled
      BY <2>4 DEF SocketInv, SentFits, Offered, Refilled
    <3>1. buf + n <= Offered
      BY <1>3, <1>6, <2>2, <2>4
    <3>2. CASE leftSize - n = 0
      <4>1. pc' = "returned" /\ ret' = size' /\ Len(sent') = size /\ Succeeded'
        BY <1>2, <1>3, <1>5, <1>6, <1>7, <2>1, <2>2, <2>4, <3>0, <3>2 DEF Succeeded
      <4>. QED BY <1>7, <2>1, <3>0, <3>1, <4>1, SocketTypes DEF SentFits
    <3>3. CASE leftSize - n # 0
      <4>1. pc' = "sendfile" /\ leftSize' = leftSize - n /\ buf' = buf + n /\ count' = count
            /\ leftSize' > 0 /\ buf + n + (leftSize - n) = Offered
        BY <1>2, <1>3, <1>4, <1>5, <1>6, <2>2, <2>4, <3>3
      <4>. QED BY <1>7, <2>1, <2>2, <3>0, <3>1, <4>1, SocketTypes DEF SentFits
    <3>. QED BY <3>2, <3>3
  <2>. QED BY <1>2, <2>3, <2>4
<1>. QED BY <1>8, <1>9, <1>10 DEF SocketInv

\* SSL_write takes all of it or fails.
LEMMA SslTakesKeeps ==
  ASSUME SocketInv, SslTakes
  PROVE  SocketInv'
<1>1. /\ pc = "write" /\ kind = "ssl" /\ pc' = "written"
      /\ UNCHANGED args /\ UNCHANGED <<streamed, eof, count, buf, leftSize, drains>>
  BY DEF SslTakes
<1>2. PICK n \in Nat :
         /\ sent' = sent \o Units(n) /\ room' = room - n /\ room - n \in Nat
         /\ n <= count
         /\ ret' = count \/ ret' = -1
         /\ ret' = count => n = count
         /\ ret' # count => n < count
  <2>0. count \in Nat /\ room \in Nat
    BY SocketTypes
  <2>1. CASE count <= room
    <3>1. sent' = sent \o Units(count) /\ room' = room - count /\ ret' = count
      BY <2>1 DEF SslTakes
    <3>2. room - count \in Nat
      BY <2>0, <2>1
    <3>. QED BY <2>0, <3>1, <3>2
  <2>2. CASE ~(count <= room)
    <3>1. PICK n \in 0..room : sent' = sent \o Units(n) /\ room' = room - n /\ ret' = -1
      BY <2>2 DEF SslTakes
    <3>2. n \in Nat /\ room - n \in Nat /\ n < count /\ n <= count /\ ret' # count
      BY <2>0, <2>2, <3>1
    <3>. QED BY <3>1, <3>2
  <2>. QED BY <2>1, <2>2
<1>3. /\ n \in Nat /\ n <= count /\ room' = room - n /\ room - n \in Nat
      /\ ret' = count \/ ret' = -1
      /\ ret' = count => n = count
      /\ ret' # count => n < count
  BY <1>2
<1>4. /\ sent' \in Seq(Nat) /\ Len(sent') = buf + n
      /\ ~PartLost => sent' = Shown(buf + n, Offered)
  BY <1>1, <1>2, TakesFit
<1>5. /\ count \in Nat /\ buf \in Nat /\ leftSize \in Int /\ room \in Nat /\ Offered \in Nat
      /\ size \in Nat /\ room <= SendBuffer /\ SendBuffer \in Nat
  BY SocketTypes
<1>6. /\ buf + leftSize = Offered /\ leftSize = count
      /\ call # "sendStream" => count = size
      /\ ~Refilled
  BY <1>1 DEF SocketInv, SentFits, Refilled
<1>7. TypeOK'
  <2>1. room' \in 0..SendBuffer /\ ret' \in Int
    BY <1>3, <1>5
  <2>. QED BY <1>1, <1>4, <2>1 DEF SocketInv, TypeOK, args
<1>8. CallFits'
  BY <1>1 DEF SocketInv, CallFits, args
<1>9. SentFits'
  <2>1. /\ UNCHANGED <<kind, length, call, size, offset>>
        /\ PartLost' <=> PartLost
        /\ EndsEmpty' <=> EndsEmpty
        /\ Refilled' <=> Refilled
        /\ Offered' = Offered
    BY <1>1, SameCall
  <2>2. Len(sent') <= Offered
    BY <1>3, <1>4, <1>5, <1>6
  <2>3. IF ret' = count' THEN Len(sent') = Offered' ELSE Len(sent') # Offered'
    BY <1>1, <1>3, <1>4, <1>5, <1>6, <2>1
  <2>. QED BY <1>1, <1>4, <1>6, <2>1, <2>2, <2>3 DEF SentFits
<1>. QED BY <1>7, <1>8, <1>9 DEF SocketInv

\* A call fails for want of room or of file.
LEMMA FullKeeps ==
  ASSUME SocketInv, TcpFull \/ FileFull
  PROVE  SocketInv'
<1>1. /\ UNCHANGED args
      /\ UNCHANGED <<streamed, eof, count, buf, leftSize, sent, room, drains>>
      /\ ret' = count - leftSize
      /\ \/ pc = "write" /\ pc' = "written" /\ kind = "tcp"
         \/ pc = "sendfile" /\ pc' = "returned"
  BY DEF TcpFull, FileFull, Unsent
<1>2. /\ count \in Nat /\ buf \in Nat /\ leftSize \in Int /\ Offered \in Nat /\ size \in Nat
      /\ Len(sent) \in Nat
  BY SocketTypes
<1>3. TypeOK'
  <2>1. ret' \in Int
    BY <1>1, <1>2
  <2>. QED BY <1>1, <2>1 DEF SocketInv, TypeOK, args
<1>4. CallFits'
  BY <1>1 DEF SocketInv, CallFits, args
<1>5. SentFits'
  <2>1. /\ UNCHANGED <<kind, length, call, size, offset>>
        /\ PartLost' <=> PartLost
        /\ EndsEmpty' <=> EndsEmpty
        /\ Refilled' <=> Refilled
        /\ Offered' = Offered
    BY <1>1, SameCall
  <2>2. CASE pc = "write"
    <3>1. /\ leftSize # 0 /\ buf + leftSize = Offered /\ Len(sent) = buf
          /\ call = "sendFile" => kind = "ssl"
          /\ call # "sendStream" => count = size
      BY <2>2 DEF SocketInv, SentFits
    <3>2. ret' # count /\ Len(sent) # Offered
      BY <1>1, <1>2, <3>1
    <3>. QED BY <1>1, <2>1, <2>2, <3>1, <3>2 DEF SocketInv, SentFits
  <2>3. CASE pc = "sendfile"
    <3>1. /\ leftSize > 0 /\ buf + leftSize = size /\ Len(sent) = buf
          /\ call = "sendFile" /\ count = size /\ Offered = size
      BY <2>3 DEF SocketInv, SentFits, Offered
    <3>2. ret' # size /\ Len(sent) # Offered
      BY <1>1, <1>2, <3>1
    <3>3. ~Succeeded'
      BY <2>1, <3>1, <3>2 DEF Succeeded
    <3>. QED BY <1>1, <2>1, <2>3, <3>1, <3>2, <3>3 DEF SocketInv, SentFits
  <2>. QED BY <1>1, <2>2, <2>3
<1>. QED BY <1>3, <1>4, <1>5 DEF SocketInv

\* A call comes back, or a stream goes on.
LEMMA ReturnsKeeps ==
  ASSUME SocketInv, WriteReturns \/ StreamWritten \/ StreamEnds \/ SslFaults
  PROVE  SocketInv'
<1>1. /\ UNCHANGED args
      /\ UNCHANGED <<streamed, eof, count, buf, leftSize, sent, room, drains>>
  BY DEF WriteReturns, StreamWritten, StreamEnds, SslFaults
<1>2. /\ UNCHANGED <<kind, length, call, size, offset>>
      /\ PartLost' <=> PartLost
      /\ EndsEmpty' <=> EndsEmpty
      /\ Refilled' <=> Refilled
      /\ Offered' = Offered
      /\ ret' = ret => (Succeeded' <=> Succeeded)
  BY <1>1, SameCall
<1>3. /\ pc' \in {"returned", "start", "fault"} /\ pc # "idle"
      /\ ret' = ret \/ ret' = 0 \/ ret' = 1
  BY DEF WriteReturns, StreamWritten, StreamEnds, SslFaults
<1>4. TypeOK'
  BY <1>1, <1>3 DEF SocketInv, TypeOK, args
<1>5. CallFits'
  BY <1>1, <1>3 DEF SocketInv, CallFits, args
<1>6. CASE WriteReturns
  <2>1. pc = "written" /\ pc' = "returned" /\ call # "sendStream" /\ ret' = ret
    BY <1>6 DEF WriteReturns
  <2>2. count = size /\ Offered = size
    BY <2>1 DEF SocketInv, SentFits, Offered
  <2>3. IF Succeeded' THEN Len(sent') = size' /\ Offered' = size'
                      ELSE EndsEmpty' \/ Len(sent') # Offered'
    BY <1>1, <1>2, <2>1, <2>2 DEF SocketInv, SentFits, Succeeded
  <2>4. SentFits'
    BY <1>1, <1>2, <2>1, <2>3 DEF SocketInv, SentFits
  <2>. QED BY <1>4, <1>5, <2>4 DEF SocketInv
<1>7. CASE StreamWritten
  <2>1. pc = "written" /\ call = "sendStream" /\ Offered = streamed
    BY <1>7 DEF StreamWritten, Offered
  <2>2. CASE ret = count
    <3>1. pc' = "start" /\ ret' = ret /\ Len(sent) = Offered
      BY <1>7, <2>1, <2>2 DEF StreamWritten, WroteAll, SocketInv, SentFits
    <3>2. SentFits'
      BY <1>1, <1>2, <2>1, <3>1 DEF SocketInv, SentFits
    <3>. QED BY <1>4, <1>5, <3>2 DEF SocketInv
  <2>3. CASE ret # count
    <3>1. pc' = "returned" /\ ret' = 0 /\ (EndsEmpty \/ Len(sent) # Offered)
      BY <1>7, <2>1, <2>3 DEF StreamWritten, WroteAll, SocketInv, SentFits
    <3>2. ~Succeeded'
      BY <1>2, <2>1, <3>1 DEF Succeeded
    <3>3. SentFits'
      BY <1>1, <1>2, <2>1, <3>1, <3>2 DEF SocketInv, SentFits
    <3>. QED BY <1>4, <1>5, <3>3 DEF SocketInv
  <2>. QED BY <2>2, <2>3
<1>8. CASE StreamEnds
  <2>1. pc = "start" /\ call = "sendStream" /\ eof /\ pc' = "returned" /\ ret' = 1
    BY <1>8 DEF StreamEnds
  <2>2. Offered = size /\ Len(sent) = size
    BY <2>1 DEF SocketInv, SentFits, CallFits, Offered
  <2>3. Succeeded'
    BY <1>2, <2>1 DEF Succeeded
  <2>4. SentFits'
    BY <1>1, <1>2, <2>1, <2>2, <2>3 DEF SocketInv, SentFits
  <2>. QED BY <1>4, <1>5, <2>4 DEF SocketInv
<1>9. CASE SslFaults
  <2>1. pc = "write" /\ pc' = "fault"
    BY <1>9 DEF SslFaults
  <2>2. SentFits'
    BY <1>1, <1>2, <2>1 DEF SocketInv, SentFits
  <2>. QED BY <1>4, <1>5, <2>2 DEF SocketInv
<1>. QED BY <1>6, <1>7, <1>8, <1>9

\* The peer makes room.
LEMMA DrainKeeps ==
  ASSUME SocketInv, Drain
  PROVE  SocketInv'
<1>1. /\ UNCHANGED args
      /\ UNCHANGED <<pc, streamed, eof, count, buf, leftSize, ret, sent>>
      /\ drains' = (IF pc = "idle" THEN drains ELSE drains + 1)
      /\ room' \in room + 1..SendBuffer
      /\ pc # "returned"
  BY DEF Drain
<1>2. /\ UNCHANGED <<kind, length, call, size, offset>>
      /\ PartLost' <=> PartLost
      /\ EndsEmpty' <=> EndsEmpty
      /\ Offered' = Offered
  BY <1>1, SameCall
<1>3. room \in Nat /\ drains \in Nat /\ SendBuffer \in Nat
  BY SocketTypes
<1>4. drains' \in Nat /\ room' \in 0..SendBuffer
  BY <1>1, <1>3
<1>5. TypeOK'
  BY <1>1, <1>4 DEF SocketInv, TypeOK, args
<1>6. CallFits'
  BY <1>1 DEF SocketInv, CallFits, args
<1>7. /\ Refilled => Refilled'
      /\ pc # "idle" /\ kind = "tcp" /\ call # "sendFile" => Refilled'
  BY <1>1, <1>2, <1>3 DEF Refilled
<1>8. pc = "write" => Refilled' \/ leftSize = count
  BY <1>7, SocketTypes DEF SocketInv, SentFits
<1>9. SentFits'
  BY <1>1, <1>2, <1>7, <1>8 DEF SocketInv, SentFits
<1>. QED BY <1>5, <1>6, <1>9 DEF SocketInv

-----------------------------------------------------------------------------
(* The invariant, by the actions of Answer. *)

\* A call begins, or none.
LEMMA BeginKeeps ==
  ASSUME SocketInv, NEW at \in {"idle", "start"}, NEW c \in {"write", "sendStream", "sendFile"},
         NEW s \in Nat, NEW o \in Nat, Begin(at, c, s, o),
         at = "start" /\ c # "sendStream" => s > 0, at = "idle" => c = "write",
         kind' \in Kinds, room' \in 0..SendBuffer, length' = length
  PROVE  SocketInv'
<1>1. /\ pc' = at /\ call' = c /\ size' = s /\ offset' = o
      /\ streamed' = 0 /\ eof' = FALSE /\ count' = 0 /\ buf' = 0 /\ leftSize' = 0
      /\ ret' = 0 /\ sent' = <<>> /\ drains' = 0
  BY DEF Begin
<1>2. <<>> \in Seq(Nat) /\ Len(<<>>) = 0
  BY EmptySeq
<1>3. Len(sent') = 0 /\ Offered' \in Nat
  BY <1>1, <1>2 DEF Offered
<1>4. TypeOK'
  <2>1. /\ streamed' \in 0..size' /\ count' \in Nat /\ buf' \in Nat /\ leftSize' \in Int
        /\ ret' \in Int /\ drains' \in Nat
    BY <1>1
  <2>2. eof' \in BOOLEAN
    BY <1>1
  <2>3. sent' \in Seq(Nat)
    BY <1>1, <1>2
  <2>. QED BY <1>1, <2>1, <2>2, <2>3 DEF SocketInv, TypeOK
<1>5. CallFits'
  <2>1. ~eof' /\ streamed' = 0 /\ 0 \in 0..0 /\ 0 = 0 * SOCKET_BUF_SIZE
    BY <1>1, SocketTypes
  <2>. QED BY <1>1, <2>1 DEF CallFits
<1>6. SentFits'
  <2>1. sent' = Shown(0, Offered')
    <3>1. PICK l : l = Offered'
      OBVIOUS
    <3>. QED BY <1>1, <1>3, <3>1, NothingShown
  <2>. QED BY <1>1, <1>3, <2>1 DEF SentFits
<1>. QED BY <1>4, <1>5, <1>6 DEF SocketInv

\* Somebody makes the file shorter, or nothing happens to the socket.
LEMMA ShorterKeeps ==
  ASSUME SocketInv, length' \in Nat, length' <= length, UNCHANGED <<kind, room, callState>>
  PROVE  SocketInv'
<1>1. /\ PartLost => PartLost'
      /\ EndsEmpty' <=> EndsEmpty
      /\ Refilled' <=> Refilled
      /\ Offered' = Offered
      /\ Succeeded' <=> Succeeded
  BY SocketTypes DEF PartLost, EndsEmpty, Refilled, Offered, Succeeded, callState
<1>2. TypeOK'
  BY DEF SocketInv, TypeOK, callState
<1>3. CallFits'
  BY DEF SocketInv, CallFits, callState
<1>4. SentFits'
  BY <1>1 DEF SocketInv, SentFits, callState
<1>. QED BY <1>2, <1>3, <1>4 DEF SocketInv

LEMMA SocketKeeps ==
  ASSUME SocketInv, Thread \/ Drain
  PROVE  SocketInv' /\ length' = length /\ (pc = "idle" => pc' = "idle")
         /\ UNCHANGED <<call, size, offset>>
<1>1. UNCHANGED args /\ (pc = "idle" => pc' = "idle")
  BY DEF Thread, Drain, Write, TcpTakes, TcpFull, SslTakes, SslFaults, WriteReturns, ReadStream,
         StreamWritten, StreamEnds, SendFile, FileTakes, FileFull, SslSendFile
<1>2. SocketInv'
  BY StartsKeeps, ReadStreamKeeps, TakesKeeps, SslTakesKeeps, FullKeeps, ReturnsKeeps, DrainKeeps
  DEF Thread
<1>. QED BY <1>1, <1>2 DEF args

\* The file, and the response to the request that is answered.
LEMMA AnswerFits ==
  ASSUME AnswerInv
  PROVE  /\ fileSize \in Size /\ fileSize \in Nat
         /\ stage \in {"head", "body"} =>
              Tells(response, request) /\ ServesPart(response, request)
<1>1. fileSize \in Size /\ fileSize \in Nat
  BY AnswerAssumption, RangeAssumption DEF AnswerInv, Size
<1>2. ASSUME stage \in {"head", "body"}
      PROVE  Tells(response, request) /\ ServesPart(response, request)
  <2>1. /\ request.size \in Nat
        /\ request.range # none => Readable(request.range)
    BY <1>2, AnswerAssumption DEF AnswerInv
  <2>2. response = CallHandler(Fresh(request.keepAlive), request)
    BY <1>2 DEF AnswerInv, OwnAnswer, Fresh
  <2>3. PICK r, k : r = request /\ k = request.keepAlive
    OBVIOUS
  <2>4. LET resp == CallHandler(Fresh(k), r) IN Tells(resp, r) /\ ServesPart(resp, r)
    BY <1>1, <2>1, <2>3, HandlersTell
  <2>. QED BY <2>2, <2>3, <2>4
<1>. QED BY <1>1, <1>2

\* The response speaks of the request as long as neither changes.
LEMMA OwnAnswerStays ==
  ASSUME OwnAnswer, UNCHANGED <<request, response, fileSize>>,
         stage' \in {"head", "body"} => stage \in {"head", "body"}
  PROVE  OwnAnswer'
BY DEF OwnAnswer, CallHandler, GetFile, WholeFile, PartOfFileFor

LEMMA HandleKeeps ==
  ASSUME AnswerInv, NEW r \in Requests, Handle(r)
  PROVE  AnswerInv'
<1>1. /\ stage = "idle" /\ stage' = "head" /\ request' = r /\ response' = Handled(r)
      /\ UNCHANGED <<kind, room, length, fileSize>>
      /\ r.range # none => Readable(r.range)
      /\ Begin("start", "write", RawSize(response'), 0)
  BY DEF Handle, Called
<1>2. response' = CallHandler(Fresh(r.keepAlive), r)
  BY <1>1 DEF AnswerInv, Handled, Fresh
<1>3. OwnAnswer'
  <2>1. response' = CallHandler(SetKeepAlive(NewResponse, request'.keepAlive), r)
    BY <1>1, <1>2 DEF Fresh
  <2>2. PICK p : p = SetKeepAlive(NewResponse, request'.keepAlive)
    OBVIOUS
  <2>3. response' = CallHandler(p, r)
    BY <2>1, <2>2
  <2>4. response' = CallHandler(p, r)'
    <3>1. fileSize' = fileSize
      BY <1>1
    <3>2. CallHandler(p, r)' = CallHandler(p, r)
      BY <3>1 DEF CallHandler, GetFile, WholeFile, PartOfFileFor
    <3>. QED BY <2>3, <3>2
  <2>. QED
    BY <1>1, <2>2, <2>4 DEF OwnAnswer, CallHandler, GetFile, WholeFile, PartOfFileFor
<1>4. r.size \in Nat /\ fileSize \in Size
  BY AnswerAssumption, AnswerFits
<1>5. Tells(response', r)
  <2>1. PICK k : k = r.keepAlive
    OBVIOUS
  <2>2. LET resp == CallHandler(Fresh(k), r) IN Tells(resp, r) /\ ServesPart(resp, r)
    BY <1>1, <1>4, HandlersTell
  <2>. QED BY <1>2, <2>1, <2>2
<1>6. RawSize(response') \in Nat /\ RawSize(response') > 0
  BY <1>5 DEF RawSize, Tells
<1>7. SocketInv'
  <2>1. PICK s : s = RawSize(response')
    OBVIOUS
  <2>2. kind' \in Kinds /\ room' \in 0..SendBuffer
    BY <1>1 DEF AnswerInv, SocketInv, TypeOK
  <2>. QED BY <1>1, <1>6, <2>1, <2>2, BeginKeeps DEF AnswerInv
<1>8. pc' = "start" /\ call' = "write" /\ size' = RawSize(response')
  BY <1>1 DEF Begin
<1>. QED BY <1>1, <1>3, <1>7, <1>8 DEF AnswerInv

\* A request that gets no answer.
LEMMA UnansweredKeeps ==
  ASSUME AnswerInv, NEW r, HandleInVain(r) \/ HandlerThrows(r)
  PROVE  AnswerInv'
<1>1. /\ stage = "idle" /\ stage' \in {"idle", "terminated"}
      /\ UNCHANGED <<kind, room, length, fileSize, callState>>
      /\ response' = NewResponse
  BY DEF HandleInVain, HandlerThrows, Called, socketVars, AnswerInv, ResetResponse
<1>2. SocketInv'
  BY <1>1, ShorterKeeps, SocketTypes DEF AnswerInv
<1>3. pc' = "idle"
  BY <1>1 DEF AnswerInv, callState
<1>. QED BY <1>1, <1>2, <1>3 DEF AnswerInv, OwnAnswer

\* process returns.
LEMMA FinishKeeps ==
  ASSUME AnswerInv, NEW isKept, Finish(isKept), UNCHANGED <<kind, room, length, fileSize>>
  PROVE  AnswerInv'
<1>1. /\ stage' \in {"idle", "closed"} /\ response' = NewResponse
      /\ Begin("idle", "write", 0, 0)
  BY DEF Finish, ResetResponse, NoCall
<1>2. kind' \in Kinds /\ room' \in 0..SendBuffer
  BY DEF AnswerInv, SocketInv, TypeOK
<1>3. SocketInv'
  BY <1>1, <1>2, BeginKeeps DEF AnswerInv
<1>4. pc' = "idle"
  BY <1>1 DEF Begin
<1>. QED BY <1>1, <1>3, <1>4 DEF AnswerInv, OwnAnswer

LEMMA VisitBodyKeeps ==
  ASSUME AnswerInv, VisitBody
  PROVE  AnswerInv'
<1>0. /\ stage = "head" /\ UNCHANGED <<kind, room, length, fileSize>>
      /\ response.body.type # "text" => UNCHANGED <<request, response>>
  BY DEF VisitBody
<1>1. /\ response.body.type \in {"text", "stream", "file"} /\ response.body.count \in Nat
      /\ response.body.type = "file" =>
           response.body.count > 0 /\ response.body.offset \in Nat
  BY <1>0, AnswerFits DEF Tells, ServesPart
<1>2. kind' \in Kinds /\ room' \in 0..SendBuffer
  BY <1>0 DEF AnswerInv, SocketInv, TypeOK
<1>3. CASE response.body.type = "text"
  <2>1. Finish(response.keepAlive)
    BY <1>3 DEF VisitBody
  <2>2. PICK isKept : isKept = response.keepAlive
    OBVIOUS
  <2>. QED BY <1>0, <2>1, <2>2, FinishKeeps
<1>4. ASSUME NEW c \in {"sendStream", "sendFile"}, NEW s \in Nat, NEW o \in Nat,
             response.body.type = (IF c = "sendStream" THEN "stream" ELSE "file"),
             s = response.body.count, c = "sendFile" => s > 0,
             stage' = "body", Begin("start", c, s, o)
      PROVE  AnswerInv'
  <2>1. SocketInv'
    BY <1>0, <1>2, <1>4, BeginKeeps DEF AnswerInv
  <2>2. UNCHANGED <<request, response>> /\ call' = c /\ size' = s
    BY <1>0, <1>4 DEF Begin
  <2>3. OwnAnswer'
    BY <1>0, <2>2, OwnAnswerStays DEF AnswerInv
  <2>. QED BY <1>0, <1>4, <2>1, <2>2, <2>3 DEF AnswerInv
<1>5. CASE response.body.type = "stream"
  <2>1. stage' = "body" /\ Begin("start", "sendStream", response.body.count, 0)
    BY <1>5 DEF VisitBody
  <2>2. PICK s : s = response.body.count
    OBVIOUS
  <2>. QED BY <1>1, <1>4, <1>5, <2>1, <2>2
<1>6. CASE response.body.type = "file"
  <2>1. /\ stage' = "body"
        /\ Begin("start", "sendFile", response.body.count, response.body.offset)
    BY <1>6 DEF VisitBody
  <2>2. PICK s, o : s = response.body.count /\ o = response.body.offset
    OBVIOUS
  <2>. QED BY <1>1, <1>4, <1>6, <2>1, <2>2
<1>. QED BY <1>1, <1>3, <1>5, <1>6

LEMMA AcceptKeeps ==
  ASSUME AnswerInv, Accept
  PROVE  AnswerInv'
<1>1. /\ stage = "closed" /\ stage' = "idle" /\ kind' \in Kinds /\ room' = SendBuffer
      /\ UNCHANGED <<length, request, response, fileSize>>
      /\ UNCHANGED <<pc, call, size, offset, streamed, eof, count, buf, leftSize, ret, sent, drains>>
  BY DEF Accept, callState
<1>2. /\ pc = "idle" /\ call = "write" /\ streamed = 0 /\ Len(sent) = 0 /\ Offered = size
  BY <1>1 DEF AnswerInv, SocketInv, CallFits, SentFits, Offered
<1>3. room' \in 0..SendBuffer /\ ~PartLost /\ ~PartLost' /\ Offered' = Offered
  BY <1>1, <1>2, WriteAssumption DEF PartLost, Offered
<1>4. TypeOK'
  BY <1>1, <1>3 DEF AnswerInv, SocketInv, TypeOK
<1>5. CallFits'
  BY <1>1, <1>2 DEF AnswerInv, SocketInv, CallFits
<1>6. SentFits'
  <2>1. sent = Shown(Len(sent), Offered) /\ Len(sent) <= Offered
    BY <1>2, <1>3, SocketTypes DEF AnswerInv, SocketInv, SentFits
  <2>. QED BY <1>1, <1>2, <1>3, <2>1 DEF SentFits
<1>. QED BY <1>1, <1>2, <1>4, <1>5, <1>6 DEF AnswerInv, SocketInv, OwnAnswer

LEMMA TruncateKeeps ==
  ASSUME AnswerInv, Truncate
  PROVE  AnswerInv'
<1>1. /\ UNCHANGED <<kind, room, callState, stage, request, response, fileSize>>
      /\ length' \in Nat /\ length' <= length /\ length' <= fileSize
  BY AnswerFits DEF Truncate
<1>2. SocketInv'
  BY <1>1, ShorterKeeps DEF AnswerInv
<1>3. OwnAnswer'
  BY <1>1, OwnAnswerStays DEF AnswerInv
<1>4. UNCHANGED <<pc, call, size>>
  BY <1>1 DEF callState
<1>. QED BY <1>1, <1>2, <1>3, <1>4 DEF AnswerInv

LEMMA SocketStepKeeps ==
  ASSUME AnswerInv, Socket
  PROVE  AnswerInv'
<1>1. UNCHANGED <<stage, request, response, fileSize>>
  BY DEF Socket
<1>2. SocketInv' /\ length' = length /\ (pc = "idle" => pc' = "idle")
      /\ UNCHANGED <<call, size, offset>>
  BY SocketKeeps DEF Socket, AnswerInv
<1>3. OwnAnswer'
  BY <1>1, OwnAnswerStays DEF AnswerInv
<1>. QED BY <1>1, <1>2, <1>3 DEF AnswerInv

LEMMA InitAnswer == Init => AnswerInv
<1> SUFFICES ASSUME Init PROVE AnswerInv
  OBVIOUS
<1>1. fileSize \in FileSizes /\ length = fileSize /\ stage = "idle" /\ response = NewResponse
      /\ pc = "idle" /\ call = "write" /\ size = 0
  BY DEF Init, InitSocket
<1>2. length \in Nat
  BY <1>1, AnswerAssumption, RangeAssumption DEF Size
<1>3. sent = <<>> /\ sent \in Seq(Nat) /\ Len(sent) = 0
  BY EmptySeq DEF Init, InitSocket
<1>4. TypeOK
  <2>1. /\ kind \in Kinds /\ room = SendBuffer
        /\ offset = 0 /\ streamed = 0
        /\ count = 0 /\ buf = 0 /\ leftSize = 0 /\ ret = 0 /\ drains = 0
    BY DEF Init, InitSocket
  <2>2. eof \in BOOLEAN
    BY DEF Init, InitSocket
  <2>. QED BY <1>1, <1>2, <1>3, <2>1, <2>2, WriteAssumption DEF TypeOK
<1>5. CallFits
  BY <1>1 DEF CallFits, Init, InitSocket
<1>6. SentFits
  <2>1. sent = Shown(0, 0)
    BY <1>3, NothingShown
  <2>2. Offered = 0 /\ streamed = 0
    BY <1>1 DEF Offered, Init, InitSocket
  <2>. QED BY <1>1, <1>3, <2>1, <2>2 DEF SentFits
<1>. QED BY <1>1, <1>2, <1>4, <1>5, <1>6 DEF AnswerInv, SocketInv, OwnAnswer

LEMMA NextAnswer == AnswerInv /\ [Next]_vars => AnswerInv'
<1> SUFFICES ASSUME AnswerInv, [Next]_vars PROVE AnswerInv'
  OBVIOUS
<1>1. ASSUME NEW r \in Requests, Handle(r) \/ HandleInVain(r) \/ HandlerThrows(r)
      PROVE  AnswerInv'
  BY <1>1, HandleKeeps, UnansweredKeeps
<1>2. CASE HeadFails
  <2>1. PICK isKept : isKept = FALSE
    OBVIOUS
  <2>. QED BY <1>2, <2>1, FinishKeeps DEF HeadFails
<1>3. CASE BodySent
  <2>1. PICK isKept : isKept = (Succeeded /\ response.keepAlive)
    OBVIOUS
  <2>. QED BY <1>3, <2>1, FinishKeeps DEF BodySent
<1>4. CASE UNCHANGED vars
  <2>1. UNCHANGED <<kind, room, length, callState, stage, request, response, fileSize>>
    BY <1>4 DEF vars, socketVars
  <2>2. SocketInv'
    BY <2>1, ShorterKeeps, SocketTypes DEF AnswerInv
  <2>3. OwnAnswer'
    BY <2>1, OwnAnswerStays DEF AnswerInv
  <2>4. UNCHANGED <<pc, call, size>>
    BY <2>1 DEF callState
  <2>. QED BY <2>1, <2>2, <2>3, <2>4 DEF AnswerInv
<1>. QED
  BY <1>1, <1>2, <1>3, <1>4, VisitBodyKeeps, AcceptKeeps, TruncateKeeps, SocketStepKeeps
  DEF Next

-----------------------------------------------------------------------------
(* The theorems. *)

(* The inductive invariant holds: whatever a call has sent is its data up to *)
(* the place it was given, and it is the call that the body asks for.        *)
THEOREM AnswerInvariant == Spec => []AnswerInv
BY InitAnswer, NextAnswer, PTL DEF Spec

(* Nothing of an earlier answer is left in the thread's response.            *)
THEOREM AnswersAreOwn == Spec => []OwnAnswer
<1>1. AnswerInv => OwnAnswer
  BY DEF AnswerInv
<1>. QED BY <1>1, AnswerInvariant, PTL

(* A call sends its data from the beginning and nothing else, but a          *)
(* TcpSocket::write that is refilled and a mapped file that gets shorter.    *)
THEOREM CallsSendPrefixes == Spec => []CallSendsPrefix
<1>1. AnswerInv => CallSendsPrefix
  <2> SUFFICES ASSUME AnswerInv, ~Refilled, ~PartLost PROVE SentIsPrefix
    BY DEF CallSendsPrefix
  <2>1. /\ Len(sent) \in Nat /\ Offered \in Nat /\ Offered <= size /\ size \in Nat
    BY SocketTypes DEF AnswerInv
  <2>2. sent = Shown(Len(sent), Offered) /\ Len(sent) <= Offered
    BY DEF AnswerInv, SocketInv, SentFits
  <2>3. sent = Prefix(Len(sent))
    BY <2>1, <2>2, ShownWithin
  <2>. QED BY <2>1, <2>2, <2>3 DEF SentIsPrefix
<1>. QED BY <1>1, AnswerInvariant, PTL

(* A call reports success exactly when the kernel has taken all of the data  *)
(* and nothing else, also when a TcpSocket::write was refilled; but streams  *)
(* that end in an empty chunk and a mapped file that gets shorter.           *)
THEOREM SuccessIsExact == Spec => []CallSuccessExact
<1>1. AnswerInv => CallSuccessExact
  <2> SUFFICES ASSUME AnswerInv, ~PartLost, ~EndsEmpty, pc = "returned"
               PROVE  Succeeded <=> sent = Prefix(size)
    BY DEF CallSuccessExact, SuccessExact
  <2>1. /\ Len(sent) \in Nat /\ Offered \in Nat /\ Offered <= size /\ size \in Nat
    BY SocketTypes DEF AnswerInv
  <2>2. /\ sent = Shown(Len(sent), Offered)
        /\ IF Succeeded THEN Len(sent) = size /\ Offered = size
                        ELSE Len(sent) # Offered
    BY DEF AnswerInv, SocketInv, SentFits
  <2>3. Succeeded => sent = Prefix(size)
    BY <2>1, <2>2, ShownWithin
  <2>4. ASSUME sent = Prefix(size) PROVE Len(sent) = Offered
    <3>1. Len(sent) = size /\ Len(sent) <= Offered
      BY <2>1, <2>2, <2>4, ShownIsPrefix
    <3>. QED BY <2>1, <3>1
  <2>. QED BY <2>2, <2>3, <2>4
<1>. QED BY <1>1, AnswerInvariant, PTL

(* Whatever the Range header says, what is sent is not empty, lies in the    *)
(* file as the pool knows it and is what Content-Range announces; nothing    *)
(* wraps, whatever the width of a size_t.                                    *)
THEOREM PartLiesInFile == Spec => []PartOfFile
<1>1. AnswerInv => PartOfFile
  BY AnswerFits DEF PartOfFile, SendsFile, ServesPart, Tells
<1>. QED BY <1>1, AnswerInvariant, PTL

(* A range with its end before the end of the file is served as asked, and   *)
(* one without an end is served to the end of the file.                      *)
THEOREM RangeIsServed == Spec => []RangeServed
<1>1. AnswerInv => RangeServed
  BY AnswerFits DEF RangeServed, SendsFile, Serves, ServesPart
<1>. QED BY <1>1, AnswerInvariant, PTL

(* When a connection is kept the client has got as many units of the body as *)
(* the head has announced, so that both agree where the next answer begins;  *)
(* but for a stream with its beginning read already.                         *)
THEOREM ClientStaysInSync == Spec => InSync
<1> DEFINE Agree == KeptOpen /\ request.target # "/resume" => Agreed
<1>1. AnswerInv /\ [Next]_vars => [Agree]_vars
  <2> SUFFICES ASSUME AnswerInv, Next, KeptOpen, request.target # "/resume",
                      Told \/ Bodiless
               PROVE  BodyUnits = Promised
    BY DEF Agreed, KeptOpen, vars
  <2>1. /\ Tells(response, request) /\ stage \in {"head", "body"} /\ stage' = "idle"
        /\ Len(sent) \in Nat /\ response.body.count \in Nat
    BY AnswerFits, SocketTypes DEF KeptOpen, AnswerInv, Tells
  <2>2. Promised = response.body.count
    <3>1. CASE Bodiless
      BY <2>1, <3>1 DEF Tells, Bodiless, Promised, NoBody
    <3>2. CASE ~Bodiless
      BY <2>1, <3>2 DEF Tells, Bodiless, Promised, Told
    <3>. QED BY <3>1, <3>2
  <2>3. VisitBody \/ BodySent
    BY <2>1 DEF Next, Handle, HandleInVain, HandlerThrows, Called, HeadFails, Finish, Accept,
                Truncate, Socket
  <2>4. CASE VisitBody
    <3>1. stage = "head" /\ pc = "returned" /\ ret = size /\ response.body.type = "text"
      BY <2>1, <2>4 DEF VisitBody, Tells
    <3>2. call = "write" /\ size = RawSize(response)
      BY <3>1 DEF AnswerInv
    <3>3. Len(sent) = size
      BY <3>1, <3>2 DEF AnswerInv, SocketInv, SentFits, Succeeded
    <3>. QED BY <2>1, <2>2, <3>1, <3>2, <3>3 DEF RawSize, BodyUnits
  <2>5. CASE BodySent
    <3>1. stage = "body" /\ pc = "returned" /\ Succeeded
      BY <2>1, <2>5 DEF BodySent, Finish
    <3>2. Len(sent) = size /\ size = response.body.count
      BY <3>1 DEF AnswerInv, SocketInv, SentFits
    <3>. QED BY <2>1, <2>2, <3>1, <3>2 DEF BodyUnits
  <2>. QED BY <2>3, <2>4, <2>5
<1>. QED BY <1>1, AnswerInvariant, PTL DEF Spec, InSync, Agree
=============================================================================
