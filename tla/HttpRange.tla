------------------------------- MODULE HttpRange -------------------------------
(***************************************************************************)
(* Part of a file for a Range header: HttpRequest::parseRange              *)
(* (src/http/httprequest.cpp) and HttpResponse::replyRange                 *)
(* (src/http/httpresponse.cpp).  A size_t is a number modulo SIZE.         *)
(***************************************************************************)
EXTENDS Integers

CONSTANTS
  SIZE,     \* 2^w: size_t wraps there
  open,     \* "bytes=5-"
  malformed \* anything that is not "bytes=", digits, "-", perhaps digits

Size == 0..SIZE - 1

ASSUME RangeAssumption ==
  /\ SIZE \in Nat \ {0}
  /\ open \notin Nat
  /\ malformed \notin [first : Nat, last : Nat \cup {open}]

\* Every number of the header is a size_t; otherwise stoul throws, and nothing up to
\* the thread's function catches it.
Readable(header) ==
  header # malformed => header.first \in Size /\ header.last \in Size \cup {open}

\* parseRange: an end that is left out is 0, and so is all of a malformed header.
ParseRange(header) ==
  IF header = malformed THEN <<0, 0>>
  ELSE <<header.first, IF header.last = open THEN 0 ELSE header.last>>

Minus(m, n) == (m - n) % SIZE
Plus(m, n) == (m + n) % SIZE

\* range.first >= total || range.second >= total
OutOfFile(r, total) == r[1] >= total \/ r[2] >= total

\* Mutant of Valid: an end before the start is taken as it is.
Valid_asGiven(r, total) == IF OutOfFile(r, total) THEN <<0, Minus(total, 1)>> ELSE r
\* Mutant of Valid: only the start is compared with the size.
Valid_start(r, total) ==
  IF r[1] >= total THEN <<0, Minus(total, 1)>>
  ELSE IF r[2] <= r[1] THEN <<r[1], Minus(total, 1)>> ELSE r
\* "To valid range"
Valid(r, total) ==
  IF OutOfFile(r, total) THEN <<0, Minus(total, 1)>>
  ELSE IF r[2] <= r[1] THEN <<r[1], Minus(total, 1)>> ELSE r

\* offset, count and what Content-Range says: "bytes first-last/total"
ReplyRange(range, total) ==
  LET r == Valid(range, total) IN
  [offset |-> r[1], count |-> Plus(Minus(r[2], r[1]), 1), says |-> <<r[1], r[2], total>>]
=============================================================================
