------------------------------- MODULE MCAnswer -------------------------------
(* TLC instances of Answer: numbers of three bits, Range headers up to the first
   number that does not fit. *)
EXTENDS Answer
MCRequest(method, target) ==
  [method |-> method, target |-> target, keepAlive |-> TRUE, range |-> none,
   since |-> FALSE, size |-> 0]
MCFile == MCRequest("GET", "/file")
MCRanges == {[MCFile EXCEPT !.range = range] :
               range \in [first : 0..8, last : 0..8 \cup {open}] \cup {malformed}}
MCSized(method, target, sizes) == {[MCRequest(method, target) EXCEPT !.size = n] : n \in sizes}
MCStreams == MCSized("GET", "/stream", {0, 1, 2, 3})
MCResumed == MCSized("GET", "/resume", {2, 3})
MCPosts == MCSized("POST", "/post", {0, 2, 4})
MCOthers ==
  {MCRequest("GET", "/broken"), MCRequest("GET", "/unavailable"), MCRequest("GET", "/missing"), MCRequest("HEAD", "/file"), MCRequest("HEAD", "/missing"),
   MCRequest("POST", "/missing"), MCRequest("PUT", "/post"), MCFile,
   [MCFile EXCEPT !.since = TRUE], [MCRequest("GET", "/hello") EXCEPT !.keepAlive = FALSE]}
MCAll == MCRanges \cup MCStreams \cup MCResumed \cup MCPosts \cup MCOthers
MCFileSizes == {0, 1, 3, 6}
=============================================================================
