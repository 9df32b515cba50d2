---------------------------- MODULE MCHttpServices ----------------------------
(* TLC instances of HttpServices. *)
EXTENDS HttpServices, TLC
CONSTANTS c1, c2
MCConns   == {c1, c2}

MCGet  == [method |-> "GET", uri |-> "/a", args |-> <<>>, headers |-> <<<<"Host", "h">>>>,
           close |-> FALSE, body |-> <<>>]
MCPost == [method |-> "POST", uri |-> "/%62", args |-> <<"x", "y">>,
           headers |-> <<<<"connection", "Close">>, <<"Connection", "x">>>>,
           close |-> TRUE, body |-> <<"x">>]
MCBoth == <<MCGet, MCPost>>
MCJunk == <<"x">>
\* (of MCGet) Behind the method, the LF of the first line, the last CR.
MCCuts == {1, 7, 14}

MCPlain(text, length) == [length |-> length, folded |-> text, unescaped |-> text]
MCWord ==
  [text \in {" ", "?", "&", ":", "CR", "LF", "x", "y", "h"} |-> MCPlain(text, 1)]
  @@ "GET" :> MCPlain("get", 3) @@ "POST" :> MCPlain("post", 4)
  @@ "/a" :> MCPlain("/a", 2) @@ "/b" :> MCPlain("/b", 2)
  @@ "/%62" :> [length |-> 4, folded |-> "/%62", unescaped |-> "/b"]
  @@ "HTTP/1.1" :> MCPlain("http/1.1", 8) @@ "Host" :> MCPlain("host", 4)
  @@ "Connection" :> MCPlain("connection", 10) @@ "connection" :> MCPlain("connection", 10)
  @@ "Close" :> MCPlain("close", 5) @@ "close" :> MCPlain("close", 5)

MCOf(method, uri) == [method |-> method, uri |-> uri]
MCHandlers == {MCOf(<<"GET">>, <<"/a">>), MCOf(<<"GET">>, any),
               MCOf(<<"POST">>, <<"/a">>), MCOf(any, any)}
MCOneHandler == {MCOf(<<"GET">>, <<"/a">>)}
Symmetry == Permutations(Conns)
=============================================================================
