----------------------------- MODULE MCWebServer -----------------------------
(* TLC instances of WebServer.  Loops are interchangeable and so are clients. *)
EXTENDS WebServer
CONSTANTS p1, p2, http, https, c1, c2, c3
MCOneLoop    == {p1}
MCTwoLoops   == {p1, p2}
MCHttp       == {http}
MCHttps      == {https}
MCBoth       == {http, https}
MCNone       == {}
MCOneConn    == {c1}
MCTwoConns   == {c1, c2}
MCJoining    == {"joining"}
MCStarting   == {"starting"}
MCAnyTime    == {"starting", "joining"}
Symmetry     == Permutations(Loops) \cup Permutations(Conns)
=============================================================================
