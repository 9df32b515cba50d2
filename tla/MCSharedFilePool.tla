--------------------------- MODULE MCSharedFilePool ---------------------------
(* TLC instances of SharedFilePool. *)
EXTENDS SharedFilePool, TLC
CONSTANTS t1, t2, f1, f2, f3
MCTwoThreads == {t1, t2}
MCTwoFiles   == {f1, f2}
MCThreeFiles == {f1, f2, f3}
Symmetry     == Permutations(Threads) \cup Permutations(Files)
=============================================================================
