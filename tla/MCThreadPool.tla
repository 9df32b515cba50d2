----------------------------- MODULE MCThreadPool -----------------------------
(* TLC instances of ThreadPool. *)
EXTENDS ThreadPool, TLC
CONSTANTS w1, w2, t1, t2, t3
MCOneWorker  == {w1}
MCTwoWorkers == {w1, w2}
MCOneTask    == {t1}
MCTasks      == {t1, t2, t3}
Symmetry     == Permutations(Workers) \cup Permutations(Tasks)
=============================================================================
