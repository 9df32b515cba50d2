---------------------------- MODULE MCTimerManager ----------------------------
(* TLC instance of TimerManager; the connections are interchangeable. *)
EXTENDS TimerManager
CONSTANTS u1, u2, u3
MCUsers == {u1, u2, u3}
MCTimeouts == {1, 2}
MCTimeoutsFar == {1, 3}
Symmetry == Permutations(MCUsers)
=============================================================================
