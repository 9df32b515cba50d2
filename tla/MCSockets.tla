------------------------------ MODULE MCSockets ------------------------------
(* TLC instances of Sockets. *)
EXTENDS Sockets, TLC
CONSTANTS p1, p2, o1, o2, o3, o4
MCLoops == {p1, p2}
MCOneLoop == {p1}
MCMemory == {o1, o2, o3, o4}
MCAttempts == <<FALSE, TRUE>>
Symmetry == Permutations(Loops) \cup Permutations(Memory)
=============================================================================
