------------------------------- MODULE MCStore -------------------------------
(* Two processes that run wallet commands on one directory. *)
EXTENDS Store, TLC

CONSTANTS p1, p2

AllProcesses == {p1, p2}

Symmetry == Permutations(AllProcesses)
=============================================================================
