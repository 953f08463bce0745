------------------------------ MODULE MCDevEnv ------------------------------
(* A small instance of DevEnv for TLC: two environments, one of them the   *)
(* default one, worked on at the same time.                                *)
EXTENDS DevEnv, TLC

CONSTANTS p1, p2, p3, r1, r2

MCReserved == <<r1, r2>>

Symmetry == Permutations(Ports)
=============================================================================
