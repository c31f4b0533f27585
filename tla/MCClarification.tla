-------------------------- MODULE MCClarification --------------------------
(* Small instances of Clarification for TLC.                               *)
EXTENDS Clarification, TLC

CONSTANTS p1, p2, a1, a2

One == <<a1>>
Two == <<a1, a2>>
Symmetry == Permutations(Proc)
=============================================================================
