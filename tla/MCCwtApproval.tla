---------------------------- MODULE MCCwtApproval ----------------------------
(* Instances of CwtApproval for TLC.                                       *)
EXTENDS CwtApproval, TLC

CONSTANTS a1, a2, p1, p2

Symmetry == Permutations(Proc)
=============================================================================
