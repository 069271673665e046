----------------------------- MODULE MCSessions -----------------------------
(* Instances of Sessions for TLC.                                          *)
EXTENDS Sessions

CONSTANTS a1, u1, u2

Owner == [t \in Token |-> IF t = a1 THEN "admin" ELSE "user"]

FairSpec == Spec /\ Fairness
=============================================================================
