---------------------------- MODULE MCUsageMeter ----------------------------
(* Instances of UsageMeter for TLC.                                        *)
EXTENDS UsageMeter, TLC

CONSTANTS p1, p2,
          Alone     \* operations that overlap no other operation

Symmetry == Permutations(Proc)

(* A start overlaps no other operation; decisions come at any time.        *)
Overlap == \E p, q \in Proc : /\ p # q /\ task[p].op \in Alone
                              /\ task[q].pc # "idle"

MCNext == Next /\ ~Overlap'

MCSpec == Init /\ [][MCNext]_vars
MCFairSpec == MCSpec /\ Fairness
=============================================================================
