-------------------------- MODULE MCTenantLifecycle --------------------------
(* Instances of TenantLifecycle for TLC: TenantLifecycle itself, with a    *)
(* bound on the number of operations one behaviour issues.                 *)
EXTENDS TenantLifecycle, TLC

CONSTANTS t1, t2, p1, p2,
          MaxRequests,   \* operations issued in one behaviour
          FreeOps        \* operations that are not counted: recurring timers

VARIABLE issued          \* operations issued so far

(* Internal ports above the public range: a configuration that keeps the   *)
(* two ranges apart.                                                       *)
Apart == [a \in Addr |-> IF a = t1 THEN 11 ELSE 12]

Symmetry == Permutations(Proc)

Issues == \E p \in Proc : /\ task[p].pc = "idle" /\ task'[p].pc # "idle"
                          /\ task'[p].op \notin FreeOps

MCInit == Init /\ issued = 0
MCNext == /\ Next
          /\ issued' = IF Issues THEN issued + 1 ELSE issued
          /\ issued' <= MaxRequests

MCFairSpec == MCInit /\ [][MCNext]_<<vars, issued>> /\ Fairness
MCSpec == MCInit /\ [][MCNext]_<<vars, issued>>
=============================================================================
