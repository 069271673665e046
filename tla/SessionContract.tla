--------------------------- MODULE SessionContract ---------------------------
(* What the login sessions promise (session.store.js, header): a session   *)
(* that has been dropped never comes back, and a logout is answered only   *)
(* when its session has been dropped for good, whatever crashes later.     *)
EXTENDS FiniteSets

CONSTANT Token

VARIABLES issued,    \* tokens handed out so far
          alive,     \* tokens the server honours, now or after a restart
          answered   \* tokens whose logout has been answered

vars == <<issued, alive, answered>>

Init == /\ issued \in SUBSET Token
        /\ alive = issued
        /\ answered = {}

(* Others may be dropped in the same turn.                                 *)
Issue(t) == /\ t \notin issued
            /\ issued' = issued \cup {t}
            /\ alive' \in SUBSET (alive \cup {t})
            /\ UNCHANGED answered

(* Revoked, expired, or lost in a crash before it was saved.               *)
Drop == /\ alive' \in SUBSET alive
        /\ UNCHANGED <<issued, answered>>

Answer(t) == /\ t \in issued \ alive
             /\ answered' = answered \cup {t}
             /\ UNCHANGED <<issued, alive>>

Next == Drop \/ \E t \in Token : Issue(t) \/ Answer(t)

Spec == Init /\ [][Next]_vars
=============================================================================
