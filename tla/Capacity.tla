------------------------------- MODULE Capacity -------------------------------
(***************************************************************************)
(* Room for tenants: the resource check before a container is made, the    *)
(* waiting list, and its processor (every 30 seconds, also while an        *)
(* earlier round is still at work).                                        *)
(*                                                                         *)
(* job[p] is a connect or a round of the processor under way; each action  *)
(* is what it does between two awaits.                                     *)
(*                                                                         *)
(* Abstractions: whether ports, memory and disk are short is arbitrary at  *)
(* each check, so that the quota checked for is left out; an entry of the  *)
(* waiting list is only older than an hour or not; containers made by      *)
(* other operations than a connect, and the usage limit, are left out.     *)
(***************************************************************************)
EXTENDS Integers, Sequences, FiniteSets

CONSTANTS Addr,     \* tenants
          Job,      \* calls that may be under way at once
          MaxBoxes, \* containers the check allows (50)
          MaxQueue, \* WAIT_QUEUE_MAX
          Mode      \* preflightMode: "warn" or "enforce"

VARIABLES queue,  \* userService.waitQueue
          boxes,  \* tenants that have a container, running or not
          job,    \* calls under way
          blind   \* history: containers made beyond the limit because docker
                  \*   ps had failed

vars == <<queue, boxes, job, blind>>

Idle == [pc |-> "idle", kind |-> "none", addr |-> "none", short |-> FALSE, blind |-> FALSE]
At(p, l) == job[p].pc = l
Become(p, j) == job' = [job EXCEPT ![p] = j]

Init == /\ queue = <<>>
        /\ boxes = {}
        /\ job = [p \in Job |-> Idle]
        /\ blind = {}

-----------------------------------------------------------------------------
(* The waiting list.                                                       *)

Waiting(q) == {q[i].addr : i \in DOMAIN q}
Place(q, a) == CHOOSE i \in DOMAIN q : q[i].addr = a

(* SelectSeq(q, LAMBDA e : ~e.old), written out for the proofs.            *)
Fresh(q) == LET kept[i \in 0 .. Len(q)] ==
                  CASE i = 0 -> <<>>
                    [] i # 0 /\ q[i].old -> kept[i - 1]
                    [] OTHER -> Append(kept[i - 1], q[i])
            IN kept[Len(q)]

(* Mutant: a tenant the processor could not serve keeps its first place.   *)
EnlistedFirst(a) ==
  LET q == Fresh(queue) IN
  IF a \in Waiting(q) \/ Len(q) >= MaxQueue THEN q
  ELSE <<[addr |-> a, old |-> FALSE]>> \o q

(* addToWaitQueue: what is older than an hour goes first.                  *)
Enlisted(a) ==
  LET q == Fresh(queue) IN
  IF a \in Waiting(q) \/ Len(q) >= MaxQueue THEN q
  ELSE Append(q, [addr |-> a, old |-> FALSE])

Age(i) == /\ i \in DOMAIN queue /\ ~queue[i].old
          /\ \A k \in 1 .. i - 1 : queue[k].old
          /\ queue' = [queue EXCEPT ![i].old = TRUE]
          /\ UNCHANGED <<boxes, job, blind>>

-----------------------------------------------------------------------------
(* preflightCheck: the host first, then the number of containers.          *)

(* Mutant: one more than fifty.                                            *)
NoBoxLeftLate == Cardinality(boxes) > MaxBoxes

NoBoxLeft == Cardinality(boxes) >= MaxBoxes

HostChecked(p) ==
  /\ At(p, "host")
  /\ \E short \in BOOLEAN : Become(p, [job[p] EXCEPT !.pc = "boxes", !.short = short])
  /\ UNCHANGED <<queue, boxes, blind>>

(* A docker ps that fails counts as an empty list, which is below any limit*)
(* and may let in a call that should wait.                                 *)
BoxesChecked(p) ==
  /\ At(p, "boxes")
  /\ \/ Become(p, [job[p] EXCEPT !.pc = "judge", !.short = @ \/ NoBoxLeft])
     \/ Become(p, [job[p] EXCEPT !.pc = "judge", !.blind = NoBoxLeft])
  /\ UNCHANGED <<queue, boxes, blind>>

Refused(j) == j.short /\ Mode = "enforce"
Judged(p, k) == At(p, "judge") /\ job[p].kind = k

-----------------------------------------------------------------------------
(* ensureContainer.                                                        *)

(* A connect, or the gateway's entry with a CWT.                           *)
Connect(p, a) ==
  /\ At(p, "idle")
  /\ Become(p, [Idle EXCEPT !.pc = "look", !.kind = "connect", !.addr = a])
  /\ UNCHANGED <<queue, boxes, blind>>

(* A container that exists is started; otherwise the resources are checked.*)
Looked(p) ==
  LET a == job[p].addr IN
  /\ At(p, "look")
  /\ Become(p, IF a \in boxes THEN Idle ELSE [job[p] EXCEPT !.pc = "host"])
  /\ UNCHANGED <<queue, boxes, blind>>

(* Not enough: the tenant waits, and is told so.                           *)
Enlist(p) ==
  /\ Judged(p, "connect") /\ Refused(job[p])
  /\ queue' = Enlisted(job[p].addr)
  /\ Become(p, Idle)
  /\ UNCHANGED <<boxes, blind>>

Admit(p) ==
  /\ Judged(p, "connect") /\ ~Refused(job[p])
  /\ Become(p, [job[p] EXCEPT !.pc = "create"])
  /\ UNCHANGED <<queue, boxes, blind>>

(* docker may fail.                                                        *)
Create(p) ==
  /\ At(p, "create")
  /\ \/ /\ boxes' = boxes \cup {job[p].addr}
        /\ blind' = IF job[p].blind THEN blind \cup ({job[p].addr} \ boxes) ELSE blind
     \/ UNCHANGED <<boxes, blind>>
  /\ Become(p, Idle)
  /\ UNCHANGED queue

-----------------------------------------------------------------------------
(* processWaitQueue.                                                       *)

(* A round checks the resources for the first of the list ...              *)
Turn(p) ==
  /\ At(p, "idle") /\ queue # <<>>
  /\ Become(p, [Idle EXCEPT !.pc = "host", !.kind = "round"])
  /\ UNCHANGED <<queue, boxes, blind>>

(* ... and serves who is first when they are known.                        *)
Shift(p) ==
  /\ Judged(p, "round")
  /\ IF Refused(job[p]) \/ queue = <<>>
     THEN Become(p, Idle) /\ UNCHANGED queue
     ELSE /\ queue' = Tail(queue)
          /\ Become(p, [Idle EXCEPT !.pc = "look", !.kind = "connect",
                                    !.addr = Head(queue).addr])
  /\ UNCHANGED <<boxes, blind>>

-----------------------------------------------------------------------------
(* A removed tenant's entry in the list stays.                             *)
Remove(a) == /\ a \in boxes
             /\ boxes' = boxes \ {a}
             /\ blind' = blind \ {a}
             /\ UNCHANGED <<queue, job>>

Next == \/ \E p \in Job : \/ \E a \in Addr : Connect(p, a)
                          \/ Looked(p) \/ HostChecked(p) \/ BoxesChecked(p)
                          \/ Enlist(p) \/ Admit(p) \/ Create(p) \/ Turn(p) \/ Shift(p)
        \/ \E a \in Addr : Remove(a)
        \/ \E i \in 1 .. MaxQueue : Age(i)

Spec == Init /\ [][Next]_vars

-----------------------------------------------------------------------------
TypeOK ==
  /\ Len(queue) <= MaxQueue
  /\ \A i \in DOMAIN queue : queue[i] \in [addr : Addr, old : BOOLEAN]
  /\ boxes \subseteq Addr
  /\ \A p \in Job : job[p].pc \in {"idle", "look", "host", "boxes", "judge", "create"}
  /\ blind \subseteq boxes

(* The waiting list is fair: within its hour a place only gets better, and *)
(* nobody is twice in the list, whoever connects again, is tried and put   *)
(* back, and however rounds overlap (user.service.js:331); a tenant leaves *)
(* it only to be served, or after an hour, though the list changes while a *)
(* round checks the resources (user.service.js:411).                       *)
QueueStep ==
  /\ \A a \in Waiting(Fresh(queue)) \cap Waiting(queue') :
       Place(queue', a) <= Place(queue, a)
  /\ Cardinality(Waiting(queue')) = Len(queue')
  /\ \A a \in Waiting(queue) \ Waiting(queue') :
       \/ queue[Place(queue, a)].old
       \/ \E p \in Job : ~At(p, "look") /\ job'[p].pc = "look" /\ job'[p].addr = a
QueueFair == [][QueueStep]_vars

(* The containers made on a count that docker answered exceed the limit at *)
(* most by the calls that were under way besides one, however many were    *)
(* checked at the same time (user.service.js:297) and however many others  *)
(* a failed count had let in before or lets in meanwhile (301).            *)
Overshoot ==
  Mode = "enforce" => Cardinality(boxes \ blind) < MaxBoxes + Cardinality(Job)
=============================================================================
