--------------------------- MODULE TenantPortProofs ---------------------------
(***************************************************************************)
(* The public ports as theorems: under every interleaving and every fault, *)
(* the counter has passed every port that is recorded or pooled            *)
(* (CounterFresh); and operations that run one after another never give one*)
(* port to two tenants nor pool a port in use (SerialPortsUnique,          *)
(* SerialPoolUnowned), whatever fails in them but an internal conflict.    *)
(*                                                                         *)
(* The counter: a port becomes known (recorded, pooled, routed) only after*)
(* the docker run that used it has returned, and that turn is the one that *)
(* raises the counter above it.  A port that is only being tried is known  *)
(* to its task alone, at one of the points of the creation loop; the       *)
(* objects that tasks have captured hold ports that were once recorded.    *)
(*                                                                         *)
(* The owners (OneOwner): between two turns of the one running task a port *)
(* is in one place, which is a record, the pool or the task's own variable.*)
(* The port a task holds is then its tenant's own, or nobody's; and a      *)
(* tenant whose container was removed has none that could be taken over.   *)
(***************************************************************************)
EXTENDS TenantLifecycleProofs, MCTenantPorts

Below(x) == x \in Allocated => x < nextPort

(* Where a task's port is a try that docker has not accepted.              *)
Trying == {"create", "takeover", "takestart", "takeport"}

RecFresh == \A a \in Addr : Below(rec[a].port)
PoolFresh == \A x \in pool : Below(x)
TaskFresh == \A p \in Proc : /\ task[p].pc \notin Trying => Below(task[p].port)
                             /\ Below(task[p].obj.port)

Known == RecFresh /\ PoolFresh /\ TaskFresh
Fresh == nextPort # NaN => Known

(* Ports that the allocator does not hand out are below by definition.     *)
LEMMA NotAllocated ==
  /\ NoPort \notin Allocated /\ NaN \notin Allocated /\ Null \notin Allocated
  /\ \A a \in Addr : InternalPort[a] \notin Allocated
  /\ NoRec.port = NoPort /\ Unset.port = NoPort /\ Idle.port = NoPort
  /\ Idle.obj = NoRec /\ Idle.pc \notin Trying
  BY PortAssumption DEF Allocated, PublicPort, NoPort, NaN, Null, NoRec, Unset, Idle, Trying

(* A task step that leaves the counter alone.                              *)
LEMMA BecomeFresh ==
  ASSUME IInv, TaskFresh, NEW p \in Proc, NEW t, nextPort' = nextPort,
         t.pc \notin Trying => Below(t.port), Below(t.obj.port), Become(p, t)
  PROVE  TaskFresh'
  BY DEF TaskFresh, Become, Below, IInv, TaskInv, TaskType

LEMMA FinishFresh ==
  ASSUME IInv, TaskFresh, NEW p \in Proc, nextPort' = nextPort, Finish(p)
  PROVE  TaskFresh'
<1>1. Below(Idle.port) /\ Below(Idle.obj.port)
  BY NotAllocated DEF Below
<1> QED
  BY <1>1, BecomeFresh DEF Finish

LEMMA GotoFresh ==
  ASSUME IInv, TaskFresh, NEW p \in Proc, nextPort' = nextPort, NEW l \in Pcs,
         task[p].pc \notin Trying \/ l \in Trying, Goto(p, l)
  PROVE  TaskFresh'
<1> DEFINE t == [task[p] EXCEPT !.pc = l]
<1>1. task[p] \in Task
  BY DEF IInv, TaskInv, TaskType
<1>2. t.pc = l /\ t.port = task[p].port /\ t.obj = task[p].obj
  BY <1>1 DEF Task
<1>3. (t.pc \notin Trying => Below(t.port)) /\ Below(t.obj.port)
  BY <1>2 DEF TaskFresh
<1> QED
  BY <1>3, BecomeFresh DEF Goto

(* A task moves on with another port.                                      *)
LEMMA PortFresh ==
  ASSUME IInv, TaskFresh, NEW p \in Proc, nextPort' = nextPort, NEW l \in Pcs,
         NEW x, Below(x), Become(p, [task[p] EXCEPT !.pc = l, !.port = x])
  PROVE  TaskFresh'
<1> DEFINE t == [task[p] EXCEPT !.pc = l, !.port = x]
<1>1. task[p] \in Task
  BY DEF IInv, TaskInv, TaskType
<1>2. t.port = x /\ t.obj = task[p].obj
  BY <1>1 DEF Task
<1>3. Below(t.port) /\ Below(t.obj.port)
  BY <1>2 DEF TaskFresh
<1> QED
  BY <1>3, BecomeFresh

LEMMA OfferFresh ==
  ASSUME IInv, TaskFresh, NEW p \in Proc, nextPort' = nextPort, NEW x, NEW n,
         Offer(p, x, n)
  PROVE  TaskFresh'
<1> DEFINE t == [task[p] EXCEPT !.pc = "create", !.port = x, !.tries = n]
<1>1. task[p] \in Task
  BY DEF IInv, TaskInv, TaskType
<1>2. t.pc = "create" /\ t.obj = task[p].obj
  BY <1>1 DEF Task
<1>3. t.pc \in Trying /\ Below(t.obj.port)
  BY <1>2 DEF TaskFresh, Trying
<1> QED
  BY <1>3, BecomeFresh, FinishFresh DEF Offer

LEMMA ReplaceFresh ==
  ASSUME IInv, RecFresh, TaskFresh, NEW p \in Proc, nextPort' = nextPort,
         NEW t, t.pc \notin Trying => Below(t.port), Below(t.obj.port),
         NEW a \in Addr, NEW r, Below(r.port), Replace(p, t, a, r)
  PROVE  RecFresh' /\ TaskFresh'
<1>1. RecFresh'
  BY DEF RecFresh, Replace, Below, IInv, DataType
<1>2. ASSUME NEW q \in Proc
      PROVE  /\ task'[q].pc \notin Trying => Below(task'[q].port)
             /\ Below(task'[q].obj.port)
  <2> DEFINE u == [task[q] EXCEPT !.held = FALSE, !.obj = rec[a]]
  <2>1. task[q] \in Task
    BY DEF IInv, TaskInv, TaskType
  <2>2. u.pc = task[q].pc /\ u.port = task[q].port /\ u.obj = rec[a]
    BY <2>1 DEF Task
  <2>3. (u.pc \notin Trying => Below(u.port)) /\ Below(u.obj.port)
    BY <2>2 DEF TaskFresh, RecFresh
  <2>4. task'[q] \in {t, u, task[q]}
    BY DEF Replace
  <2> QED
    BY <2>3, <2>4 DEF TaskFresh
<1> QED
  BY <1>1, <1>2 DEF TaskFresh, Below

(* The ports a step may use next.                                          *)
LEMMA CurrentFresh ==
  ASSUME IInv, RecFresh, TaskFresh, NEW p \in Proc, task[p].pc # "idle"
  PROVE  /\ Tgt(p) \in Addr /\ Below(rec[Tgt(p)].port) /\ Below(task[p].obj.port)
         /\ task[p].pc \notin Trying => Below(task[p].port)
         /\ Below(AdoptedPort(Tgt(p))) /\ Below(Captured(task[p]).port)
<1>1. Tgt(p) \in Addr /\ task[p].tgt \in Addr
  BY TgtFacts DEF Tgt
<1> QED
  BY <1>1, NotAllocated
  DEF RecFresh, TaskFresh, AdoptedPort, OrElse, Captured, Below, Tgt

-----------------------------------------------------------------------------
(* One lemma per group of actions, as for the type invariant.              *)

LEMMA StartFresh ==
  ASSUME IInv, Known, NEW p \in Proc, NEW a \in Addr, Start(p, a)
  PROVE  Known'
<1>1. PICK o \in AllOps, l \in Pcs, k \in BOOLEAN : Begin(p, o, a, l, k)
  BY PcNames DEF Start, StartConnect, StartLeave, StartRemove, StartReset, StartApply,
    StartRestart, StartStop, StartErase, StartSweep, StartHeal, StartUpgrade,
    AllOps
<1> DEFINE t == [Idle EXCEPT !.pc = l, !.op = o, !.tgt = a, !.held = k]
<1>2. Below(t.port) /\ Below(t.obj.port)
  BY NotAllocated DEF Idle, Below
<1>3. TaskFresh'
  BY <1>1, <1>2, BecomeFresh DEF Begin, Known
<1> QED
  BY <1>1, <1>3 DEF Begin, Known, RecFresh, PoolFresh, Below


LEMMA EnsureFresh ==
  ASSUME IInv, Known, NEW p \in Proc, Ensure(p), ~CreateOk(p)
  PROVE  Known'
<1>0. task[p].pc # "idle" /\ nextPort' = nextPort
  BY DEF Ensure,
    Inspect, StartExisting, Adopt, Refuse, TakeRecycled, TakeOwnOrNext,
    Reclaim, TakeReclaimed, CreateTaken, CreateError, CreateConflict, TakeOver,
    TakeStart, TakePort,
    DockerStart, At
<1>a. RecFresh /\ PoolFresh /\ TaskFresh
  BY DEF Known
<1> USE <1>0, <1>a, CurrentFresh, NotAllocated, PcNames
<1>1. CASE Inspect(p)
  <2>1. TaskFresh'
    BY <1>1, GotoFresh, FinishFresh DEF Inspect, Trying, At
  <2> QED
    BY <1>1, <2>1 DEF Inspect, Trying, Known, RecFresh, PoolFresh, Below
<1>2. CASE StartExisting(p)
  <2>1. TaskFresh'
    BY <1>2, GotoFresh, FinishFresh DEF StartExisting, DockerStart, Trying, At
  <2> QED
    BY <1>2, <2>1 DEF StartExisting, DockerStart, Trying, Known, RecFresh, PoolFresh, Below
<1>3. CASE Adopt(p)
  <2>1. TaskFresh'
    BY <1>3, PortFresh, FinishFresh DEF Adopt, At
  <2> QED
    BY <1>3, <2>1 DEF Adopt, Known, RecFresh, PoolFresh, Below
<1>4. CASE Refuse(p)
  <2>1. TaskFresh'
    BY <1>4, GotoFresh, FinishFresh DEF Refuse, At
  <2> QED
    BY <1>4, <2>1 DEF Refuse, Known, RecFresh, PoolFresh, Below
<1>5. CASE TakeRecycled(p) \/ TakeReclaimed(p)
  <2>1. TaskFresh'
    BY <1>5, OfferFresh DEF TakeRecycled, TakeReclaimed
  <2> QED
    BY <1>5, <2>1 DEF TakeRecycled, TakeReclaimed, Known, RecFresh, PoolFresh, Below
<1>6. CASE TakeOwnOrNext(p)
  <2>1. TaskFresh'
    BY <1>6, OfferFresh DEF TakeOwnOrNext, At
  <2> QED
    BY <1>6, <2>1 DEF TakeOwnOrNext, Known, RecFresh, PoolFresh, Below
<1>7. CASE Reclaim(p)
  <2>1. TaskFresh'
    BY <1>7, GotoFresh DEF Reclaim, At, Trying
  <2>2. PICK S \in SUBSET Reclaimable(Tgt(p)) :
          /\ pool' = pool \cup {rec[b].port : b \in S}
          /\ rec' = [b \in Addr |->
                       IF b \in S THEN [rec[b] EXCEPT !.port = NoPort] ELSE rec[b]]
    BY <1>7 DEF Reclaim
  <2>3. \A b \in Addr : [rec[b] EXCEPT !.port = NoPort].port = NoPort
    BY DEF IInv, DataType, Record
  <2> QED
    BY <2>1, <2>2, <2>3
    DEF Known, RecFresh, PoolFresh, Below, Reclaimable
<1>8. CASE CreateTaken(p)
  <2>1. TaskFresh'
    BY <1>8, OfferFresh DEF CreateTaken, NextAttempt, At
  <2> QED
    BY <1>8, <2>1 DEF CreateTaken, NextAttempt, Known, RecFresh, PoolFresh, Below
<1>9. CASE CreateError(p)
  <2>1. TaskFresh'
    BY <1>9, GotoFresh, FinishFresh DEF CreateError, At
  <2> QED
    BY <1>9, <2>1 DEF CreateError, Known, RecFresh, PoolFresh, Below
<1>10. CASE CreateConflict(p)
  <2>1. TaskFresh'
    BY <1>10, GotoFresh, FinishFresh DEF CreateConflict, Trying, At
  <2> QED
    BY <1>10, <2>1 DEF CreateConflict, Trying, Known, RecFresh, PoolFresh, Below
<1>11. CASE TakeOver(p)
  <2>1. NextAttempt(p) \/ Goto(p, "takestart") \/ Goto(p, "takeport")
    BY <1>11 DEF TakeOver
  <2>2. TaskFresh'
    BY <2>1, GotoFresh, OfferFresh DEF NextAttempt, Trying
  <2> QED
    BY <1>11, <2>2 DEF TakeOver, Known, RecFresh, PoolFresh, Below
<1>12. CASE TakeStart(p)
  <2>1. TaskFresh'
    BY <1>12, GotoFresh, FinishFresh DEF TakeStart, DockerStart, Trying, At
  <2> QED
    BY <1>12, <2>1 DEF TakeStart, DockerStart, Trying, Known, RecFresh, PoolFresh, Below
<1>13. CASE TakePort(p)
  <2>1. TaskFresh'
    BY <1>13, PortFresh, FinishFresh, OfferFresh DEF TakePort, NextAttempt, At
  <2> QED
    BY <1>13, <2>1 DEF TakePort, NextAttempt, Known, RecFresh, PoolFresh, Below
<1> QED
  BY <1>1, <1>2, <1>3, <1>4, <1>5, <1>6, <1>7, <1>8, <1>9, <1>10, <1>11, <1>12,
     <1>13 DEF Ensure


LEMMA FinalizeFresh ==
  ASSUME IInv, Known, NEW p \in Proc, Finalize(p)
  PROVE  Known'
<1>0. task[p].pc # "idle" /\ nextPort' = nextPort
  BY DEF Finalize,
    Ready, NotReady, Quarantine, Reheal, Rollback, RolledBack, Bind, Bound,
    NotBound, NoteVersion,
    DockerStart, At
<1>a. RecFresh /\ PoolFresh /\ TaskFresh
  BY DEF Known
<1> USE <1>0, <1>a, CurrentFresh, NotAllocated, PcNames
<1>1. CASE Ready(p)
  <2>1. TaskFresh'
    BY <1>1, GotoFresh, FinishFresh DEF Ready, Trying, At
  <2> QED
    BY <1>1, <2>1 DEF Ready, Trying, Known, RecFresh, PoolFresh, Below
<1>2. CASE NotReady(p)
  <2>1. TaskFresh'
    BY <1>2, GotoFresh, FinishFresh DEF NotReady, GiveUp, Trying, At
  <2> QED
    BY <1>2, <2>1 DEF NotReady, GiveUp, Trying, Known, RecFresh, PoolFresh, Below
<1>3. CASE Quarantine(p)
  <2> DEFINE t == [task[p] EXCEPT !.pc = "reheal"]
  <2>1. t.port = task[p].port /\ t.obj = task[p].obj
    BY TgtFacts DEF Task
  <2>2. PICK r \in {rec[Tgt(p)], Unset} : Replace(p, t, Tgt(p), r)
    BY <1>3 DEF Quarantine
  <2>3. Below(t.port) /\ Below(t.obj.port) /\ Below(r.port)
    BY <1>3, <2>1, <2>2 DEF Quarantine, At, Trying, Below
  <2>4. RecFresh' /\ TaskFresh'
    BY <2>2, <2>3, ReplaceFresh
  <2> QED
    BY <1>3, <2>4 DEF Quarantine, Known, PoolFresh, Below
<1>4. CASE Reheal(p)
  <2>1. TaskFresh'
    BY <1>4, GotoFresh, FinishFresh DEF Reheal, GiveUp, Trying, At
  <2> QED
    BY <1>4, <2>1 DEF Reheal, GiveUp, Trying, Known, RecFresh, PoolFresh, Below
<1>5. CASE Rollback(p)
  <2>1. TaskFresh'
    BY <1>5, GotoFresh, FinishFresh DEF Rollback, Trying, At
  <2> QED
    BY <1>5, <2>1 DEF Rollback, Trying, Known, RecFresh, PoolFresh, Below
<1>6. CASE RolledBack(p)
  <2> DEFINE r == [rec[Tgt(p)] EXCEPT !.status = "destroyed"]
  <2>1. Below(r.port) /\ Below(Idle.port) /\ Below(Idle.obj.port)
    BY TgtFacts DEF Record, Below
  <2>2. RecFresh' /\ TaskFresh'
    BY <1>6, <2>1, ReplaceFresh, FinishFresh DEF RolledBack, RecFresh, Below
  <2> QED
    BY <1>6, <2>2 DEF RolledBack, Known, PoolFresh, Below
<1>7. CASE Bind(p)
  <2>1. TaskFresh'
    BY <1>7, GotoFresh, FinishFresh DEF Bind, Trying, At
  <2> QED
    BY <1>7, <2>1 DEF Bind, Trying, Known, RecFresh, PoolFresh, Below
<1>8. CASE Bound(p)
  <2> DEFINE r == [status |-> "running", port |-> task[p].port]
             t == [task[p] EXCEPT !.pc = "noted"]
  <2>1. t.port = task[p].port /\ t.obj = task[p].obj
    BY TgtFacts DEF Task
  <2>2. Below(r.port) /\ Below(t.port) /\ Below(t.obj.port)
    BY <1>8, <2>1 DEF Bound, At, Trying
  <2>3. Below(Idle.port) /\ Below(Idle.obj.port)
    BY DEF Below
  <2>4. \/ Finish(p) /\ UNCHANGED rec
        \/ Replace(p, Idle, Tgt(p), r) \/ Replace(p, t, Tgt(p), r)
    BY <1>8 DEF Bound
  <2>5. RecFresh' /\ TaskFresh'
    BY <2>2, <2>3, <2>4, ReplaceFresh, FinishFresh DEF RecFresh, Below
  <2> QED
    BY <1>8, <2>5 DEF Bound, Known, PoolFresh, Below
<1>9. CASE NotBound(p)
  <2> DEFINE r == [status |-> "stopped", port |-> task[p].port]
  <2>1. Below(r.port) /\ Below(Idle.port) /\ Below(Idle.obj.port)
    BY <1>9 DEF NotBound, At, Trying, Below
  <2>2. RecFresh' /\ TaskFresh'
    BY <1>9, <2>1, ReplaceFresh, FinishFresh DEF NotBound, RecFresh, Below
  <2> QED
    BY <1>9, <2>2 DEF NotBound, Known, PoolFresh, Below
<1>10. CASE NoteVersion(p)
  <2>1. PICK r \in {rec[Tgt(p)], Unset} : Replace(p, Idle, Tgt(p), r)
    BY <1>10 DEF NoteVersion
  <2>2. Below(r.port) /\ Below(Idle.port) /\ Below(Idle.obj.port)
    BY <2>1 DEF Below
  <2>3. RecFresh' /\ TaskFresh'
    BY <2>1, <2>2, ReplaceFresh
  <2> QED
    BY <1>10, <2>3 DEF NoteVersion, Known, PoolFresh, Below
<1> QED
  BY <1>1, <1>2, <1>3, <1>4, <1>5, <1>6, <1>7, <1>8, <1>9, <1>10 DEF Finalize


(* Writing a status in place touches no port.                              *)
LEMMA StatusKeepsPorts ==
  ASSUME IInv, NEW a \in Addr, NEW s \in Status,
         rec' = rec \/ rec' = [rec EXCEPT ![a].status = s]
  PROVE  \A b \in Addr : rec'[b].port = rec[b].port
<1>1. \A b \in Addr : rec[b] \in Record
  BY DEF IInv, DataType
<1>2. CASE rec' = [rec EXCEPT ![a].status = s]
  BY <1>1, <1>2 DEF IInv, DataType, Record
<1> QED
  BY <1>2

LEMMA RemoveFresh ==
  ASSUME IInv, Known, NEW p \in Proc, Remove(p)
  PROVE  Known'
<1>0. task[p].pc # "idle" /\ nextPort' = nextPort
  BY DEF Remove,
    Discard, Retire, Unroute, Purge, Wipe,
    DockerStart, At
<1>a. RecFresh /\ PoolFresh /\ TaskFresh
  BY DEF Known
<1> USE <1>0, <1>a, CurrentFresh, NotAllocated, PcNames
<1>b. Below(Idle.port) /\ Below(Idle.obj.port) /\ Below(NoPort)
  BY DEF Below
<1>1. CASE Discard(p)
  <2>1. TaskFresh'
    BY <1>1, GotoFresh, FinishFresh DEF Discard, Trying, At
  <2> QED
    BY <1>1, <2>1 DEF Discard, Trying, Known, RecFresh, PoolFresh, Below
<1>2. CASE Retire(p)
  <2>1. TaskFresh'
    BY <1>2, FinishFresh DEF Retire
  <2>2. rec' = rec \/ rec' = [rec EXCEPT ![Tgt(p)].status = "destroyed"]
    BY <1>2 DEF Retire, SetCapturedStatus, Tgt
  <2>3. \A b \in Addr : rec'[b].port = rec[b].port
    BY <2>2, StatusKeepsPorts, StatusNames
  <2> QED
    BY <1>2, <2>1, <2>3 DEF Retire, Known, RecFresh, PoolFresh, Below
<1>3. CASE Unroute(p)
  <2>1. TaskFresh'
    BY <1>3, PortFresh DEF Unroute, Trying, At
  <2> QED
    BY <1>3, <2>1 DEF Unroute, Trying, Known, RecFresh, PoolFresh, Below
<1>4. CASE Purge(p)
  <2>1. RecFresh' /\ TaskFresh'
    BY <1>4, <1>b, ReplaceFresh DEF Purge
  <2> QED
    BY <1>4, <2>1 DEF Purge, At, Trying, Known, PoolFresh, Below
<1>5. CASE Wipe(p)
  <2> DEFINE t == [task[p] EXCEPT !.pc = "inspect"]
  <2>1. t.port = task[p].port /\ t.obj = task[p].obj
    BY TgtFacts DEF Task
  <2>2. Below(t.port) /\ Below(t.obj.port)
    BY <1>5, <2>1 DEF Wipe, At, Trying
  <2>3. RecFresh' /\ TaskFresh'
    BY <1>5, <1>b, <2>2, ReplaceFresh DEF Wipe
  <2> QED
    BY <1>5, <2>3 DEF Wipe, Known, PoolFresh, Below
<1> QED
  BY <1>1, <1>2, <1>3, <1>4, <1>5 DEF Remove


LEMMA ApplyFresh ==
  ASSUME IInv, Known, NEW p \in Proc, Apply(p)
  PROVE  Known'
<1>0. task[p].pc # "idle" /\ nextPort' = nextPort
  BY DEF Apply,
    ApplyInspect, ApplyRemove, ApplyMark,
    DockerStart, At
<1>a. RecFresh /\ PoolFresh /\ TaskFresh
  BY DEF Known
<1> USE <1>0, <1>a, CurrentFresh, NotAllocated, PcNames
<1>b. Below(Idle.port) /\ Below(Idle.obj.port) /\ Below(NoPort)
  BY DEF Below
<1>1. CASE ApplyInspect(p)
  <2>1. RecFresh' /\ TaskFresh'
    <3>1. CASE Replace(p, Idle, Tgt(p), Captured(task[p]))
      BY <3>1, <1>b, ReplaceFresh
    <3>2. CASE (Goto(p, "applyrm") \/ Finish(p)) /\ UNCHANGED rec
      BY <1>1, <3>2, GotoFresh, FinishFresh
      DEF ApplyInspect, At, Trying, RecFresh, Below
    <3> QED
      BY <1>1, <3>1, <3>2 DEF ApplyInspect
  <2> QED
    BY <1>1, <2>1 DEF ApplyInspect, Known, PoolFresh, Below
<1>2. CASE ApplyRemove(p)
  <2>0. Below(OrElse(Captured(task[p]).port, Null)) /\ task[p].pc \notin Trying
    BY <1>2 DEF OrElse, Below, ApplyRemove, At, Trying
  <2>1. TaskFresh'
    BY <1>2, <2>0, PortFresh, FinishFresh DEF ApplyRemove, At
  <2> QED
    BY <1>2, <2>1 DEF ApplyRemove, Known, RecFresh, PoolFresh, Below
<1>3. CASE ApplyMark(p)
  <2> DEFINE t == [Idle EXCEPT !.pc = "inspect", !.op = "apply", !.tgt = Tgt(p)]
             r == [status |-> "stopped", port |-> task[p].port]
  <2>1. Below(t.port) /\ Below(t.obj.port)
    BY <1>b DEF Idle
  <2>2. Below(r.port)
    BY <1>3 DEF ApplyMark, At, Trying
  <2>3. Replace(p, t, Tgt(p), r)
    BY <1>3 DEF ApplyMark
  <2>4. RecFresh' /\ TaskFresh'
    BY <2>1, <2>2, <2>3, ReplaceFresh
  <2> QED
    BY <1>3, <2>4 DEF ApplyMark, Known, PoolFresh, Below
<1> QED
  BY <1>1, <1>2, <1>3 DEF Apply


LEMMA RestartFresh ==
  ASSUME IInv, Known, NEW p \in Proc, Restart(p)
  PROVE  Known'
<1>0. task[p].pc # "idle" /\ nextPort' = nextPort
  BY DEF Restart,
    RestartInspect, Redo, MarkRestarted,
    DockerStart, At
<1>a. RecFresh /\ PoolFresh /\ TaskFresh
  BY DEF Known
<1> USE <1>0, <1>a, CurrentFresh, NotAllocated, PcNames
<1>1. CASE RestartInspect(p)
  <2> DEFINE t == [task[p] EXCEPT !.pc = "inspect", !.op = "connect"]
  <2>1. t.port = task[p].port /\ t.obj = task[p].obj
    BY TgtFacts DEF Task
  <2>2. Below(t.port) /\ Below(t.obj.port)
    BY <1>1, <2>1 DEF RestartInspect, At, Trying
  <2>3. Become(p, t) \/ Goto(p, "redo") \/ Finish(p)
    BY <1>1 DEF RestartInspect
  <2>4. TaskFresh'
    BY <1>1, <2>2, <2>3, BecomeFresh, GotoFresh, FinishFresh
    DEF RestartInspect, At, Trying
  <2> QED
    BY <1>1, <2>4 DEF RestartInspect, Known, RecFresh, PoolFresh, Below
<1>2. CASE Redo(p)
  <2>1. TaskFresh'
    BY <1>2, GotoFresh, FinishFresh DEF Redo, DockerStart, Trying, At
  <2> QED
    BY <1>2, <2>1 DEF Redo, DockerStart, Trying, Known, RecFresh, PoolFresh, Below
<1>3. CASE MarkRestarted(p)
  <2> DEFINE x == AdoptedPort(Tgt(p))
             t == [task[p] EXCEPT !.pc = "ready", !.port = x]
             r == [status |-> "running", port |-> x]
  <2>1. t.port = x /\ t.obj = task[p].obj
    BY TgtFacts DEF Task
  <2>2. Below(t.port) /\ Below(t.obj.port) /\ Below(r.port)
    BY <2>1
  <2>3. Replace(p, t, Tgt(p), r) \/ (Finish(p) /\ UNCHANGED rec)
    BY <1>3 DEF MarkRestarted
  <2>4. RecFresh' /\ TaskFresh'
    BY <2>2, <2>3, ReplaceFresh, FinishFresh DEF RecFresh, Below
  <2> QED
    BY <1>3, <2>4 DEF MarkRestarted, Known, PoolFresh, Below
<1> QED
  BY <1>1, <1>2, <1>3 DEF Restart


LEMMA StopFresh ==
  ASSUME IInv, Known, NEW p \in Proc, Stop(p)
  PROVE  Known'
<1>0. task[p].pc # "idle" /\ nextPort' = nextPort
  BY DEF Stop,
    StopInspect, Halt, Halted,
    DockerStart, At
<1>a. RecFresh /\ PoolFresh /\ TaskFresh
  BY DEF Known
<1> USE <1>0, <1>a, CurrentFresh, NotAllocated, PcNames
<1>1. CASE StopInspect(p)
  <2>1. TaskFresh'
    BY <1>1, GotoFresh, FinishFresh DEF StopInspect, At, Trying
  <2>2. rec' = rec \/ rec' = [rec EXCEPT ![Tgt(p)].status = "stopped"]
    BY <1>1 DEF StopInspect, SetStatus
  <2>3. \A b \in Addr : rec'[b].port = rec[b].port
    BY <2>2, StatusKeepsPorts, StatusNames
  <2> QED
    BY <1>1, <2>1, <2>3 DEF StopInspect, Known, RecFresh, PoolFresh, Below
<1>2. CASE Halt(p)
  <2>1. TaskFresh'
    BY <1>2, GotoFresh, FinishFresh DEF Halt, Trying, At
  <2> QED
    BY <1>2, <2>1 DEF Halt, Trying, Known, RecFresh, PoolFresh, Below
<1>3. CASE Halted(p)
  <2>1. TaskFresh'
    BY <1>3, GotoFresh, FinishFresh DEF Halted, At, Trying
  <2>2. rec' = rec \/ rec' = [rec EXCEPT ![Tgt(p)].status = "stopped"]
    BY <1>3 DEF Halted, SetStatus
  <2>3. \A b \in Addr : rec'[b].port = rec[b].port
    BY <2>2, StatusKeepsPorts, StatusNames
  <2> QED
    BY <1>3, <2>1, <2>3 DEF Halted, Known, RecFresh, PoolFresh, Below
<1> QED
  BY <1>1, <1>2, <1>3 DEF Stop


LEMMA EraseDataFresh ==
  ASSUME IInv, Known, NEW p \in Proc, EraseData(p)
  PROVE  Known'
<1>0. task[p].pc # "idle" /\ nextPort' = nextPort
  BY DEF EraseData,
    EraseInspect, Erase, Erased,
    DockerStart, At
<1>a. RecFresh /\ PoolFresh /\ TaskFresh
  BY DEF Known
<1> USE <1>0, <1>a, CurrentFresh, NotAllocated, PcNames
<1>1. CASE EraseInspect(p)
  <2>1. TaskFresh'
    BY <1>1, GotoFresh, FinishFresh DEF EraseInspect, Trying, At
  <2> QED
    BY <1>1, <2>1 DEF EraseInspect, Trying, Known, RecFresh, PoolFresh, Below
<1>2. CASE Erase(p)
  <2>1. TaskFresh'
    BY <1>2, GotoFresh, FinishFresh DEF Erase, Trying, At
  <2> QED
    BY <1>2, <2>1 DEF Erase, Trying, Known, RecFresh, PoolFresh, Below
<1>3. CASE Erased(p)
  <2>1. TaskFresh'
    BY <1>3, GotoFresh, FinishFresh DEF Erased, At, Trying
  <2>2. rec' = rec \/ rec' = [rec EXCEPT ![Tgt(p)].status = "destroyed"]
    BY <1>3 DEF Erased, SetStatus
  <2>3. \A b \in Addr : rec'[b].port = rec[b].port
    BY <2>2, StatusKeepsPorts, StatusNames
  <2> QED
    BY <1>3, <2>1, <2>3 DEF Erased, Known, RecFresh, PoolFresh, Below
<1> QED
  BY <1>1, <1>2, <1>3 DEF EraseData


LEMMA SweepFresh ==
  ASSUME IInv, Known, NEW p \in Proc, Sweep(p)
  PROVE  Known'
<1>0. task[p].pc # "idle" /\ nextPort' = nextPort
  BY DEF Sweep,
    Visit, IdleStop, Idled, IdleRemove,
    DockerStart, At
<1>a. RecFresh /\ PoolFresh /\ TaskFresh
  BY DEF Known
<1> USE <1>0, <1>a, CurrentFresh, NotAllocated, PcNames
<1>1. CASE Visit(p)
  <2>1. TaskFresh'
    BY <1>1, GotoFresh, FinishFresh DEF Visit, Trying, At
  <2> QED
    BY <1>1, <2>1 DEF Visit, Trying, Known, RecFresh, PoolFresh, Below
<1>2. CASE IdleStop(p)
  <2>1. TaskFresh'
    BY <1>2, GotoFresh, FinishFresh DEF IdleStop, Trying, At
  <2> QED
    BY <1>2, <2>1 DEF IdleStop, Trying, Known, RecFresh, PoolFresh, Below
<1>3. CASE Idled(p)
  <2>1. TaskFresh'
    BY <1>3, GotoFresh, FinishFresh DEF Idled, At, Trying
  <2>2. rec' = rec \/ rec' = [rec EXCEPT ![Tgt(p)].status = "stopped"]
    BY <1>3 DEF Idled, SetCapturedStatus, Tgt
  <2>3. \A b \in Addr : rec'[b].port = rec[b].port
    BY <2>2, StatusKeepsPorts, StatusNames
  <2> QED
    BY <1>3, <2>1, <2>3 DEF Idled, Known, RecFresh, PoolFresh, Below
<1>4. CASE IdleRemove(p)
  <2>1. TaskFresh'
    BY <1>4, GotoFresh, FinishFresh DEF IdleRemove, Trying, At
  <2> QED
    BY <1>4, <2>1 DEF IdleRemove, Trying, Known, RecFresh, PoolFresh, Below
<1> QED
  BY <1>1, <1>2, <1>3, <1>4 DEF Sweep


LEMMA UpgradeFresh ==
  ASSUME IInv, Known, NEW p \in Proc, Upgrade(p)
  PROVE  Known'
<1>0. task[p].pc # "idle" /\ nextPort' = nextPort
  BY DEF Upgrade,
    UpgradeInspect, Resize, Resized,
    DockerStart, At
<1>a. RecFresh /\ PoolFresh /\ TaskFresh
  BY DEF Known
<1> USE <1>0, <1>a, CurrentFresh, NotAllocated, PcNames
<1>b. Below(Idle.port) /\ Below(Idle.obj.port) /\ Below(NoPort)
  BY DEF Below
<1>1. CASE UpgradeInspect(p)
  <2>1. RecFresh' /\ TaskFresh'
    <3>1. CASE Goto(p, "resize") /\ UNCHANGED rec
      BY <1>1, <3>1, GotoFresh DEF UpgradeInspect, At, Trying, RecFresh, Below
    <3>2. CASE \E r \in {rec[Tgt(p)], Unset} : Replace(p, Idle, Tgt(p), r)
      BY <1>b, <3>2, ReplaceFresh
    <3> QED
      BY <1>1, <3>1, <3>2 DEF UpgradeInspect
  <2> QED
    BY <1>1, <2>1 DEF UpgradeInspect, Known, PoolFresh, Below
<1>2. CASE Resize(p)
  <2>1. TaskFresh'
    BY <1>2, GotoFresh, FinishFresh DEF Resize, Trying, At
  <2> QED
    BY <1>2, <2>1 DEF Resize, Trying, Known, RecFresh, PoolFresh, Below
<1>3. CASE Resized(p)
  <2> DEFINE r == [rec[Tgt(p)] EXCEPT !.status = "running"]
  <2>1. Below(r.port)
    BY TgtFacts DEF Record
  <2>2. RecFresh' /\ TaskFresh'
    BY <1>3, <1>b, <2>1, ReplaceFresh DEF Resized
  <2> QED
    BY <1>3, <2>2 DEF Resized, Known, PoolFresh, Below
<1> QED
  BY <1>1, <1>2, <1>3 DEF Upgrade

LEMMA RemapFresh ==
  ASSUME IInv, Known, NEW p \in Proc, Remap(p)
  PROVE  Known'
<1>1. RecFresh /\ TaskFresh /\ task[p].pc # "idle"
  BY DEF Known, Remap, At
<1>2. TaskFresh'
  BY <1>1, CurrentFresh, PortFresh, FinishFresh, PcNames DEF Remap
<1> QED
  BY <1>2 DEF Remap, Known, RecFresh, PoolFresh, Below

(* The one step that moves the counter: it passes the port docker accepted.*)
LEMMA CreateOkFresh ==
  ASSUME IInv, Known, NEW p \in Proc, CreateOk(p), nextPort # NaN,
         nextPort' # NaN
  PROVE  Known'
<1> DEFINE x == task[p].port
<1>1. x \in Int /\ nextPort \in Int /\ task[p] \in Task
  <2>1. x \in PortValue /\ task[p] \in Task
    BY TgtFacts DEF CreateOk, At
  <2>2. nextPort \in Int
    BY PortAssumption DEF IInv, DataType, NaN
  <2> QED
    BY <2>1, <2>2, PortFacts
<1>2. nextPort' \in Int /\ nextPort' >= nextPort /\ (Truthy(x) => x < nextPort')
  BY <1>1 DEF CreateOk, JsMax, PlusOne, Truthy, NaN, NoPort
<1>3. x \in Allocated => x < nextPort'
  BY <1>2, PortAssumption DEF Allocated, PublicPort, Truthy
<1>4. \A y \in Allocated : y < nextPort => y < nextPort'
  BY <1>1, <1>2 DEF Allocated, PublicPort
<1>5. RecFresh' /\ PoolFresh'
  BY <1>4 DEF CreateOk, Known, RecFresh, PoolFresh, Below, Allocated, PublicPort
<1>6. ASSUME NEW q \in Proc
      PROVE  /\ task'[q].pc \notin Trying /\ task'[q].port \in Allocated
               => task'[q].port < nextPort'
             /\ task'[q].obj.port \in Allocated => task'[q].obj.port < nextPort'
  <2>1. /\ task'[q].port = task[q].port /\ task'[q].obj = task[q].obj
        /\ q # p => task'[q].pc = task[q].pc
    BY <1>1 DEF CreateOk, Goto, Become, IInv, TaskInv, TaskType, Task
  <2>2. Below(task[q].obj.port)
    BY DEF Known, TaskFresh
  <2>3. (task[q].obj.port \in Allocated => task[q].obj.port < nextPort')
    BY <1>4, <2>2 DEF Below
  <2>4. CASE q = p
    BY <1>3, <2>1, <2>3, <2>4 DEF Below, Allocated, PublicPort
  <2>5. CASE q # p
    BY <1>4, <2>1, <2>3, <2>5
    DEF Known, TaskFresh, Below, Allocated, PublicPort
  <2> QED
    BY <2>4, <2>5
<1> QED
  BY <1>5, <1>6 DEF Known, TaskFresh, Below, Allocated, PublicPort

(* No other step of a task moves the counter.                              *)
LEMMA CounterStays ==
  ASSUME NEW p \in Proc, Resume(p), ~CreateOk(p)
  PROVE  nextPort' = nextPort
<1>1. CASE Ensure(p)
  BY <1>1 DEF Ensure,
    Inspect, StartExisting, Adopt, Refuse, TakeRecycled, TakeOwnOrNext,
    Reclaim, TakeReclaimed, CreateTaken, CreateError, CreateConflict, TakeOver,
    TakeStart, TakePort,
    DockerStart
<1>2. CASE Finalize(p)
  BY <1>2 DEF Finalize,
    Ready, NotReady, Quarantine, Reheal, Rollback, RolledBack, Bind, Bound,
    NotBound, NoteVersion,
    DockerStart
<1>3. CASE Remove(p)
  BY <1>3 DEF Remove,
    Discard, Retire, Unroute, Purge, Wipe,
    DockerStart
<1>4. CASE Apply(p)
  BY <1>4 DEF Apply,
    ApplyInspect, ApplyRemove, ApplyMark,
    DockerStart
<1>5. CASE Restart(p)
  BY <1>5 DEF Restart,
    RestartInspect, Redo, MarkRestarted,
    DockerStart
<1>6. CASE Stop(p)
  BY <1>6 DEF Stop,
    StopInspect, Halt, Halted,
    DockerStart
<1>7. CASE EraseData(p)
  BY <1>7 DEF EraseData,
    EraseInspect, Erase, Erased,
    DockerStart
<1>8. CASE Sweep(p)
  BY <1>8 DEF Sweep,
    Visit, IdleStop, Idled, IdleRemove,
    DockerStart
<1>9. CASE Upgrade(p)
  BY <1>9 DEF Upgrade,
    UpgradeInspect, Resize, Resized,
    DockerStart
<1>10. CASE Remap(p)
  BY <1>10 DEF Remap
<1> QED
  BY <1>1, <1>2, <1>3, <1>4, <1>5, <1>6, <1>7, <1>8, <1>9, <1>10 DEF Resume

(* The counter never recovers from NaN, so what is not known now is never  *)
(* claimed later.                                                          *)
LEMMA NaNStays ==
  ASSUME IInv, [Next]_vars, nextPort' # NaN
  PROVE  nextPort # NaN
<1>1. CASE \E p \in Proc : CreateOk(p)
  BY <1>1 DEF CreateOk, JsMax
<1>2. CASE \A p \in Proc : ~CreateOk(p)
  <2>1. ASSUME NEW p \in Proc, Resume(p) PROVE nextPort' = nextPort
    BY <1>2, <2>1, CounterStays
  <2>2. ASSUME NEW p \in Proc, NEW a \in Addr, Start(p, a)
        PROVE  nextPort' = nextPort
    BY <2>2 DEF Start, Begin, StartConnect, StartLeave, StartRemove, StartReset,
      StartApply, StartRestart, StartStop, StartErase, StartSweep, StartHeal,
      StartUpgrade
  <2>3. ASSUME NEW a \in Addr, ContainerExit(a) PROVE nextPort' = nextPort
    BY <2>3 DEF ContainerExit
  <2> QED
    BY <2>1, <2>2, <2>3 DEF Next, vars
<1> QED
  BY <1>1, <1>2

LEMMA NextFresh == IInv /\ Fresh /\ [Next]_vars => Fresh'
<1> SUFFICES ASSUME IInv, Fresh, [Next]_vars, nextPort' # NaN PROVE Known'
  BY DEF Fresh
<1>1. nextPort # NaN /\ Known
  BY NaNStays DEF Fresh
<1>2. ASSUME NEW p \in Proc, Resume(p) PROVE Known'
  <2>1. CASE Ensure(p)
    BY <1>1, <2>1, EnsureFresh, CreateOkFresh
  <2> QED
    BY <1>1, <1>2, <2>1, FinalizeFresh, RemoveFresh, ApplyFresh, RestartFresh,
      StopFresh, EraseDataFresh, SweepFresh, RemapFresh, UpgradeFresh
    DEF Resume
<1>3. ASSUME NEW p \in Proc, NEW a \in Addr, Start(p, a) PROVE Known'
  BY <1>1, <1>3, StartFresh
<1>4. CASE UNCHANGED <<rec, pool, nextPort, task>>
  BY <1>1, <1>4 DEF Known, RecFresh, PoolFresh, TaskFresh, Below
<1>5. ASSUME NEW a \in Addr, ContainerExit(a) PROVE Known'
  BY <1>4, <1>5 DEF ContainerExit
<1> QED
  BY <1>2, <1>3, <1>4, <1>5 DEF Next, vars

(* nextPort has passed every port that any tenant's record or the pool     *)
(* holds (unless an undefined port has turned it into NaN), so the counter *)
(* alone never offers a port that is in use (user.service.js:1454).        *)
THEOREM CounterFresh == Spec => []NextPortFresh
<1>1. Init => IInv /\ Fresh
  <2> SUFFICES ASSUME Init PROVE Known
    BY InitInv DEF Fresh
  <2> QED
    BY NotAllocated DEF Init, Known, RecFresh, PoolFresh, TaskFresh, Below
<1>2. IInv /\ Fresh /\ [Next]_vars => (IInv /\ Fresh)'
  BY NextInv, NextFresh
<1>3. IInv /\ Fresh => NextPortFresh
  BY DEF Fresh, Known, RecFresh, PoolFresh, Below, NextPortFresh
<1> QED
  BY <1>1, <1>2, <1>3, PTL DEF Spec

-----------------------------------------------------------------------------
(* Operations that run one after another.  A port is in one place: a       *)
(* record, the pool, or the local variable of the one task under way.      *)

(* A port tenant a may have: it is neither pooled nor another tenant's.    *)
Free(x, a, r, q) ==
  x \in Allocated => x \notin q /\ \A b \in Addr \ {a} : r[b].port # x

(* Where the port of a task will be, or is, its tenant's.                  *)
Placing == {"create", "ready", "reheal", "bind", "bound"}

(* What task t may rely on, when it was alone since it began: its port, the*)
(* record it captured, and that a missing container stays missing, so that *)
(* nobody else's is ever taken over.                                       *)
Owns(t, r, q, c) ==
  /\ t.pc \in Placing => Free(t.port, t.tgt, r, q)
  /\ t.pc = "purge" => t.port = r[t.tgt].port
  /\ t.pc = "applied" => t.port \in {r[t.tgt].port, Null}
  /\ t.pc \in {"apply", "applyrm", "remap"} => t.held
  /\ t.op = "remove" /\ t.pc \in {"discard", "discarded"} => t.held
  /\ t.pc \in {"pick", "reclaimed", "create"} => c[t.tgt] = "absent"
  /\ t.pc \in {"visit", "idlestop", "idlerm"} => t.op = "sweep"
  /\ t.pc \notin {"takeover", "takestart", "takeport"}

OneOwner ==
  /\ PortsUnique /\ PoolUnowned
  /\ \A p \in Proc : task[p].pc # "idle" => Owns(task[p], rec, pool, cont)

(* Points where a task has nothing to rely on.                             *)
Plain == Pcs \ (Placing \cup {"purge", "applied", "apply", "applyrm", "remap", "discard",
                              "discarded", "pick", "reclaimed", "visit", "idlestop",
                              "idlerm", "takeover", "takestart", "takeport"})
LEMMA PlainPcs ==
  /\ "idle" \in Plain /\ "inspect" \in Plain /\ "start" \in Plain /\ "adopt" \in Plain
  /\ "rollback" \in Plain /\ "rolledback" \in Plain /\ "noted" \in Plain
  /\ "rinspect" \in Plain /\ "redo" \in Plain /\ "mark" \in Plain
  /\ "sinspect" \in Plain /\ "halt" \in Plain /\ "halted" \in Plain
  /\ "einspect" \in Plain /\ "erase" \in Plain /\ "erased" \in Plain
  /\ "idled" \in Plain /\ "uinspect" \in Plain /\ "resize" \in Plain
  /\ "resized" \in Plain /\ Idle.pc \in Plain /\ Plain \subseteq Pcs
  BY DEF Plain, Placing, Pcs, Idle

Alone(p) == \A q \in Proc \ {p} : At(q, "idle")

(* A task that is alone goes on as t.                                      *)
LEMMA OwnerStep ==
  ASSUME IInv, OneOwner, NEW p \in Proc, Alone(p), NEW t,
         \/ Become(p, t)
         \/ \E a \in Addr, r \in Record : Replace(p, t, a, r),
         t.pc \in Plain \/ Owns(t, rec', pool', cont'),
         PortsUnique', PoolUnowned'
  PROVE  OneOwner'
<1>1. task \in [Proc -> Task]
  BY DEF IInv, TaskInv, TaskType
<1>2. task'[p] = t /\ \A q \in Proc \ {p} : task'[q].pc = task[q].pc
  <2>1. CASE Become(p, t)
    BY <1>1, <2>1 DEF Become
  <2>2. ASSUME NEW a \in Addr, NEW r \in Record, Replace(p, t, a, r)
        PROVE  task'[p] = t /\ \A q \in Proc \ {p} : task'[q].pc = task[q].pc
    <3>1. ASSUME NEW q \in Proc \ {p}
          PROVE  task'[q].pc = task[q].pc
      <4>1. task[q] \in Task
        BY <1>1
      <4>2. task'[q] \in {task[q], [task[q] EXCEPT !.held = FALSE, !.obj = rec[a]]}
        BY <2>2 DEF Replace
      <4> QED
        BY <4>1, <4>2 DEF Task
    <3>2. task'[p] = t
      BY <2>2 DEF Replace
    <3> QED
      BY <3>1, <3>2
  <2> QED
    BY <2>1, <2>2
<1>3. \A q \in Proc \ {p} : task'[q].pc = "idle"
  BY <1>2 DEF Alone, At
<1>4. t.pc \in Plain => Owns(t, rec', pool', cont')
  BY DEF Plain, Owns, Placing
<1>5. Owns(task'[p], rec', pool', cont')
  BY <1>2, <1>4
<1>6. \A q \in Proc : task'[q].pc # "idle" => Owns(task'[q], rec', pool', cont')
  BY <1>3, <1>5
<1> QED
  BY <1>6 DEF OneOwner, Owns, Free

(* The records keep their ports, or lose them; or a tenant gets a free one.*)
LEMMA PortsKept ==
  ASSUME OneOwner, \A b \in Addr : rec'[b].port \in {rec[b].port, NoPort}, pool' \subseteq pool
  PROVE  PortsUnique' /\ PoolUnowned'
  BY NotAllocated DEF OneOwner, PortsUnique, PoolUnowned, Allocated

LEMMA PortGiven ==
  ASSUME OneOwner, NEW a \in Addr, Free(rec'[a].port, a, rec, pool),
         \A b \in Addr \ {a} : rec'[b].port = rec[b].port, pool' \subseteq pool
  PROVE  PortsUnique' /\ PoolUnowned'
  BY DEF OneOwner, PortsUnique, PoolUnowned, Free, Allocated

LEMMA OwnFree ==
  ASSUME OneOwner, NEW a \in Addr
  PROVE  /\ Free(rec[a].port, a, rec, pool) /\ Free(AdoptedPort(a), a, rec, pool)
         /\ Free(NoPort, a, rec, pool) /\ Free(Null, a, rec, pool)
  BY NotAllocated DEF OneOwner, PortsUnique, PoolUnowned, Free, AdoptedPort, OrElse

(* Nothing but the task changes, or statuses and containers.               *)
LEMMA PlainStep ==
  ASSUME IInv, OneOwner, NEW p \in Proc, Alone(p), NEW t, t.pc \in Plain,
         \/ Become(p, t)
         \/ \E a \in Addr, r \in Record : Replace(p, t, a, r),
         \A b \in Addr : rec'[b].port \in {rec[b].port, NoPort}, pool' \subseteq pool
  PROVE  OneOwner'
  BY PortsKept, OwnerStep

LEMMA GotoPlain ==
  ASSUME IInv, OneOwner, NEW p \in Proc, Alone(p), task[p].pc # "idle", NEW l \in Plain,
         Goto(p, l) \/ Finish(p),
         \A b \in Addr : rec'[b].port \in {rec[b].port, NoPort}, pool' \subseteq pool
  PROVE  OneOwner'
<1>1. CASE Goto(p, l)
  <2> DEFINE t == [task[p] EXCEPT !.pc = l]
  <2>1. t.pc = l
    BY TgtFacts, PlainPcs DEF Task
  <2>2. Become(p, t)
    BY <1>1 DEF Goto
  <2> HIDE DEF t
  <2> QED
    BY <2>1, <2>2, PlainStep
<1>2. CASE Finish(p)
  BY <1>2, PlainPcs, PlainStep DEF Finish
<1> QED
  BY <1>1, <1>2

(* It goes on elsewhere with what it has, or with another port.            *)
LEMMA GotoOwner ==
  ASSUME IInv, OneOwner, NEW p \in Proc, Alone(p), task[p].pc # "idle", NEW l \in Pcs,
         Goto(p, l), UNCHANGED <<rec, pool>>,
         Owns([task[p] EXCEPT !.pc = l], rec, pool, cont')
  PROVE  OneOwner'
<1> DEFINE t == [task[p] EXCEPT !.pc = l]
<1>1. Become(p, t) /\ Owns(t, rec', pool', cont')
  BY DEF Goto
<1>2. PortsUnique' /\ PoolUnowned'
  BY PortsKept
<1> HIDE DEF t
<1> QED
  BY <1>1, <1>2, OwnerStep

(* The allocator's port is free: pooled, the tenant's own, or a new one.   *)
LEMMA OfferOwner ==
  ASSUME IInv, OneOwner, NEW p \in Proc, Alone(p), task[p].pc # "idle", NEW x, NEW n,
         Offer(p, x, n), Free(x, Tgt(p), rec', pool'), cont'[Tgt(p)] = "absent",
         PortsUnique', PoolUnowned'
  PROVE  OneOwner'
<1> DEFINE t == [task[p] EXCEPT !.pc = "create", !.port = x, !.tries = n]
<1>1. CASE Become(p, t)
  <2>1. t.pc = "create" /\ t.port = x /\ t.tgt = Tgt(p) /\ t.op = task[p].op
    BY TgtFacts DEF Task, Tgt
  <2> HIDE DEF t
  <2>2. Owns(t, rec', pool', cont')
    BY <2>1 DEF Owns
  <2> QED
    BY <1>1, <2>2, OwnerStep
<1>2. CASE Finish(p)
  BY <1>2, PlainPcs, OwnerStep DEF Finish
<1> QED
  BY <1>1, <1>2 DEF Offer

LEMMA TakenOwner ==
  ASSUME IInv, OneOwner, NEW p \in Proc, Alone(p), task[p].pc \in {"pick", "reclaimed"},
         NEW x \in Heads(pool), pool' = pool \ {x}, Offer(p, x, 0), UNCHANGED <<rec, cont>>
  PROVE  OneOwner'
<1>1. x \in PortValue /\ (x # NoPort => x \in pool)
  BY HeadsType DEF IInv, DataType
<1>2. Free(x, Tgt(p), rec', pool')
  BY <1>1, NotAllocated DEF Free, OneOwner, PoolUnowned
<1>3. cont'[Tgt(p)] = "absent"
  BY DEF OneOwner, Owns, Tgt
<1>4. PortsUnique' /\ PoolUnowned'
  BY PortsKept
<1> QED
  BY <1>2, <1>3, <1>4, OfferOwner

LEMMA OwnOrNextOwner ==
  ASSUME IInv, Fresh, OneOwner, NEW p \in Proc, Alone(p), TakeOwnOrNext(p)
  PROVE  OneOwner'
<1> DEFINE x == OwnOrNext(Tgt(p))
<1>1. /\ task[p].pc = "pick" /\ pool = {} /\ Offer(p, x, 0) /\ UNCHANGED <<rec, pool, cont>>
  BY DEF TakeOwnOrNext, At
<1>2. Tgt(p) \in Addr /\ cont'[Tgt(p)] = "absent"
  BY <1>1, TgtFacts DEF OneOwner, Owns, Tgt
<1>3. Free(x, Tgt(p), rec, pool)
  <2>1. CASE rec[Tgt(p)].port \notin {NoPort, Null}
    BY <1>2, <2>1, OwnFree DEF OwnOrNext, OrElse
  <2>2. CASE rec[Tgt(p)].port \in {NoPort, Null}
    <3>1. x = nextPort
      BY <2>2 DEF OwnOrNext, OrElse
    <3>2. CASE nextPort = NaN
      BY <3>1, <3>2, NotAllocated DEF Free
    <3>3. CASE nextPort # NaN
      <4>1. \A b \in Addr : rec[b].port \in Allocated => rec[b].port < nextPort
        BY <3>3 DEF Fresh, Known, RecFresh, Below
      <4>2. nextPort \in Int
        BY <3>3, PortAssumption DEF IInv, DataType
      <4> QED
        BY <1>1, <3>1, <4>1, <4>2 DEF Free
    <3> QED
      BY <3>2, <3>3
  <2> QED
    BY <2>1, <2>2
<1>4. PortsUnique' /\ PoolUnowned'
  BY <1>1, PortsKept
<1> HIDE DEF x
<1> QED
  BY <1>1, <1>2, <1>3, <1>4, OfferOwner

LEMMA ReclaimOwner ==
  ASSUME IInv, OneOwner, NEW p \in Proc, Alone(p), Reclaim(p)
  PROVE  OneOwner'
<1>1. /\ task[p].pc = "pick" /\ pool = {} /\ Goto(p, "reclaimed") /\ UNCHANGED cont
  BY DEF Reclaim, At
<1>2. PICK S \in SUBSET Reclaimable(Tgt(p)) :
        /\ pool' = pool \cup {rec[b].port : b \in S}
        /\ rec' = [b \in Addr |-> IF b \in S THEN [rec[b] EXCEPT !.port = NoPort] ELSE rec[b]]
  BY DEF Reclaim
<1>3. ASSUME NEW b \in Addr
      PROVE  rec'[b].port = IF b \in S THEN NoPort ELSE rec[b].port
  <2>1. rec[b] \in Record
    BY DEF IInv, DataType
  <2> QED
    BY <1>2, <2>1 DEF Record
<1>4. PortsUnique'
  BY <1>3, NotAllocated DEF PortsUnique, OneOwner, Allocated
<1>5. PoolUnowned'
  <2> SUFFICES ASSUME NEW a \in Addr, rec'[a].port \in Allocated, rec'[a].port \in pool'
               PROVE  FALSE
    BY DEF PoolUnowned, Allocated
  <2>1. a \notin S /\ rec'[a].port = rec[a].port
    BY <1>3, NotAllocated
  <2>2. PICK b \in S : rec[a].port = rec[b].port
    BY <1>1, <1>2, <2>1
  <2>3. b \in Addr
    BY DEF Reclaimable
  <2> QED
    BY <2>1, <2>2, <2>3 DEF OneOwner, PortsUnique
<1>6. cont'[Tgt(p)] = "absent"
  BY <1>1 DEF OneOwner, Owns, Tgt
<1> DEFINE t == [task[p] EXCEPT !.pc = "reclaimed"]
<1>7. Become(p, t) /\ t.pc = "reclaimed" /\ t.tgt = Tgt(p)
  BY <1>1, TgtFacts DEF Goto, Task, Tgt
<1> HIDE DEF t
<1>8. Owns(t, rec', pool', cont')
  BY <1>6, <1>7 DEF Owns, Placing
<1> QED
  BY <1>4, <1>5, <1>7, <1>8, OwnerStep

(* Adopted, or created and made ready: the port stays free.                *)
LEMMA ReadyOwner ==
  ASSUME IInv, OneOwner, NEW p \in Proc, Alone(p), task[p].pc # "idle", NEW x,
         Free(x, Tgt(p), rec, pool), UNCHANGED <<rec, pool>>,
         NEW l \in {"ready", "reheal", "bind", "bound"},
         Become(p, [task[p] EXCEPT !.pc = l, !.port = x]) \/ (Goto(p, l) /\ x = task[p].port)
  PROVE  OneOwner'
<1> DEFINE t == [task[p] EXCEPT !.pc = l, !.port = x]
<1>1. task[p] \in Task
  BY TgtFacts
<1>2. Become(p, t)
  <2>1. CASE Goto(p, l) /\ x = task[p].port
    <3>1. [task[p] EXCEPT !.pc = l] = t
      BY <1>1, <2>1 DEF Task
    <3> QED
      BY <2>1, <3>1 DEF Goto
  <2> QED
    BY <2>1
<1>3. t.pc = l /\ t.port = x /\ t.tgt = Tgt(p)
  BY <1>1 DEF Task, Tgt
<1> HIDE DEF t
<1>4. Owns(t, rec', pool', cont')
  BY <1>3 DEF Owns
<1>5. PortsUnique' /\ PoolUnowned'
  BY PortsKept
<1> QED
  BY <1>2, <1>4, <1>5, OwnerStep

(* The port of a task that is placing it.                                  *)
LEMMA PlacingFree ==
  ASSUME IInv, OneOwner, NEW p \in Proc, task[p].pc \in Placing
  PROVE  task[p].pc # "idle" /\ Tgt(p) \in Addr /\ Free(task[p].port, Tgt(p), rec, pool)
<1>1. task[p].pc # "idle"
  BY DEF Placing
<1> QED
  BY <1>1, TgtFacts DEF OneOwner, Owns, Tgt

LEMMA EnsureOwner ==
  ASSUME IInv, Fresh, OneOwner, NEW p \in Proc, Alone(p), Ensure(p), "internalTaken" \notin Faults
  PROVE  OneOwner'
<1>0. task[p].pc # "idle"
  BY DEF Ensure, Inspect, StartExisting, Adopt, Refuse, TakeRecycled,
    TakeOwnOrNext, Reclaim, TakeReclaimed, CreateOk, CreateTaken, CreateError,
    CreateConflict, TakeOver, TakeStart, TakePort, At
<1>1. task[p] \in Task /\ Tgt(p) \in Addr /\ Owns(task[p], rec, pool, cont)
  BY <1>0, TgtFacts DEF OneOwner
<1>2. CASE Inspect(p)
  <2>1. CASE cont[Tgt(p)] = "absent"
    <3>1. Goto(p, "pick") /\ UNCHANGED <<rec, pool, cont>>
      BY <1>2, <2>1 DEF Inspect
    <3>2. Owns([task[p] EXCEPT !.pc = "pick"], rec, pool, cont')
      BY <1>1, <2>1, <3>1 DEF Owns, Placing, Task, Tgt
    <3> QED
      BY <1>0, <3>1, <3>2, PcNames, GotoOwner
  <2>2. CASE cont[Tgt(p)] # "absent"
    <3>1. (Goto(p, "start") \/ Goto(p, "adopt")) /\ UNCHANGED <<rec, pool>>
      BY <1>2, <2>2 DEF Inspect
    <3> QED
      BY <1>0, <3>1, PlainPcs, GotoPlain
  <2> QED
    BY <2>1, <2>2
<1>3. CASE StartExisting(p) \/ Refuse(p) \/ CreateError(p)
  <2>1. (Goto(p, "adopt") \/ Finish(p)) /\ UNCHANGED <<rec, pool>>
    BY <1>3 DEF StartExisting, Refuse, CreateError, DockerStart
  <2> QED
    BY <1>0, <2>1, PlainPcs, GotoPlain
<1>4. CASE Adopt(p)
  <2>1. /\ UNCHANGED <<rec, pool>>
        /\ \/ Become(p, [task[p] EXCEPT !.pc = "ready", !.port = AdoptedPort(Tgt(p))])
           \/ Finish(p)
    BY <1>4 DEF Adopt
  <2>2. Free(AdoptedPort(Tgt(p)), Tgt(p), rec, pool)
    BY <1>1, OwnFree
  <2> QED
    BY <1>0, <2>1, <2>2, ReadyOwner, PlainPcs, GotoPlain
<1>5. CASE TakeRecycled(p) \/ TakeReclaimed(p)
  BY <1>5, TakenOwner DEF TakeRecycled, TakeReclaimed, At
<1>6. CASE CreateOk(p)
  <2>1. task[p].pc \in Placing /\ Goto(p, "ready") /\ UNCHANGED <<rec, pool>>
    BY <1>6 DEF CreateOk, At, Placing
  <2>2. Free(task[p].port, Tgt(p), rec, pool)
    BY <2>1, PlacingFree
  <2> QED
    BY <1>0, <2>1, <2>2, ReadyOwner
<1>7. ~(CreateTaken(p) \/ CreateConflict(p) \/ TakeOver(p) \/ TakeStart(p) \/ TakePort(p))
  BY <1>1 DEF CreateTaken, CreateConflict, TakeOver, TakeStart, TakePort, At, Owns, Present, Tgt
<1> QED
  BY <1>2, <1>3, <1>4, <1>5, <1>6, <1>7, OwnOrNextOwner, ReclaimOwner DEF Ensure

LEMMA FinalizeOwner ==
  ASSUME IInv, OneOwner, NEW p \in Proc, Alone(p), Finalize(p)
  PROVE  OneOwner'
<1>0. task[p].pc # "idle"
  BY DEF Finalize, Ready, NotReady, Quarantine, Reheal, Rollback, RolledBack,
    Bind, Bound, NotBound, NoteVersion, At
<1>1. /\ task[p] \in Task /\ Tgt(p) \in Addr /\ rec[Tgt(p)] \in Record
      /\ \A b \in Addr : rec[b] \in Record
  BY <1>0, TgtFacts DEF IInv, DataType
<1>2. task[p].pc \in Placing => Free(task[p].port, Tgt(p), rec, pool)
  BY PlacingFree
<1>3. CASE Ready(p) \/ Bind(p)
  <2>1. task[p].pc \in Placing /\ (Goto(p, "bind") \/ Goto(p, "bound")) /\ UNCHANGED <<rec, pool>>
    BY <1>3 DEF Ready, Bind, At, Placing
  <2> QED
    BY <1>0, <1>2, <2>1, ReadyOwner
<1>4. CASE Reheal(p)
  <2>1. task[p].pc \in Placing /\ UNCHANGED <<rec, pool>>
        /\ (Goto(p, "bind") \/ Goto(p, "rollback") \/ Finish(p))
    BY <1>4 DEF Reheal, GiveUp, At, Placing
  <2> QED
    BY <1>0, <1>2, <2>1, ReadyOwner, PlainPcs, GotoPlain
<1>5. CASE NotReady(p) \/ Rollback(p)
  <2>1. UNCHANGED <<rec, pool>> /\ (Goto(p, "rollback") \/ Goto(p, "rolledback") \/ Finish(p))
    BY <1>5 DEF NotReady, GiveUp, Rollback
  <2> QED
    BY <1>0, <2>1, PlainPcs, GotoPlain
<1>6. CASE Quarantine(p)
  <2> DEFINE t == [task[p] EXCEPT !.pc = "reheal"]
             r == IF Exists(Tgt(p)) THEN rec[Tgt(p)] ELSE Unset
  <2>1. task[p].pc \in Placing /\ Replace(p, t, Tgt(p), r) /\ UNCHANGED pool
    BY <1>6 DEF Quarantine, At, Placing
  <2>2. r \in Record /\ r.port = rec[Tgt(p)].port
    BY <1>1, RecordFacts, NotAllocated DEF Exists
  <2>3. t.pc = "reheal" /\ t.port = task[p].port /\ t.tgt = Tgt(p)
    BY <1>1 DEF Task, Tgt
  <2> HIDE DEF t, r
  <2>4. \A b \in Addr : rec'[b].port = rec[b].port
    BY <1>1, <2>1, <2>2 DEF Replace, IInv, DataType
  <2>5. Owns(t, rec', pool', cont')
    BY <1>1, <1>2, <2>1, <2>3, <2>4 DEF Owns, Free
  <2>6. PortsUnique' /\ PoolUnowned'
    BY <2>1, <2>4, PortsKept
  <2> QED
    BY <1>1, <2>1, <2>2, <2>5, <2>6, OwnerStep
<1>7. CASE RolledBack(p)
  <2>1. CASE Exists(Tgt(p))
    <3> DEFINE r == [rec[Tgt(p)] EXCEPT !.status = "destroyed"]
    <3>1. Replace(p, Idle, Tgt(p), r) /\ UNCHANGED pool
      BY <1>7, <2>1 DEF RolledBack
    <3>2. r \in Record /\ r.port = rec[Tgt(p)].port
      BY <1>1 DEF Record, Status
    <3> HIDE DEF r
    <3>3. \A b \in Addr : rec'[b].port = rec[b].port
      BY <1>1, <3>1, <3>2 DEF Replace, IInv, DataType
    <3> QED
      BY <1>1, <3>1, <3>2, <3>3, PlainPcs, PlainStep
  <2>2. CASE ~Exists(Tgt(p))
    BY <1>0, <1>7, <2>2, PlainPcs, GotoPlain DEF RolledBack
  <2> QED
    BY <2>1, <2>2
<1>8. CASE Bound(p) \/ NotBound(p)
  <2>1. task[p].pc \in Placing /\ UNCHANGED pool
    BY <1>8 DEF Bound, NotBound, At, Placing
  <2>2. CASE KeepsRecord(p)
    BY <1>0, <1>8, <2>1, <2>2, PlainPcs, GotoPlain DEF Bound, NotBound
  <2>3. CASE ~KeepsRecord(p)
    <3> DEFINE n == [task[p] EXCEPT !.pc = "noted"]
    <3>1. ASSUME NEW s \in {"running", "stopped"}, NEW t, t.pc \in Plain,
                 Replace(p, t, Tgt(p), [status |-> s, port |-> task[p].port])
          PROVE  OneOwner'
      <4> DEFINE r == [status |-> s, port |-> task[p].port]
      <4>1. r \in Record /\ r.port = task[p].port /\ Replace(p, t, Tgt(p), r)
        BY <1>0, <3>1, TgtFacts DEF Record, Status
      <4> HIDE DEF r
      <4>2. rec'[Tgt(p)].port = task[p].port
            /\ \A b \in Addr \ {Tgt(p)} : rec'[b].port = rec[b].port
        BY <1>1, <4>1 DEF Replace, IInv, DataType
      <4>3. PortsUnique' /\ PoolUnowned'
        BY <1>1, <1>2, <2>1, <4>2, PortGiven
      <4> QED
        BY <1>1, <3>1, <4>1, <4>3, OwnerStep
    <3>2. n.pc \in Plain /\ Idle.pc \in Plain
      BY <1>1, PlainPcs DEF Task
    <3>3. CASE Bound(p)
      <4>1. Replace(p, IF task[p].op = "apply" THEN n ELSE Idle, Tgt(p),
                    [status |-> "running", port |-> task[p].port])
        BY <2>3, <3>3 DEF Bound
      <4> HIDE DEF n
      <4> QED
        BY <3>1, <3>2, <4>1
    <3>4. CASE NotBound(p)
      <4>1. Replace(p, Idle, Tgt(p), [status |-> "stopped", port |-> task[p].port])
        BY <2>3, <3>4 DEF NotBound
      <4> QED
        BY <3>1, <3>2, <4>1
    <3> QED
      BY <1>8, <3>3, <3>4
  <2> QED
    BY <2>2, <2>3
<1>9. CASE NoteVersion(p)
  <2> DEFINE r == IF Exists(Tgt(p)) THEN rec[Tgt(p)] ELSE Unset
  <2>1. Replace(p, Idle, Tgt(p), r) /\ UNCHANGED pool
    BY <1>9 DEF NoteVersion
  <2>2. r \in Record /\ r.port = rec[Tgt(p)].port
    BY <1>1, RecordFacts, NotAllocated DEF Exists
  <2> HIDE DEF r
  <2>3. \A b \in Addr : rec'[b].port = rec[b].port
    BY <1>1, <2>1, <2>2 DEF Replace, IInv, DataType
  <2> QED
    BY <1>1, <2>1, <2>2, <2>3, PlainPcs, PlainStep
<1> QED
  BY <1>3, <1>4, <1>5, <1>6, <1>7, <1>8, <1>9 DEF Finalize

LEMMA RemoveOwner ==
  ASSUME IInv, OneOwner, NEW p \in Proc, Alone(p), Remove(p)
  PROVE  OneOwner'
<1>0. task[p].pc # "idle"
  BY DEF Remove, Discard, Retire, Unroute, Purge, Wipe, At
<1>1. /\ task[p] \in Task /\ Tgt(p) \in Addr /\ Owns(task[p], rec, pool, cont)
      /\ \A b \in Addr : rec[b] \in Record
  BY <1>0, TgtFacts DEF OneOwner, IInv, DataType
<1>2. CASE Discard(p)
  <2>1. task[p].pc = "discard" /\ Goto(p, "discarded") /\ UNCHANGED <<rec, pool>>
    BY <1>2 DEF Discard, At
  <2>2. Owns([task[p] EXCEPT !.pc = "discarded"], rec, pool, cont')
    BY <1>1, <2>1 DEF Owns, Placing, Task
  <2> QED
    BY <1>0, <2>1, <2>2, PcNames, GotoOwner
<1>3. CASE Retire(p)
  <2>1. Finish(p) /\ UNCHANGED pool
        /\ (rec' = rec \/ rec' = [rec EXCEPT ![Tgt(p)].status = "destroyed"])
    BY <1>3 DEF Retire, SetCapturedStatus, Tgt
  <2>2. \A b \in Addr : rec'[b].port = rec[b].port
    BY <1>1, <2>1, StatusNames, StatusKeepsPorts
  <2> QED
    BY <1>0, <2>1, <2>2, PlainPcs, GotoPlain
<1>4. CASE Unroute(p)
  <2> DEFINE t == [task[p] EXCEPT !.pc = "purge", !.port = Captured(task[p]).port]
  <2>1. task[p].op = "remove" /\ task[p].pc = "discarded" /\ Become(p, t) /\ UNCHANGED <<rec, pool>>
    BY <1>4 DEF Unroute, At
  <2>2. Captured(task[p]).port = rec[Tgt(p)].port
    BY <1>1, <2>1 DEF Owns, Captured, Tgt
  <2>3. t.pc = "purge" /\ t.port = rec[Tgt(p)].port /\ t.tgt = Tgt(p)
    BY <1>1, <2>2 DEF Task, Tgt
  <2> HIDE DEF t
  <2>4. Owns(t, rec', pool', cont')
    BY <2>1, <2>3 DEF Owns, Placing
  <2>5. PortsUnique' /\ PoolUnowned'
    BY <2>1, PortsKept
  <2> QED
    BY <2>1, <2>4, <2>5, OwnerStep
<1>5. ASSUME NEW t, t.pc \in Plain, Replace(p, t, Tgt(p), NoRec),
             pool' = pool \/ pool' = pool \cup {rec[Tgt(p)].port}
      PROVE  OneOwner'
  <2>1. rec'[Tgt(p)].port = NoPort /\ \A b \in Addr \ {Tgt(p)} : rec'[b].port = rec[b].port
    BY <1>1, <1>5, NotAllocated DEF Replace, IInv, DataType
  <2>2. PortsUnique'
    BY <2>1, NotAllocated DEF OneOwner, PortsUnique, Allocated
  <2>3. PoolUnowned'
    BY <1>1, <1>5, <2>1, NotAllocated DEF OneOwner, PoolUnowned, PortsUnique, Allocated
  <2> QED
    BY <1>1, <1>5, <2>2, <2>3, RecordFacts, OwnerStep
<1>6. CASE Purge(p)
  <2>1. task[p].port = rec[Tgt(p)].port
    BY <1>1, <1>6 DEF Purge, At, Owns, Tgt
  <2> QED
    BY <1>5, <1>6, <2>1, PlainPcs DEF Purge
<1>7. CASE Wipe(p)
  <2> DEFINE t == [task[p] EXCEPT !.pc = "inspect"]
  <2>1. t.pc \in Plain
    BY <1>1, PlainPcs DEF Task
  <2>2. Replace(p, t, Tgt(p), NoRec) /\ (pool' = pool \/ pool' = pool \cup {rec[Tgt(p)].port})
    BY <1>7 DEF Wipe
  <2> HIDE DEF t
  <2> QED
    BY <1>5, <2>1, <2>2
<1> QED
  BY <1>2, <1>3, <1>4, <1>6, <1>7 DEF Remove

LEMMA ApplyOwner ==
  ASSUME IInv, OneOwner, NEW p \in Proc, Alone(p), Apply(p)
  PROVE  OneOwner'
<1>0. task[p].pc # "idle"
  BY DEF Apply, ApplyInspect, ApplyRemove, ApplyMark, At
<1>1. /\ task[p] \in Task /\ Tgt(p) \in Addr /\ Owns(task[p], rec, pool, cont)
      /\ \A b \in Addr : rec[b] \in Record
  BY <1>0, TgtFacts DEF OneOwner, IInv, DataType
<1>2. task[p].pc \in {"apply", "applyrm"} => task[p].held /\ Captured(task[p]) = rec[Tgt(p)]
  BY <1>1 DEF Owns, Captured, Tgt
<1>3. CASE ApplyInspect(p)
  <2>1. task[p].pc = "apply" /\ UNCHANGED pool
    BY <1>3 DEF ApplyInspect, At
  <2>2. CASE Goto(p, "applyrm") /\ UNCHANGED rec
    <3>1. Owns([task[p] EXCEPT !.pc = "applyrm"], rec, pool, cont')
      BY <1>1, <1>2, <2>1 DEF Owns, Placing, Task
    <3> QED
      BY <1>0, <2>1, <2>2, <3>1, PcNames, GotoOwner
  <2>3. CASE Finish(p) /\ UNCHANGED rec
    BY <1>0, <2>1, <2>3, PlainPcs, GotoPlain
  <2>4. CASE Replace(p, Idle, Tgt(p), Captured(task[p]))
    <3>1. \A b \in Addr : rec'[b] = rec[b]
      BY <1>1, <1>2, <2>1, <2>4 DEF Replace, IInv, DataType
    <3>2. Captured(task[p]) \in Record
      BY <1>1, <1>2, <2>1
    <3> QED
      BY <1>1, <2>1, <2>4, <3>1, <3>2, PlainPcs, PlainStep
  <2> QED
    BY <1>3, <2>2, <2>3, <2>4 DEF ApplyInspect
<1>4. CASE ApplyRemove(p)
  <2> DEFINE x == OrElse(Captured(task[p]).port, Null)
             t == [task[p] EXCEPT !.pc = "applied", !.port = x]
  <2>1. task[p].pc = "applyrm" /\ UNCHANGED <<rec, pool>> /\ (Become(p, t) \/ Finish(p))
    BY <1>4 DEF ApplyRemove, At
  <2>a. x \in {rec[Tgt(p)].port, Null}
    BY <1>2, <2>1 DEF OrElse
  <2>2. t.pc = "applied" /\ t.port \in {rec[Tgt(p)].port, Null} /\ t.tgt = Tgt(p)
    BY <1>1, <2>a DEF Task, Tgt
  <2> HIDE DEF t
  <2>3. Owns(t, rec', pool', cont')
    BY <2>1, <2>2 DEF Owns, Placing
  <2>4. PortsUnique' /\ PoolUnowned'
    BY <2>1, PortsKept
  <2> QED
    BY <1>0, <2>1, <2>3, <2>4, OwnerStep, PlainPcs, GotoPlain
<1>5. CASE ApplyMark(p)
  <2> DEFINE t == [Idle EXCEPT !.pc = "inspect", !.op = "apply", !.tgt = Tgt(p)]
             r == [status |-> "stopped", port |-> task[p].port]
  <2>1. /\ task[p].port \in {rec[Tgt(p)].port, Null}
        /\ Replace(p, t, Tgt(p), r) /\ pool' \subseteq pool
    BY <1>1, <1>5 DEF ApplyMark, At, Owns, Tgt
  <2>2. /\ t.pc \in Plain /\ r \in Record
        /\ r.port \in {rec[Tgt(p)].port, Null}
    BY <1>0, <2>1, PlainPcs, TgtFacts DEF Idle, Record, Status
  <2> HIDE DEF t, r
  <2>3. /\ rec'[Tgt(p)].port = r.port
        /\ \A b \in Addr \ {Tgt(p)} : rec'[b].port = rec[b].port
    BY <1>1, <2>1, <2>2 DEF Replace, IInv, DataType
  <2>4. Free(rec'[Tgt(p)].port, Tgt(p), rec, pool)
    BY <1>1, <2>2, <2>3, OwnFree
  <2>5. PortsUnique' /\ PoolUnowned'
    BY <1>1, <2>1, <2>3, <2>4, PortGiven
  <2> QED
    BY <1>1, <2>1, <2>2, <2>5, OwnerStep
<1> QED
  BY <1>3, <1>4, <1>5 DEF Apply

LEMMA RestartOwner ==
  ASSUME IInv, OneOwner, NEW p \in Proc, Alone(p), Restart(p)
  PROVE  OneOwner'
<1>0. task[p].pc # "idle"
  BY DEF Restart, RestartInspect, Redo, MarkRestarted, At
<1>1. /\ task[p] \in Task /\ Tgt(p) \in Addr /\ rec[Tgt(p)] \in Record
      /\ \A b \in Addr : rec[b] \in Record
  BY <1>0, TgtFacts DEF IInv, DataType
<1>2. CASE RestartInspect(p)
  <2> DEFINE t == [task[p] EXCEPT !.pc = "inspect", !.op = "connect"]
  <2>1. UNCHANGED <<rec, pool>> /\ (Goto(p, "redo") \/ Become(p, t) \/ Finish(p))
    BY <1>2 DEF RestartInspect
  <2>2. t.pc \in Plain
    BY <1>1, PlainPcs DEF Task
  <2> HIDE DEF t
  <2> QED
    BY <1>0, <2>1, <2>2, PlainPcs, PlainStep, GotoPlain
<1>3. CASE Redo(p)
  <2>1. UNCHANGED <<rec, pool>> /\ (Goto(p, "mark") \/ Finish(p))
    BY <1>3 DEF Redo, DockerStart
  <2> QED
    BY <1>0, <2>1, PlainPcs, GotoPlain
<1>4. CASE MarkRestarted(p)
  <2>1. CASE ~Present(Tgt(p))
    BY <1>0, <1>4, <2>1, PlainPcs, GotoPlain DEF MarkRestarted
  <2>2. CASE Present(Tgt(p))
    <3> DEFINE x == AdoptedPort(Tgt(p))
               t == [task[p] EXCEPT !.pc = "ready", !.port = x]
               r == [status |-> "running", port |-> x]
    <3>1. Replace(p, t, Tgt(p), r) /\ UNCHANGED pool
      BY <1>4, <2>2 DEF MarkRestarted
    <3>2. Free(x, Tgt(p), rec, pool)
      BY <1>1, OwnFree
    <3>3. x \in PortValue
      BY <1>1, PortOps DEF IInv
    <3> HIDE DEF x
    <3>4. r \in Record /\ r.port = x
      BY <3>3 DEF Record, Status
    <3>5. t.pc = "ready" /\ t.port = x /\ t.tgt = Tgt(p)
      BY <1>1 DEF Task, Tgt
    <3> HIDE DEF t, r
    <3>6. rec'[Tgt(p)].port = x /\ \A b \in Addr \ {Tgt(p)} : rec'[b].port = rec[b].port
      BY <1>1, <3>1, <3>4 DEF Replace, IInv, DataType
    <3>7. PortsUnique' /\ PoolUnowned'
      BY <1>1, <3>1, <3>2, <3>6, PortGiven
    <3>8. Owns(t, rec', pool', cont')
      BY <3>1, <3>2, <3>5, <3>6 DEF Owns, Free
    <3> QED
      BY <1>1, <3>1, <3>4, <3>7, <3>8, OwnerStep
  <2> QED
    BY <2>1, <2>2
<1> QED
  BY <1>2, <1>3, <1>4 DEF Restart

(* Stop, erase and the sweep write statuses only.                          *)
LEMMA StatusOwner ==
  ASSUME IInv, OneOwner, NEW p \in Proc, Alone(p), Stop(p) \/ EraseData(p)
  PROVE  OneOwner'
<1>0. task[p].pc # "idle"
  BY DEF Stop, StopInspect, Halt, Halted, EraseData, EraseInspect, Erase, Erased, At
<1>1. Tgt(p) \in Addr
  BY <1>0, TgtFacts
<1>2. PICK s \in Status : UNCHANGED pool /\ (rec' = rec \/ rec' = [rec EXCEPT ![Tgt(p)].status = s])
  <2>1. CASE Stop(p)
    BY <2>1, StatusNames DEF Stop, StopInspect, Halt, Halted, SetStatus
  <2>2. CASE EraseData(p)
    BY <2>2, StatusNames DEF EraseData, EraseInspect, Erase, Erased, SetStatus
  <2> QED
    BY <2>1, <2>2
<1>3. \A b \in Addr : rec'[b].port = rec[b].port
  BY <1>1, <1>2, StatusKeepsPorts
<1>4. \E l \in Plain : Goto(p, l) \/ Finish(p)
  <2>1. CASE Stop(p)
    BY <2>1, PlainPcs DEF Stop, StopInspect, Halt, Halted
  <2>2. CASE EraseData(p)
    BY <2>2, PlainPcs DEF EraseData, EraseInspect, Erase, Erased
  <2> QED
    BY <2>1, <2>2
<1> QED
  BY <1>0, <1>2, <1>3, <1>4, GotoPlain

LEMMA SweepOwner ==
  ASSUME IInv, OneOwner, NEW p \in Proc, Alone(p), Sweep(p)
  PROVE  OneOwner'
<1>0. task[p].pc # "idle"
  BY DEF Sweep, Visit, IdleStop, Idled, IdleRemove, At
<1>1. Tgt(p) \in Addr /\ task[p] \in Task /\ Owns(task[p], rec, pool, cont)
  BY <1>0, TgtFacts DEF OneOwner
<1>2. CASE Visit(p)
  <2>1. task[p].pc = "visit" /\ UNCHANGED <<rec, pool>>
        /\ (Goto(p, "idlestop") \/ Goto(p, "idlerm") \/ Finish(p))
    BY <1>2 DEF Visit, At
  <2>2. /\ Owns([task[p] EXCEPT !.pc = "idlestop"], rec, pool, cont')
        /\ Owns([task[p] EXCEPT !.pc = "idlerm"], rec, pool, cont')
    BY <1>1, <2>1 DEF Owns, Placing, Task
  <2> QED
    BY <1>0, <2>1, <2>2, PcNames, PlainPcs, GotoPlain, GotoOwner
<1>3. CASE Idled(p)
  <2>1. Finish(p) /\ UNCHANGED pool
        /\ (rec' = rec \/ rec' = [rec EXCEPT ![Tgt(p)].status = "stopped"])
    BY <1>3 DEF Idled, SetCapturedStatus, Tgt
  <2>2. \A b \in Addr : rec'[b].port = rec[b].port
    BY <1>1, <2>1, StatusNames, StatusKeepsPorts
  <2> QED
    BY <1>0, <2>1, <2>2, PlainPcs, GotoPlain
<1>4. CASE IdleStop(p) \/ IdleRemove(p)
  <2>1. task[p].pc \in {"idlestop", "idlerm"} /\ UNCHANGED <<rec, pool>>
        /\ (Goto(p, "idled") \/ Goto(p, "discarded") \/ Finish(p))
    BY <1>4 DEF IdleStop, IdleRemove, At
  <2>2. Owns([task[p] EXCEPT !.pc = "discarded"], rec, pool, cont')
    BY <1>1, <2>1 DEF Owns, Placing, Task
  <2> QED
    BY <1>0, <2>1, <2>2, PcNames, PlainPcs, GotoPlain, GotoOwner
<1> QED
  BY <1>2, <1>3, <1>4 DEF Sweep

LEMMA UpgradeOwner ==
  ASSUME IInv, OneOwner, NEW p \in Proc, Alone(p), Upgrade(p)
  PROVE  OneOwner'
<1>0. task[p].pc # "idle"
  BY DEF Upgrade, UpgradeInspect, Resize, Resized, At
<1>1. /\ Tgt(p) \in Addr /\ rec[Tgt(p)] \in Record
      /\ \A b \in Addr : rec[b] \in Record
  BY <1>0, TgtFacts DEF IInv, DataType
<1>2. CASE UNCHANGED <<rec, pool>> /\ (Goto(p, "resize") \/ Goto(p, "resized") \/ Finish(p))
  BY <1>0, <1>2, PlainPcs, GotoPlain
<1>3. ASSUME NEW r \in Record, r.port = rec[Tgt(p)].port, Replace(p, Idle, Tgt(p), r), UNCHANGED pool
      PROVE  OneOwner'
  <2>1. \A b \in Addr : rec'[b].port = rec[b].port
    BY <1>1, <1>3 DEF Replace, IInv, DataType
  <2> QED
    BY <1>1, <1>3, <2>1, PlainPcs, PlainStep
<1>4. CASE UpgradeInspect(p)
  <2> DEFINE r == IF Exists(Tgt(p)) THEN rec[Tgt(p)] ELSE Unset
  <2>1. r \in Record /\ r.port = rec[Tgt(p)].port
    BY <1>1, RecordFacts, NotAllocated DEF Exists
  <2>2. \/ Goto(p, "resize") /\ UNCHANGED <<rec, pool>>
        \/ Replace(p, Idle, Tgt(p), r) /\ UNCHANGED pool
    BY <1>4 DEF UpgradeInspect
  <2> HIDE DEF r
  <2> QED
    BY <1>2, <1>3, <2>1, <2>2
<1>5. CASE Resize(p)
  BY <1>2, <1>5 DEF Resize
<1>6. CASE Resized(p)
  <2> DEFINE r == [rec[Tgt(p)] EXCEPT !.status = "running"]
  <2>1. r \in Record /\ r.port = rec[Tgt(p)].port
    BY <1>1 DEF Record, Status
  <2>2. Replace(p, Idle, Tgt(p), r) /\ UNCHANGED pool
    BY <1>6 DEF Resized
  <2> HIDE DEF r
  <2> QED
    BY <1>3, <2>1, <2>2
<1> QED
  BY <1>4, <1>5, <1>6 DEF Upgrade

(* The heal timer binds the port its tenant has.                           *)
LEMMA RemapOwner ==
  ASSUME IInv, OneOwner, NEW p \in Proc, Alone(p), Remap(p)
  PROVE  OneOwner'
<1>1. task[p].pc = "remap" /\ UNCHANGED <<rec, pool>>
  BY DEF Remap, At
<1>2. Tgt(p) \in Addr /\ Captured(task[p]).port = rec[Tgt(p)].port
  BY <1>1, TgtFacts DEF OneOwner, Owns, Captured, Tgt
<1>3. Free(Captured(task[p]).port, Tgt(p), rec, pool)
  BY <1>2, OwnFree
<1> QED
  BY <1>1, <1>3, ReadyOwner, PlainPcs, GotoPlain DEF Remap

LEMMA StartOwner ==
  ASSUME IInv, OneOwner, NEW p \in Proc, Alone(p), NEW a \in Addr, Start(p, a)
  PROVE  OneOwner'
<1>1. PICK o \in AllOps, l \in Pcs, k \in BOOLEAN :
        /\ Begin(p, o, a, l, k)
        /\ \/ l \in Plain
           \/ l = "discard" /\ (o = "remove" => k)
           \/ l = "apply" /\ k
           \/ l = "remap" /\ k
           \/ l = "visit" /\ o = "sweep"
  BY PcNames, PlainPcs DEF Start, StartConnect, StartLeave, StartRemove, StartReset, StartApply,
    StartRestart, StartStop, StartErase, StartSweep, StartHeal, StartUpgrade, AllOps
<1> DEFINE t == [Idle EXCEPT !.pc = l, !.op = o, !.tgt = a, !.held = k]
<1>2. t.pc = l /\ t.op = o /\ t.held = k
  BY DEF Idle
<1>3. Become(p, t) /\ UNCHANGED <<rec, pool>>
  BY <1>1 DEF Begin
<1> HIDE DEF t
<1>4. t.pc \in Plain \/ Owns(t, rec', pool', cont')
  BY <1>1, <1>2 DEF Owns, Placing
<1>5. PortsUnique' /\ PoolUnowned'
  BY <1>3, PortsKept
<1> QED
  BY <1>3, <1>4, <1>5, OwnerStep

(* An exit leaves a missing container missing.                             *)
LEMMA ExitOwner ==
  ASSUME IInv, OneOwner, NEW a \in Addr, ContainerExit(a)
  PROVE  OneOwner'
<1>1. /\ UNCHANGED <<rec, pool, task>> /\ cont[a] = "running"
      /\ cont' = [cont EXCEPT ![a] = "exited"] /\ cont \in [Addr -> {"absent", "exited", "running"}]
  BY DEF ContainerExit, IInv, DataType
<1>2. ASSUME NEW p \in Proc, task[p].pc # "idle"
      PROVE  Owns(task[p], rec, pool, cont')
  <2>1. Owns(task[p], rec, pool, cont) /\ task[p].tgt \in Addr
    BY <1>2 DEF OneOwner, IInv, TaskInv, TaskType
  <2>2. cont[task[p].tgt] = "absent" => cont'[task[p].tgt] = "absent"
    BY <1>1, <2>1
  <2> QED
    BY <2>1, <2>2 DEF Owns
<1> QED
  BY <1>1, <1>2 DEF OneOwner, PortsUnique, PoolUnowned, Owns, Free

LEMMA SerialOwner ==
  ASSUME IInv, Fresh, OneOwner, SerialNext, "internalTaken" \notin Faults
  PROVE  OneOwner'
<1>1. ASSUME NEW p \in Proc, Alone(p), Resume(p)
      PROVE  OneOwner'
  BY <1>1, EnsureOwner, FinalizeOwner, RemoveOwner, ApplyOwner, RestartOwner, StatusOwner,
     SweepOwner, UpgradeOwner, RemapOwner DEF Resume
<1>2. ASSUME NEW p \in Proc, Alone(p), NEW a \in Addr, Start(p, a)
      PROVE  OneOwner'
  BY <1>2, StartOwner
<1> QED
  BY <1>1, <1>2, ExitOwner DEF SerialNext, Alone

(* The invariant of the behaviours whose operations run one after another. *)
SerialRight == mode = "serial" => OneOwner

LEMMA PortsInductive ==
  "internalTaken" \notin Faults => (PortsSpec => [](IInv /\ Fresh /\ SerialRight))
<1> SUFFICES ASSUME "internalTaken" \notin Faults
             PROVE  PortsSpec => [](IInv /\ Fresh /\ SerialRight)
  OBVIOUS
<1>1. PortsInit => IInv /\ Fresh /\ SerialRight
  <2> SUFFICES ASSUME Init
               PROVE  IInv /\ Known /\ OneOwner
    BY DEF PortsInit, MCInit, Fresh, SerialRight
  <2>1. IInv /\ Known
    BY InitInv, NotAllocated DEF Init, Known, RecFresh, PoolFresh, TaskFresh, Below
  <2>2. OneOwner
    BY NotAllocated DEF Init, OneOwner, PortsUnique, PoolUnowned, Idle, Allocated
  <2> QED
    BY <2>1, <2>2
<1>2. IInv /\ Fresh /\ SerialRight /\ [PortsNext]_<<vars, issued, mode>>
        => (IInv /\ Fresh /\ SerialRight)'
  <2> SUFFICES ASSUME IInv, Fresh, SerialRight, [PortsNext]_<<vars, issued, mode>>
               PROVE  (IInv /\ Fresh /\ SerialRight)'
    OBVIOUS
  <2>1. [Next]_vars
    BY DEF PortsNext, MCNext, SerialNext, Next, vars
  <2>2. IInv' /\ Fresh'
    BY <2>1, NextInv, NextFresh
  <2>3. CASE mode = "serial" /\ SerialNext /\ mode' = mode
    BY <2>2, <2>3, SerialOwner DEF SerialRight
  <2>4. CASE UNCHANGED vars /\ mode' = mode
    BY <2>2, <2>4 DEF SerialRight, OneOwner, PortsUnique, PoolUnowned, Owns, Free, vars
  <2>5. CASE mode = "interleaved" /\ mode' = mode
    BY <2>2, <2>5 DEF SerialRight
  <2> QED
    BY <2>3, <2>4, <2>5, <2>2 DEF PortsNext
<1> QED
  BY <1>1, <1>2, PTL DEF PortsSpec

(* Operations that run one after another never give a public port to two   *)
(* tenants, whatever fails in them (user.service.js:1421); only an internal*)
(* port that docker finds taken may move a tenant to another's port.       *)
THEOREM SerialPortsUnique == "internalTaken" \notin Faults => (PortsSpec => []SerialPorts)
<1> SUFFICES ASSUME "internalTaken" \notin Faults
             PROVE  PortsSpec => []SerialPorts
  OBVIOUS
<1>1. SerialRight => SerialPorts
  BY DEF SerialRight, OneOwner, SerialPorts
<1> QED
  BY <1>1, PortsInductive, PTL

(* Nor is a port in the pool while a tenant has it (user.service.js:2168). *)
THEOREM SerialPoolUnowned == "internalTaken" \notin Faults => (PortsSpec => []SerialPool)
<1> SUFFICES ASSUME "internalTaken" \notin Faults
             PROVE  PortsSpec => []SerialPool
  OBVIOUS
<1>1. SerialRight => SerialPool
  BY DEF SerialRight, OneOwner, SerialPool
<1> QED
  BY <1>1, PortsInductive, PTL
=============================================================================
