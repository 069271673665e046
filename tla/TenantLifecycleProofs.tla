------------------------ MODULE TenantLifecycleProofs ------------------------
(***************************************************************************)
(* The type invariant of TenantLifecycle, proved for every set of tenants, *)
(* every number of tasks and every port range, with every fault allowed.   *)
(***************************************************************************)
EXTENDS TenantLifecycle, TLAPS

(* The part of the type invariant that speaks of the tasks.                *)
TaskType == /\ task \in [Proc -> Task]
            /\ \A p \in Proc : task[p].pc # "idle" => task[p].tgt \in Addr

(* The creation loop asks docker only below the end of the range.          *)
OfferBounded == \A p \in Proc : task[p].pc = "create" => task[p].port <= MaxPort

TaskInv == TaskType /\ OfferBounded

DataType == /\ rec \in [Addr -> Record]
            /\ pool \subseteq PortValue
            /\ nextPort \in BasePort .. MaxPort + 1 \cup {NaN}
            /\ cont \in [Addr -> {"absent", "exited", "running"}]
            /\ routes \in [PortValue \ {NaN} -> Addr \cup {NoAddr}]

LEMMA TypeSplit == TypeOK <=> DataType /\ TaskType
  BY DEF TypeOK, DataType, TaskType

(* The points a task can be suspended at, by name.                         *)
LEMMA PcNames ==
  /\ "idle" \in Pcs /\ "inspect" \in Pcs /\ "start" \in Pcs /\ "adopt" \in Pcs
  /\ "pick" \in Pcs /\ "reclaimed" \in Pcs /\ "create" \in Pcs
  /\ "takeover" \in Pcs /\ "takestart" \in Pcs /\ "takeport" \in Pcs
  /\ "ready" \in Pcs /\ "reheal" \in Pcs /\ "rollback" \in Pcs
  /\ "rolledback" \in Pcs /\ "bind" \in Pcs /\ "bound" \in Pcs
  /\ "noted" \in Pcs /\ "discard" \in Pcs /\ "discarded" \in Pcs
  /\ "purge" \in Pcs /\ "apply" \in Pcs /\ "applyrm" \in Pcs
  /\ "applied" \in Pcs /\ "rinspect" \in Pcs /\ "redo" \in Pcs
  /\ "mark" \in Pcs /\ "sinspect" \in Pcs /\ "halt" \in Pcs
  /\ "halted" \in Pcs /\ "einspect" \in Pcs /\ "erase" \in Pcs
  /\ "erased" \in Pcs /\ "visit" \in Pcs /\ "idlestop" \in Pcs
  /\ "idled" \in Pcs /\ "idlerm" \in Pcs /\ "remap" \in Pcs
  /\ "uinspect" \in Pcs /\ "resize" \in Pcs /\ "resized" \in Pcs
  BY DEF Pcs

LEMMA PortFacts == /\ NoPort \in PortValue /\ NaN \in PortValue /\ Null \in PortValue
                   /\ \A a \in Addr : InternalPort[a] \in PortValue
                   /\ \A x \in PublicPort : x \in PortValue
                   /\ PortValue \subseteq Int
  BY PortAssumption, InternalAssumption
  DEF PortValue, PublicPort, NoPort, NaN, Null

LEMMA RecordFacts == /\ NoRec \in Record /\ Unset \in Record
                     /\ \A r \in Record, s \in Status :
                          [r EXCEPT !.status = s] \in Record
                     /\ \A r \in Record : r.status \in Status /\ r.port \in PortValue
                     /\ \A s \in Status, x \in PortValue :
                          [status |-> s, port |-> x] \in Record
  BY PortFacts DEF NoRec, Unset, Record, Status

LEMMA TaskFacts ==
  /\ Idle \in Task /\ Idle.pc = "idle"
  /\ \A t \in Task, l \in Pcs : /\ [t EXCEPT !.pc = l] \in Task
                                /\ [t EXCEPT !.pc = l].pc = l
                                /\ [t EXCEPT !.pc = l].tgt = t.tgt
  /\ \A t \in Task : /\ t.pc \in Pcs /\ t.tgt \in Addr \cup {NoAddr}
                     /\ t.port \in PortValue /\ t.obj \in Record
                     /\ t.held \in BOOLEAN /\ t.tries \in 0 .. MaxAttempts - 1
  /\ \A t \in Task, l \in Pcs, x \in PortValue :
       /\ [t EXCEPT !.pc = l, !.port = x] \in Task
       /\ [t EXCEPT !.pc = l, !.port = x].tgt = t.tgt
<1>1. 0 \in 0 .. MaxAttempts - 1
  BY ParamAssumption
<1>2. NoPort \in PortValue /\ NoRec \in Record /\ "idle" \in Pcs
  BY PortFacts, RecordFacts, PcNames
<1>3. Idle \in Task /\ Idle.pc = "idle"
  BY <1>1, <1>2 DEF Idle, Task
<1>4. \A t \in Task, l \in Pcs : /\ [t EXCEPT !.pc = l] \in Task
                                /\ [t EXCEPT !.pc = l].pc = l
                                /\ [t EXCEPT !.pc = l].tgt = t.tgt
  BY DEF Task
<1>5. \A t \in Task : /\ t.pc \in Pcs /\ t.tgt \in Addr \cup {NoAddr}
                     /\ t.port \in PortValue /\ t.obj \in Record
                     /\ t.held \in BOOLEAN /\ t.tries \in 0 .. MaxAttempts - 1
  BY DEF Task
<1>6. \A t \in Task, l \in Pcs, x \in PortValue :
       /\ [t EXCEPT !.pc = l, !.port = x] \in Task
       /\ [t EXCEPT !.pc = l, !.port = x].tgt = t.tgt
  BY DEF Task
<1> QED
  BY <1>3, <1>4, <1>5, <1>6

LEMMA BecomeType ==
  ASSUME TaskInv, NEW p \in Proc, NEW t \in Task,
         t.pc # "idle" => t.tgt \in Addr,
         t.pc = "create" => t.port <= MaxPort, Become(p, t)
  PROVE  TaskInv'
  BY DEF TaskInv, OfferBounded, TaskType, Become

LEMMA FinishType == ASSUME TaskInv, NEW p \in Proc, Finish(p)
                    PROVE  TaskInv'
  BY BecomeType, TaskFacts DEF Finish

LEMMA GotoType ==
  ASSUME TaskInv, NEW p \in Proc, task[p].pc # "idle",
         NEW l \in Pcs, l # "create", Goto(p, l)
  PROVE  TaskInv'
<1>1. task[p] \in Task
  BY DEF TaskInv, TaskType
<1> QED
  BY <1>1, BecomeType, TaskFacts DEF Goto, TaskInv, TaskType

LEMMA ReplaceType ==
  ASSUME DataType, TaskInv, NEW p \in Proc, NEW t \in Task,
         t.pc # "idle" => t.tgt \in Addr,
         t.pc = "create" => t.port <= MaxPort,
         NEW a \in Addr, NEW r \in Record, Replace(p, t, a, r)
  PROVE  rec' \in [Addr -> Record] /\ TaskInv'
<1>1. rec' \in [Addr -> Record]
  BY DEF DataType, Replace
<1>2. ASSUME NEW q \in Proc
      PROVE  /\ task'[q] \in Task
             /\ task'[q].pc # "idle" => task'[q].tgt \in Addr
             /\ task'[q].pc = "create" => task'[q].port <= MaxPort
  <2>1. rec[a] \in Record /\ task[q] \in Task
    BY DEF DataType, TaskInv, TaskType
  <2>2. [task[q] EXCEPT !.held = FALSE, !.obj = rec[a]] \in Task
    BY <2>1 DEF Task
  <2> QED
    BY <2>1, <2>2 DEF Replace, TaskInv, TaskType, OfferBounded, Task
<1> QED
  BY <1>1, <1>2 DEF Replace, TaskInv, TaskType, OfferBounded

-----------------------------------------------------------------------------
(* Helpers of the actions.                                                 *)

LEMMA PortOps ==
  /\ \A x \in PortValue : Truthy(x) => x \in PortValue \ {NoPort, NaN}
  /\ \A a \in Addr : DataType => AdoptedPort(a) \in PortValue
  /\ \A x \in PortValue : PlusOne(x) <= MaxPort => PlusOne(x) \in PortValue
  /\ \A x \in PortValue : x <= MaxPort =>
       JsMax(nextPort, PlusOne(x)) \in BasePort .. MaxPort + 1 \cup {NaN}
       \/ nextPort \notin BasePort .. MaxPort + 1 \cup {NaN}
<1>1. \A x \in PortValue : Truthy(x) => x \in PortValue \ {NoPort, NaN}
  BY PortFacts DEF Truthy, NoPort, NaN
<1>2. \A a \in Addr : DataType => AdoptedPort(a) \in PortValue
  BY PortFacts, RecordFacts DEF AdoptedPort, OrElse, DataType
<1>3. \A x \in PortValue : x \notin {NoPort, NaN} => x >= 0
  BY PortAssumption, InternalAssumption
  DEF PortValue, NoPort, NaN, Null
<1>4. \A x \in PortValue : PlusOne(x) <= MaxPort => PlusOne(x) \in PortValue
  BY <1>3, PortAssumption, PortFacts DEF PlusOne, PortValue, NaN
<1>5. \A x \in PortValue : x <= MaxPort =>
       JsMax(nextPort, PlusOne(x)) \in BasePort .. MaxPort + 1 \cup {NaN}
       \/ nextPort \notin BasePort .. MaxPort + 1 \cup {NaN}
  BY <1>3, PortAssumption, PortFacts DEF PlusOne, JsMax, NaN
<1> QED
  BY <1>1, <1>2, <1>4, <1>5

LEMMA HeadsType ==
  ASSUME NEW q \in SUBSET PortValue, NEW x \in Heads(q)
  PROVE  x \in PortValue /\ (x # NoPort => x \in q)
  BY PortFacts DEF Heads

LEMMA OfferType ==
  ASSUME TaskInv, NEW p \in Proc, task[p].pc # "idle",
         NEW x \in Int, x <= MaxPort => x \in PortValue,
         NEW n \in 0 .. MaxAttempts, Offer(p, x, n)
  PROVE  TaskInv'
<1>1. CASE x > MaxPort \/ n = MaxAttempts
  BY <1>1, FinishType DEF Offer
<1>2. CASE ~(x > MaxPort \/ n = MaxAttempts)
  <2>1. x \in PortValue /\ n \in 0 .. MaxAttempts - 1
    BY <1>2, PortAssumption, ParamAssumption
  <2>2. /\ [task[p] EXCEPT !.pc = "create", !.port = x, !.tries = n] \in Task
        /\ [task[p] EXCEPT !.pc = "create", !.port = x, !.tries = n].tgt = task[p].tgt
        /\ [task[p] EXCEPT !.pc = "create", !.port = x, !.tries = n].port = x
    BY <2>1, PcNames DEF TaskInv, TaskType, Task
  <2>3. x <= MaxPort
    BY <1>2, PortAssumption
  <2> QED
    BY <1>2, <2>2, <2>3, BecomeType DEF Offer, TaskInv, TaskType
<1> QED
  BY <1>1, <1>2

LEMMA NextAttemptType ==
  ASSUME TaskInv, NEW p \in Proc, task[p].pc # "idle", NextAttempt(p)
  PROVE  TaskInv'
<1>0. task[p] \in Task
  BY DEF TaskInv, TaskType
<1>a. task[p].port \in PortValue /\ task[p].tries \in 0 .. MaxAttempts - 1
  BY <1>0, TaskFacts
<1>1. task[p].port \in PortValue /\ task[p].tries + 1 \in 0 .. MaxAttempts
  BY <1>a, ParamAssumption
<1>b. \A x \in Int : PlusOne(x) \in Int
  BY DEF PlusOne, NaN
<1>2. PlusOne(task[p].port) \in Int
  BY <1>1, <1>b, PortFacts
<1> QED
  BY <1>1, <1>2, OfferType, PortOps DEF NextAttempt

LEMMA DockerStartType ==
  ASSUME DataType, TaskInv, NEW p \in Proc, task[p].pc # "idle", NEW l \in Pcs, l # "create",
         DockerStart(p, l)
  PROVE  DataType' /\ TaskInv'
<1>1. TaskInv'
  BY GotoType, FinishType DEF DockerStart
<1>2. DataType'
  BY DEF DockerStart, DataType
<1> QED
  BY <1>1, <1>2

LEMMA CloseRouteType ==
  ASSUME DataType, NEW x \in PortValue, CloseRoute(x)
  PROVE  routes' \in [PortValue \ {NaN} -> Addr \cup {NoAddr}]
  BY PortOps DEF CloseRoute, DataType

LEMMA CapturedType ==
  ASSUME DataType, TaskInv, NEW p \in Proc, task[p].pc # "idle"
  PROVE  Captured(task[p]) \in Record /\ Captured(task[p]).port \in PortValue
<1>1. task[p] \in Task /\ task[p].tgt \in Addr
  BY DEF TaskInv, TaskType
<1>2. Captured(task[p]) \in Record
  BY <1>1, TaskFacts DEF Captured, DataType
<1> QED
  BY <1>2, RecordFacts

(* What Discarded and Stopped make of a container.                         *)
LEMMA ContainerType ==
  ASSUME DataType, NEW a \in Addr
  PROVE  /\ Discarded(a) \subseteq {"absent", "exited", "running"}
         /\ Stopped(cont[a]) \in {"absent", "exited", "running"}
  BY DEF Discarded, Stopped, DataType

-----------------------------------------------------------------------------
(* The type invariant, one lemma per group of actions.                     *)

IInv == DataType /\ TaskInv

LEMMA StartInv ==
  ASSUME IInv, NEW p \in Proc, NEW a \in Addr, Start(p, a)
  PROVE  IInv'
<1>1. PICK o \in AllOps, l \in Pcs \ {"idle", "create"}, k \in BOOLEAN :
        Begin(p, o, a, l, k)
  BY PcNames DEF Start, StartConnect, StartLeave, StartRemove, StartReset, StartApply,
    StartRestart, StartStop, StartErase, StartSweep, StartHeal, StartUpgrade,
    AllOps
<1> DEFINE t == [Idle EXCEPT !.pc = l, !.op = o, !.tgt = a, !.held = k]
<1>2. t \in Task /\ t.tgt = a /\ t.pc = l
  BY TaskFacts DEF Idle, Task
<1>3. TaskInv'
  BY <1>1, <1>2, BecomeType DEF Begin, IInv
<1>4. DataType'
  BY <1>1 DEF Begin, IInv, DataType
<1> QED
  BY <1>3, <1>4 DEF IInv

(* What is known of the task that takes a step.                            *)
LEMMA TgtFacts ==
  ASSUME IInv, NEW p \in Proc, task[p].pc # "idle"
  PROVE  /\ Tgt(p) \in Addr /\ task[p] \in Task /\ task[p].port \in PortValue
         /\ DataType /\ TaskInv
         /\ rec[Tgt(p)] \in Record /\ rec[Tgt(p)].port \in PortValue
         /\ AdoptedPort(Tgt(p)) \in PortValue
         /\ Captured(task[p]) \in Record /\ Captured(task[p]).port \in PortValue
<1>1. Tgt(p) \in Addr /\ task[p] \in Task /\ DataType /\ TaskInv
  BY DEF IInv, TaskInv, TaskType, Tgt
<1>2. rec[Tgt(p)] \in Record
  BY <1>1 DEF DataType
<1>3. rec[Tgt(p)].port \in PortValue
  BY <1>2, RecordFacts
<1>4. AdoptedPort(Tgt(p)) \in PortValue
  BY <1>1, PortOps
<1>5. Captured(task[p]) \in Record /\ Captured(task[p]).port \in PortValue
  BY <1>1, CapturedType
<1> QED
  BY <1>1, <1>2, <1>3, <1>4, <1>5, TaskFacts

(* The task p, moved to l.                                                 *)
LEMMA MovedTask ==
  ASSUME IInv, NEW p \in Proc, task[p].pc # "idle"
  PROVE  \A l \in Pcs : /\ [task[p] EXCEPT !.pc = l] \in Task
                        /\ [task[p] EXCEPT !.pc = l].pc = l
                        /\ [task[p] EXCEPT !.pc = l].tgt \in Addr
<1>1. task[p] \in Task /\ task[p].tgt \in Addr
  BY TgtFacts DEF Tgt
<1> QED
  BY <1>1 DEF Task

(* Writing a status in place.                                              *)
LEMMA StatusType ==
  ASSUME DataType
  PROVE  \A a \in Addr, s \in Status :
           [rec EXCEPT ![a].status = s] \in [Addr -> Record]
<1> SUFFICES ASSUME NEW a \in Addr, NEW s \in Status
             PROVE  [rec EXCEPT ![a].status = s] \in [Addr -> Record]
  OBVIOUS
<1>1. rec[a] \in Record /\ [rec[a] EXCEPT !.status = s] \in Record
  BY RecordFacts DEF DataType
<1> QED
  BY <1>1 DEF DataType

LEMMA StatusNames == /\ "running" \in Status /\ "stopped" \in Status
                     /\ "destroyed" \in Status
  BY DEF Status

(* A task that goes on at l with port x, or ends.                          *)
LEMMA MoveType ==
  ASSUME IInv, NEW p \in Proc, task[p].pc # "idle",
         NEW l \in Pcs, l # "create", NEW x \in PortValue,
         \/ Become(p, [task[p] EXCEPT !.pc = l, !.port = x])
         \/ Goto(p, l) \/ Finish(p)
  PROVE  TaskInv'
<1>1. CASE Become(p, [task[p] EXCEPT !.pc = l, !.port = x])
  <2> DEFINE t == [task[p] EXCEPT !.pc = l, !.port = x]
  <2>1. t \in Task /\ t.tgt \in Addr /\ t.pc # "create"
    BY TgtFacts, TaskFacts DEF Tgt, Task
  <2> QED
    BY <1>1, <2>1, BecomeType, TgtFacts
<1>2. CASE Goto(p, l) \/ Finish(p)
  BY <1>2, TgtFacts, GotoType, FinishType
<1> QED
  BY <1>1, <1>2

LEMMA EnsureInv ==
  ASSUME IInv, NEW p \in Proc, Ensure(p)
  PROVE  IInv'
<1>0. task[p].pc # "idle"
  BY DEF Ensure, Inspect, StartExisting, Adopt, Refuse, TakeRecycled,
    TakeOwnOrNext, Reclaim, TakeReclaimed, CreateOk, CreateTaken, CreateError,
    CreateConflict, TakeOver, TakeStart, TakePort, At
<1> USE TgtFacts, <1>0, PcNames
<1>1. CASE Inspect(p)
  <2>1. TaskInv'
    BY <1>1, MoveType DEF Inspect
  <2> QED
    BY <1>1, <2>1 DEF Inspect, IInv, DataType
<1>2. CASE StartExisting(p)
  BY <1>2, DockerStartType DEF StartExisting, IInv
<1>3. CASE Adopt(p)
  <2>1. TaskInv'
    BY <1>3, MoveType DEF Adopt
  <2> QED
    BY <1>3, <2>1 DEF Adopt, IInv, DataType
<1>4. CASE Refuse(p)
  <2>1. TaskInv'
    BY <1>4, FinishType DEF Refuse
  <2> QED
    BY <1>4, <2>1 DEF Refuse, IInv, DataType
<1>5. CASE TakeRecycled(p) \/ TakeReclaimed(p)
  <2>1. PICK x \in Heads(pool) : pool' = pool \ {x} /\ Offer(p, x, 0)
    BY <1>5 DEF TakeRecycled, TakeReclaimed
  <2>2. x \in PortValue /\ x \in Int
    BY <2>1, HeadsType, PortFacts DEF DataType
  <2>3. TaskInv'
    BY <2>1, <2>2, OfferType, ParamAssumption
  <2> QED
    BY <1>5, <2>1, <2>3 DEF TakeRecycled, TakeReclaimed, IInv, DataType
<1>6. CASE TakeOwnOrNext(p)
  <2> DEFINE x == OwnOrNext(Tgt(p))
  <2>1. x \in Int /\ (x <= MaxPort => x \in PortValue)
    <3>1. nextPort \in Int /\ (nextPort <= MaxPort => nextPort \in PortValue)
      BY PortAssumption, PortFacts DEF DataType, PublicPort, NaN
    <3> QED
      BY <3>1, PortFacts DEF OwnOrNext, OrElse
  <2>2. TaskInv'
    BY <1>6, <2>1, OfferType, ParamAssumption DEF TakeOwnOrNext
  <2> QED
    BY <1>6, <2>2 DEF TakeOwnOrNext, IInv, DataType
<1>7. CASE Reclaim(p)
  <2>1. TaskInv'
    BY <1>7, GotoType DEF Reclaim
  <2>2. PICK S \in SUBSET Reclaimable(Tgt(p)) :
          /\ pool' = pool \cup {rec[b].port : b \in S}
          /\ rec' = [b \in Addr |->
                       IF b \in S THEN [rec[b] EXCEPT !.port = NoPort] ELSE rec[b]]
    BY <1>7 DEF Reclaim
  <2>3. \A b \in Addr : /\ rec[b] \in Record /\ rec[b].port \in PortValue
                        /\ [rec[b] EXCEPT !.port = NoPort] \in Record
    BY PortFacts DEF DataType, Record
  <2>4. rec' \in [Addr -> Record] /\ pool' \subseteq PortValue
    BY <2>2, <2>3 DEF DataType, Reclaimable
  <2> QED
    BY <1>7, <2>1, <2>4 DEF Reclaim, IInv, DataType
<1>8. CASE CreateOk(p)
  <2>1. TaskInv'
    BY <1>8, GotoType DEF CreateOk
  <2>2. task[p].port <= MaxPort
    BY <1>8 DEF CreateOk, At, TaskInv, OfferBounded
  <2>3. nextPort' \in BasePort .. MaxPort + 1 \cup {NaN}
    BY <1>8, <2>2, PortOps DEF CreateOk, DataType
  <2> QED
    BY <1>8, <2>1, <2>3 DEF CreateOk, IInv, DataType
<1>9. CASE CreateTaken(p)
  <2>1. TaskInv'
    BY <1>9, NextAttemptType DEF CreateTaken
  <2> QED
    BY <1>9, <2>1 DEF CreateTaken, LeftOver, IInv, DataType
<1>10. CASE CreateError(p)
  <2>1. TaskInv'
    BY <1>10, FinishType DEF CreateError
  <2> QED
    BY <1>10, <2>1 DEF CreateError, LeftOver, IInv, DataType
<1>11. CASE CreateConflict(p)
  <2>1. TaskInv'
    BY <1>11, GotoType DEF CreateConflict
  <2> QED
    BY <1>11, <2>1 DEF CreateConflict, IInv, DataType
<1>12. CASE TakeOver(p)
  <2>1. \/ NextAttempt(p) \/ Goto(p, "takestart") \/ Goto(p, "takeport")
    BY <1>12 DEF TakeOver
  <2>2. TaskInv'
    BY <2>1, NextAttemptType, MoveType
  <2> QED
    BY <1>12, <2>2 DEF TakeOver, IInv, DataType
<1>13. CASE TakeStart(p)
  BY <1>13, DockerStartType DEF TakeStart, IInv
<1>14. CASE TakePort(p)
  <2>1. TaskInv'
    BY <1>14, MoveType, NextAttemptType DEF TakePort
  <2> QED
    BY <1>14, <2>1 DEF TakePort, IInv, DataType
<1> QED
  BY <1>1, <1>2, <1>3, <1>4, <1>5, <1>6, <1>7, <1>8, <1>9, <1>10, <1>11,
    <1>12, <1>13, <1>14 DEF Ensure

LEMMA FinalizeInv ==
  ASSUME IInv, NEW p \in Proc, Finalize(p)
  PROVE  IInv'
<1>0. task[p].pc # "idle"
  BY DEF Finalize, Ready, NotReady, Quarantine, Reheal, Rollback, RolledBack,
    Bind, Bound, NotBound, NoteVersion, At
<1>a. rec[Tgt(p)] \in Record /\ Unset \in Record /\ Idle \in Task
  BY <1>0, TgtFacts, RecordFacts, TaskFacts
<1>b. Idle.pc = "idle"
  BY TaskFacts
<1>c. \A l \in Pcs : /\ [task[p] EXCEPT !.pc = l] \in Task
                     /\ [task[p] EXCEPT !.pc = l].pc = l
                     /\ [task[p] EXCEPT !.pc = l].tgt \in Addr
  BY <1>0, MovedTask
<1> USE TgtFacts, <1>0, PcNames, <1>a, <1>b
<1>1. CASE Ready(p)
  <2>1. TaskInv'
    BY <1>1, MoveType DEF Ready
  <2> QED
    BY <1>1, <2>1 DEF Ready, IInv, DataType
<1>2. CASE NotReady(p)
  <2>1. TaskInv'
    BY <1>2, MoveType DEF NotReady, GiveUp
  <2> QED
    BY <1>2, <2>1 DEF NotReady, IInv, DataType
<1>3. CASE Quarantine(p)
  <2>1. PICK r \in Record :
          Replace(p, [task[p] EXCEPT !.pc = "reheal"], Tgt(p), r)
    BY <1>3 DEF Quarantine
  <2>2. rec' \in [Addr -> Record] /\ TaskInv'
    BY <2>1, <1>c, ReplaceType
  <2> QED
    BY <1>3, <2>2 DEF Quarantine, IInv, DataType
<1>4. CASE Reheal(p)
  <2>1. TaskInv'
    BY <1>4, MoveType DEF Reheal, GiveUp
  <2> QED
    BY <1>4, <2>1 DEF Reheal, IInv, DataType
<1>5. CASE Rollback(p)
  <2>1. TaskInv'
    BY <1>5, MoveType DEF Rollback
  <2> QED
    BY <1>5, <2>1, ContainerType DEF Rollback, IInv, DataType
<1>6. CASE RolledBack(p)
  <2>1. [rec[Tgt(p)] EXCEPT !.status = "destroyed"] \in Record
    BY RecordFacts DEF Status
  <2>2. rec' \in [Addr -> Record] /\ TaskInv'
    BY <1>6, <2>1, ReplaceType, FinishType DEF RolledBack, DataType
  <2> QED
    BY <1>6, <2>2 DEF RolledBack, IInv, DataType
<1>7. CASE Bind(p)
  <2>1. TaskInv'
    BY <1>7, MoveType DEF Bind
  <2> QED
    BY <1>7, <2>1 DEF Bind, IInv, DataType
<1>8. CASE Bound(p)
  <2>1. [status |-> "running", port |-> task[p].port] \in Record
    BY RecordFacts DEF Status
  <2>2. CASE KeepsRecord(p)
    BY <1>8, <2>2, FinishType DEF Bound, DataType, IInv
  <2>3. CASE ~KeepsRecord(p)
    <3>1. PICK t \in {Idle, [task[p] EXCEPT !.pc = "noted"]} :
            Replace(p, t, Tgt(p), [status |-> "running", port |-> task[p].port])
      BY <1>8, <2>3 DEF Bound
    <3>2. t \in Task /\ (t.pc # "idle" => t.tgt \in Addr) /\ t.pc # "create"
      BY <1>c
    <3>3. rec' \in [Addr -> Record] /\ TaskInv'
      BY <2>1, <3>1, <3>2, ReplaceType
    <3> QED
      BY <1>8, <3>3 DEF Bound, IInv, DataType
  <2> QED
    BY <2>2, <2>3
<1>9. CASE NotBound(p)
  <2>1. [status |-> "stopped", port |-> task[p].port] \in Record
    BY RecordFacts DEF Status
  <2>2. rec' \in [Addr -> Record] /\ TaskInv'
    BY <1>9, <2>1, ReplaceType, FinishType DEF NotBound, DataType
  <2> QED
    BY <1>9, <2>2 DEF NotBound, IInv, DataType
<1>10. CASE NoteVersion(p)
  <2>1. rec' \in [Addr -> Record] /\ TaskInv'
    BY <1>10, ReplaceType DEF NoteVersion
  <2> QED
    BY <1>10, <2>1 DEF NoteVersion, IInv, DataType
<1> QED
  BY <1>1, <1>2, <1>3, <1>4, <1>5, <1>6, <1>7, <1>8, <1>9, <1>10 DEF Finalize

LEMMA RemoveInv ==
  ASSUME IInv, NEW p \in Proc, Remove(p)
  PROVE  IInv'
<1>0. task[p].pc # "idle"
  BY DEF Remove, Discard, Retire, Unroute, Purge, Wipe, At
<1>a. NoRec \in Record /\ Idle \in Task /\ Idle.pc = "idle"
  BY RecordFacts, TaskFacts
<1>b. /\ [task[p] EXCEPT !.pc = "inspect"] \in Task
      /\ [task[p] EXCEPT !.pc = "inspect"].pc = "inspect"
      /\ [task[p] EXCEPT !.pc = "inspect"].tgt \in Addr
  BY <1>0, MovedTask, PcNames
<1> USE TgtFacts, <1>0, PcNames, <1>a
<1>1. CASE Discard(p)
  <2>1. TaskInv'
    BY <1>1, MoveType DEF Discard
  <2> QED
    BY <1>1, <2>1, ContainerType DEF Discard, IInv, DataType
<1>2. CASE Retire(p)
  <2>1. TaskInv'
    BY <1>2, FinishType DEF Retire
  <2>2. routes' \in [PortValue \ {NaN} -> Addr \cup {NoAddr}]
    BY <1>2, CloseRouteType DEF Retire
  <2>3. rec' \in [Addr -> Record]
    BY <1>2, RecordFacts DEF Retire, SetCapturedStatus, DataType, Tgt, Status
  <2> QED
    BY <1>2, <2>1, <2>2, <2>3 DEF Retire, IInv, DataType
<1>3. CASE Unroute(p)
  <2>1. TaskInv'
    BY <1>3, MoveType DEF Unroute
  <2>2. routes' \in [PortValue \ {NaN} -> Addr \cup {NoAddr}]
    BY <1>3, CloseRouteType DEF Unroute
  <2> QED
    BY <1>3, <2>1, <2>2 DEF Unroute, IInv, DataType
<1>4. CASE Purge(p)
  <2>1. rec' \in [Addr -> Record] /\ TaskInv'
    BY <1>4, ReplaceType DEF Purge
  <2> QED
    BY <1>4, <2>1 DEF Purge, IInv, DataType
<1>5. CASE Wipe(p)
  <2>1. rec' \in [Addr -> Record] /\ TaskInv'
    BY <1>5, <1>b, ReplaceType DEF Wipe
  <2>2. routes' \in [PortValue \ {NaN} -> Addr \cup {NoAddr}]
    BY <1>5, CloseRouteType DEF Wipe
  <2> QED
    BY <1>5, <2>1, <2>2 DEF Wipe, IInv, DataType
<1> QED
  BY <1>1, <1>2, <1>3, <1>4, <1>5 DEF Remove

LEMMA ApplyInv ==
  ASSUME IInv, NEW p \in Proc, Apply(p)
  PROVE  IInv'
<1>0. task[p].pc # "idle"
  BY DEF Apply, ApplyInspect, ApplyRemove, ApplyMark, At
<1>a. NoRec \in Record /\ Unset \in Record /\ Idle \in Task /\ Idle.pc = "idle"
  BY RecordFacts, TaskFacts
<1>b. \A l \in Pcs : /\ [task[p] EXCEPT !.pc = l] \in Task
                     /\ [task[p] EXCEPT !.pc = l].pc = l
                     /\ [task[p] EXCEPT !.pc = l].tgt \in Addr
  BY <1>0, MovedTask
<1> USE TgtFacts, <1>0, PcNames
<1>1. CASE ApplyInspect(p)
  <2>1. rec' \in [Addr -> Record] /\ TaskInv'
    <3>1. CASE Present(Tgt(p))
      BY <1>1, <3>1, MoveType DEF ApplyInspect, DataType
    <3>2. CASE ~Present(Tgt(p)) /\ Finish(p) /\ UNCHANGED rec
      BY <3>2, FinishType DEF DataType
    <3>3. CASE Replace(p, Idle, Tgt(p), Captured(task[p]))
      BY <3>3, <1>a, ReplaceType
    <3> QED
      BY <1>1, <3>1, <3>2, <3>3 DEF ApplyInspect
  <2> QED
    BY <1>1, <2>1 DEF ApplyInspect, IInv, DataType
<1>2. CASE ApplyRemove(p)
  <2>0. OrElse(Captured(task[p]).port, Null) \in PortValue
    BY <1>2, PortFacts DEF OrElse
  <2>1. TaskInv'
    BY <1>2, <2>0, MoveType DEF ApplyRemove
  <2> QED
    BY <1>2, <2>1, ContainerType DEF ApplyRemove, IInv, DataType
<1>3. CASE ApplyMark(p)
  <2> DEFINE t == [Idle EXCEPT !.pc = "inspect", !.op = "apply", !.tgt = Tgt(p)]
  <2>1. t \in Task /\ t.tgt \in Addr /\ t.pc = "inspect"
    BY <1>a DEF Task, Idle, AllOps
  <2>2. [status |-> "stopped", port |-> task[p].port] \in Record
    BY RecordFacts DEF Status
  <2>3. rec' \in [Addr -> Record] /\ TaskInv'
    BY <1>3, <2>1, <2>2, ReplaceType DEF ApplyMark
  <2> QED
    BY <1>3, <2>3 DEF ApplyMark, IInv, DataType
<1> QED
  BY <1>1, <1>2, <1>3 DEF Apply


LEMMA RestartInv ==
  ASSUME IInv, NEW p \in Proc, Restart(p)
  PROVE  IInv'
<1>0. task[p].pc # "idle"
  BY DEF Restart, RestartInspect, Redo, MarkRestarted, At
<1>a. NoRec \in Record /\ Unset \in Record /\ Idle \in Task /\ Idle.pc = "idle"
  BY RecordFacts, TaskFacts
<1>b. \A l \in Pcs : /\ [task[p] EXCEPT !.pc = l] \in Task
                     /\ [task[p] EXCEPT !.pc = l].pc = l
                     /\ [task[p] EXCEPT !.pc = l].tgt \in Addr
  BY <1>0, MovedTask
<1> USE TgtFacts, <1>0, PcNames
<1>1. CASE RestartInspect(p)
  <2> DEFINE t == [task[p] EXCEPT !.pc = "inspect", !.op = "connect"]
  <2>1. task[p] \in Task /\ task[p].tgt \in Addr
    BY DEF Tgt
  <2>2. t \in Task /\ t.tgt \in Addr /\ t.pc = "inspect"
    BY <2>1 DEF Task, AllOps
  <2>3. TaskInv'
    BY <1>1, <2>2, MoveType, BecomeType DEF RestartInspect
  <2> QED
    BY <1>1, <2>3 DEF RestartInspect, IInv, DataType
<1>2. CASE Redo(p)
  BY <1>2, DockerStartType DEF Redo, IInv
<1>3. CASE MarkRestarted(p)
  <2> DEFINE x == AdoptedPort(Tgt(p))
             t == [task[p] EXCEPT !.pc = "ready", !.port = x]
  <2>1. task[p] \in Task /\ task[p].tgt \in Addr /\ x \in PortValue
    BY DEF Tgt
  <2>2. t \in Task /\ t.tgt \in Addr /\ t.pc = "ready"
    BY <2>1 DEF Task
  <2>3. [status |-> "running", port |-> x] \in Record
    BY <2>1, RecordFacts DEF Status
  <2>4. rec' \in [Addr -> Record] /\ TaskInv'
    <3>1. CASE Present(Tgt(p))
      <4>1. Replace(p, t, Tgt(p), [status |-> "running", port |-> x])
        BY <1>3, <3>1 DEF MarkRestarted
      <4> QED
        BY <4>1, <2>2, <2>3, ReplaceType
    <3>2. CASE ~Present(Tgt(p))
      BY <1>3, <3>2, FinishType DEF MarkRestarted, DataType
    <3> QED
      BY <3>1, <3>2
  <2> QED
    BY <1>3, <2>4 DEF MarkRestarted, IInv, DataType
<1> QED
  BY <1>1, <1>2, <1>3 DEF Restart


LEMMA StopInv ==
  ASSUME IInv, NEW p \in Proc, Stop(p)
  PROVE  IInv'
<1>0. task[p].pc # "idle"
  BY DEF Stop, StopInspect, Halt, Halted, At
<1> USE TgtFacts, <1>0, PcNames
<1>1. CASE StopInspect(p)
  <2>1. TaskInv'
    BY <1>1, MoveType DEF StopInspect
  <2>2. rec' \in [Addr -> Record]
    BY <1>1, StatusType, StatusNames DEF StopInspect, SetStatus,
      SetCapturedStatus, DataType, Tgt
  <2> QED
    BY <1>1, <2>1, <2>2 DEF StopInspect, IInv, DataType
<1>2. CASE Halt(p)
  <2>1. TaskInv'
    BY <1>2, MoveType DEF Halt
  <2> QED
    BY <1>2, <2>1, ContainerType DEF Halt, IInv, DataType
<1>3. CASE Halted(p)
  <2>1. TaskInv'
    BY <1>3, MoveType DEF Halted
  <2>2. rec' \in [Addr -> Record]
    BY <1>3, StatusType, StatusNames DEF Halted, SetStatus,
      SetCapturedStatus, DataType, Tgt
  <2> QED
    BY <1>3, <2>1, <2>2 DEF Halted, IInv, DataType
<1> QED
  BY <1>1, <1>2, <1>3 DEF Stop


LEMMA EraseDataInv ==
  ASSUME IInv, NEW p \in Proc, EraseData(p)
  PROVE  IInv'
<1>0. task[p].pc # "idle"
  BY DEF EraseData, EraseInspect, Erase, Erased, At
<1> USE TgtFacts, <1>0, PcNames
<1>1. CASE EraseInspect(p)
  <2>1. TaskInv'
    BY <1>1, MoveType DEF EraseInspect
  <2> QED
    BY <1>1, <2>1, ContainerType DEF EraseInspect, IInv, DataType
<1>2. CASE Erase(p)
  <2>1. TaskInv'
    BY <1>2, MoveType DEF Erase
  <2> QED
    BY <1>2, <2>1, ContainerType DEF Erase, IInv, DataType
<1>3. CASE Erased(p)
  <2>1. TaskInv'
    BY <1>3, FinishType DEF Erased
  <2>2. rec' \in [Addr -> Record]
    BY <1>3, StatusType, StatusNames DEF Erased, SetStatus, DataType
  <2>3. routes' \in [PortValue \ {NaN} -> Addr \cup {NoAddr}]
    BY <1>3, CloseRouteType DEF Erased, DataType
  <2> QED
    BY <1>3, <2>1, <2>2, <2>3 DEF Erased, IInv, DataType
<1> QED
  BY <1>1, <1>2, <1>3 DEF EraseData


LEMMA SweepInv ==
  ASSUME IInv, NEW p \in Proc, Sweep(p)
  PROVE  IInv'
<1>0. task[p].pc # "idle"
  BY DEF Sweep, Visit, IdleStop, Idled, IdleRemove, At
<1> USE TgtFacts, <1>0, PcNames
<1>1. CASE Visit(p)
  <2>1. TaskInv'
    BY <1>1, MoveType DEF Visit
  <2> QED
    BY <1>1, <2>1, ContainerType DEF Visit, IInv, DataType
<1>2. CASE IdleStop(p)
  <2>1. TaskInv'
    BY <1>2, MoveType DEF IdleStop
  <2> QED
    BY <1>2, <2>1, ContainerType DEF IdleStop, IInv, DataType
<1>3. CASE Idled(p)
  <2>1. TaskInv'
    BY <1>3, MoveType DEF Idled
  <2>2. rec' \in [Addr -> Record]
    BY <1>3, StatusType, StatusNames DEF Idled, SetStatus,
      SetCapturedStatus, DataType, Tgt
  <2> QED
    BY <1>3, <2>1, <2>2 DEF Idled, IInv, DataType
<1>4. CASE IdleRemove(p)
  <2>1. TaskInv'
    BY <1>4, MoveType DEF IdleRemove
  <2> QED
    BY <1>4, <2>1, ContainerType DEF IdleRemove, IInv, DataType
<1> QED
  BY <1>1, <1>2, <1>3, <1>4 DEF Sweep


LEMMA RemapInv ==
  ASSUME IInv, NEW p \in Proc, Remap(p)
  PROVE  IInv'
<1>0. task[p].pc # "idle"
  BY DEF Remap, At
<1> USE TgtFacts, <1>0, PcNames
<1>1. TaskInv'
  BY MoveType DEF Remap
<1> QED
  BY <1>1 DEF Remap, IInv, DataType


LEMMA UpgradeInv ==
  ASSUME IInv, NEW p \in Proc, Upgrade(p)
  PROVE  IInv'
<1>0. task[p].pc # "idle"
  BY DEF Upgrade, UpgradeInspect, Resize, Resized, At
<1>a. NoRec \in Record /\ Unset \in Record /\ Idle \in Task /\ Idle.pc = "idle"
  BY RecordFacts, TaskFacts
<1>b. \A l \in Pcs : /\ [task[p] EXCEPT !.pc = l] \in Task
                     /\ [task[p] EXCEPT !.pc = l].pc = l
                     /\ [task[p] EXCEPT !.pc = l].tgt \in Addr
  BY <1>0, MovedTask
<1> USE TgtFacts, <1>0, PcNames
<1>1. CASE UpgradeInspect(p)
  <2>1. rec' \in [Addr -> Record] /\ TaskInv'
    <3>1. CASE Present(Tgt(p))
      BY <1>1, <3>1, MoveType DEF UpgradeInspect, DataType
    <3>2. CASE ~Present(Tgt(p))
      BY <1>1, <3>2, <1>a, ReplaceType DEF UpgradeInspect
    <3> QED
      BY <3>1, <3>2
  <2> QED
    BY <1>1, <2>1 DEF UpgradeInspect, IInv, DataType
<1>2. CASE Resize(p)
  <2>1. TaskInv'
    BY <1>2, MoveType DEF Resize
  <2> QED
    BY <1>2, <2>1, ContainerType DEF Resize, IInv, DataType
<1>3. CASE Resized(p)
  <2>1. [rec[Tgt(p)] EXCEPT !.status = "running"] \in Record
    BY RecordFacts DEF Status
  <2>2. rec' \in [Addr -> Record] /\ TaskInv'
    BY <1>3, <2>1, <1>a, ReplaceType DEF Resized
  <2> QED
    BY <1>3, <2>2 DEF Resized, IInv, DataType
<1> QED
  BY <1>1, <1>2, <1>3 DEF Upgrade

LEMMA ResumeInv ==
  ASSUME IInv, NEW p \in Proc, Resume(p)
  PROVE  IInv'
  BY EnsureInv, FinalizeInv, RemoveInv, ApplyInv, RestartInv, StopInv,
    EraseDataInv, SweepInv, RemapInv, UpgradeInv DEF Resume

LEMMA InitInv == Init => IInv
<1> SUFFICES ASSUME Init PROVE IInv
  OBVIOUS
<1>1. TaskInv
  BY TaskFacts DEF Init, TaskInv, TaskType, OfferBounded
<1>2. DataType
  BY RecordFacts, PortAssumption, ParamAssumption DEF Init, DataType
<1> QED
  BY <1>1, <1>2 DEF IInv

LEMMA NextInv == IInv /\ [Next]_vars => IInv'
<1> SUFFICES ASSUME IInv, [Next]_vars PROVE IInv'
  OBVIOUS
<1>1. ASSUME NEW p \in Proc, Resume(p) PROVE IInv'
  BY <1>1, ResumeInv
<1>2. ASSUME NEW p \in Proc, NEW a \in Addr, Start(p, a) PROVE IInv'
  BY <1>2, StartInv
<1>3. ASSUME NEW a \in Addr, ContainerExit(a) PROVE IInv'
  BY <1>3 DEF ContainerExit, IInv, DataType, TaskInv, TaskType, OfferBounded
<1>4. CASE UNCHANGED vars
  BY <1>4 DEF vars, IInv, DataType, TaskInv, TaskType, OfferBounded
<1> QED
  BY <1>1, <1>2, <1>3, <1>4 DEF Next

(* Whatever tasks interleave and whatever fails, every variable keeps its  *)
(* type: no step records, pools, offers or routes a port above the         *)
(* configured range, unless it is a tenant's own internal port, for every  *)
(* range, number of tenants and number of tasks.  A port below the range   *)
(* is not excluded: null + 1 is 1, and the loop checks the upper end only. *)
THEOREM TypeCorrect == Spec => []TypeOK
<1>1. IInv => TypeOK
  BY TypeSplit DEF IInv, TaskInv
<1> QED
  BY <1>1, InitInv, NextInv, PTL DEF Spec
=============================================================================
