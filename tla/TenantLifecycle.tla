--------------------------- MODULE TenantLifecycle ---------------------------
(***************************************************************************)
(* The lifecycle of a tenant of the platform: user.service.js (ensure,     *)
(* destroy, reset, apply, restart, stop, erase, sweep, heal, upgrade), the *)
(* route table of tenant-proxy.service.js and the docker daemon they drive.*)
(*                                                                         *)
(* The server is one Node.js process, so code between two awaits is atomic *)
(* and everything else interleaves: requests and timers run as tasks, and  *)
(* a task's pc names the await it is suspended at.  There is no lock: two  *)
(* tasks may work on the same tenant.                                      *)
(*                                                                         *)
(* Abstractions: a record keeps status and public port only (the metering  *)
(* fields are in UsageMeter); each tenant has one fixed internal port;     *)
(* elapsed time and measurements are nondeterministic; saving is left out. *)
(***************************************************************************)
EXTENDS Integers, FiniteSets

CONSTANTS Addr,          \* tenant addresses
          Proc,          \* request handlers and timers that may run at once
          BasePort,      \* CONFIG.docker.basePort
          MaxPort,       \* CONFIG.docker.maxPort
          InternalPort,  \* the loopback port docker maps for each tenant
          MaxAttempts,   \* attempts of the creation loop (64 in the code)
          Ops,           \* operations the instance issues
          Faults,        \* what the environment may do wrong
          NoAddr         \* no tenant

AllOps == {"connect", "destroy", "remove", "reset", "apply", "restart",
           "stop", "erase", "sweep", "heal", "upgrade"}

AllFaults == {"docker", "exit", "notReady", "bindBusy", "internalTaken", "refuse"}

ASSUME PortAssumption == /\ BasePort \in Nat \ {0}
                         /\ MaxPort \in Nat
                         /\ BasePort <= MaxPort
ASSUME InternalAssumption == /\ InternalPort \in [Addr -> Nat]
                             /\ \A a \in Addr : InternalPort[a] >= BasePort
                             /\ \A a, b \in Addr :
                                  InternalPort[a] = InternalPort[b] => a = b
ASSUME ParamAssumption == /\ MaxAttempts \in Nat \ {0}
                          /\ Ops \subseteq AllOps
                          /\ Faults \subseteq AllFaults
                          /\ NoAddr \notin Addr

VARIABLES rec,       \* this.state.swtcUsers
          pool,      \* this.state.availablePorts
          nextPort,  \* this.state.nextPort
          cont,      \* the docker container of each tenant
          routes,    \* tenantGateway.routes: public port -> tenant
          task       \* the suspended request handlers and timers

vars == <<rec, pool, nextPort, cont, routes, task>>

-----------------------------------------------------------------------------
(* Ports as JavaScript has them: undefined, null and NaN are values a port *)
(* can take, all falsy, and none is greater than a port.  null counts and  *)
(* sorts as 0, so null + 1 is 1: the creation loop may count up from there.*)

NoPort == -2        \* undefined
NaN == -1
Null == 0

PublicPort == BasePort .. MaxPort
PortValue == (1 .. MaxPort) \cup {InternalPort[a] : a \in Addr} \cup {NoPort, NaN, Null}

Truthy(x) == x > 0
PlusOne(x) == IF x \in {NoPort, NaN} THEN NaN ELSE x + 1
JsMax(x, y) == IF NaN \in {x, y} THEN NaN ELSE IF x >= y THEN x ELSE y

(* The operator ??.                                                        *)
OrElse(x, y) == IF x \in {NoPort, Null} THEN y ELSE x

(* The values availablePorts.shift() may return: the array is kept sorted, *)
(* null sorts first and undefined last, a NaN leaves the order open, and   *)
(* shifting the empty array gives undefined.                               *)
Heads(q) == LET nums == q \ {NoPort, NaN} IN
            IF NaN \in q THEN q \ {NoPort}
            ELSE IF nums # {} THEN {x \in nums : \A y \in nums : x <= y}
            ELSE {NoPort}

-----------------------------------------------------------------------------
(* Records and tasks.                                                      *)

Status == {"none", "unset", "running", "stopped", "destroyed"}
Record == [status : Status, port : PortValue]
NoRec == [status |-> "none", port |-> NoPort]      \* no entry for the address
Unset == [status |-> "unset", port |-> NoPort]     \* an entry without a status

Exists(a) == rec[a] # NoRec

Pcs == {"idle",
        "inspect", "start", "adopt", "pick", "reclaimed", "create", "takeover",
        "takestart", "takeport", "ready", "reheal", "rollback", "rolledback",
        "bind", "bound", "noted", "discard", "discarded", "purge", "apply",
        "applyrm", "applied", "rinspect", "redo", "mark", "sinspect", "halt",
        "halted", "einspect", "erase", "erased", "visit", "idlestop", "idled",
        "idlerm", "remap", "uinspect", "resize", "resized"}

(* A task works for tenant tgt.  port is its local variable.  held says    *)
(* that the record object it captured is still the one in the state; when  *)
(* another task has replaced that object, obj is the captured one.         *)
Task == [pc : Pcs, op : AllOps \cup {"none"}, tgt : Addr \cup {NoAddr},
         port : PortValue, tries : 0 .. MaxAttempts - 1, held : BOOLEAN,
         obj : Record]

Idle == [pc |-> "idle", op |-> "none", tgt |-> NoAddr, port |-> NoPort,
         tries |-> 0, held |-> FALSE, obj |-> NoRec]

(* The fields of the record object task t captured, as they are now.       *)
Captured(t) == IF t.held THEN rec[t.tgt] ELSE t.obj

Become(p, t) == task' = [task EXCEPT ![p] = t]
Goto(p, l) == Become(p, [task[p] EXCEPT !.pc = l])
Finish(p) == Become(p, Idle)

(* Task p turns into t and makes r the new record object of tenant a: who  *)
(* holds the old object keeps it.                                          *)
Replace(p, t, a, r) ==
  /\ rec' = [rec EXCEPT ![a] = r]
  /\ task' = [q \in Proc |->
                IF q = p THEN t
                ELSE IF task[q].held /\ task[q].tgt = a
                     THEN [task[q] EXCEPT !.held = FALSE, !.obj = rec[a]]
                     ELSE task[q]]

(* tenantGateway.close(port), as the callers guard it with if (port).      *)
CloseRoute(x) == routes' = IF Truthy(x) THEN [routes EXCEPT ![x] = NoAddr]
                           ELSE routes

(* A user object captured earlier is written in place: the state changes   *)
(* only if that object is still the record.                                *)
SetCapturedStatus(t, s) ==
  rec' = IF t.held THEN [rec EXCEPT ![t.tgt].status = s] ELSE rec

At(p, l) == task[p].pc = l
Tgt(p) == task[p].tgt
Present(a) == cont[a] # "absent"

Stopped(c) == IF c = "running" THEN "exited" ELSE c

(* What docker stop followed by docker rm leaves when their errors are     *)
(* ignored.                                                                *)
Discarded(a) == {"absent"} \cup
  (IF "docker" \in Faults THEN {cont[a], Stopped(cont[a])} ELSE {})

-----------------------------------------------------------------------------
Init == /\ rec = [a \in Addr |-> NoRec]
        /\ pool = {}
        /\ nextPort = BasePort
        /\ cont = [a \in Addr |-> "absent"]
        /\ routes = [x \in PortValue \ {NaN} |-> NoAddr]
        /\ task = [p \in Proc |-> Idle]

-----------------------------------------------------------------------------
(* Operations start.  Where the code needs the record it reads it before   *)
(* the first await; destroy, apply, sweep and heal keep the object.        *)

Begin(p, o, a, l, keeps) ==
  /\ At(p, "idle") /\ o \in Ops
  /\ Become(p, [Idle EXCEPT !.pc = l, !.op = o, !.tgt = a, !.held = keeps])
  /\ UNCHANGED <<rec, pool, nextPort, cont, routes>>

StartConnect(p, a) == Begin(p, "connect", a, "inspect", FALSE)
StartReset(p, a) == Begin(p, "reset", a, "discard", FALSE)
StartRestart(p, a) == Begin(p, "restart", a, "rinspect", FALSE)
StartStop(p, a) == Begin(p, "stop", a, "sinspect", FALSE)
StartErase(p, a) == Begin(p, "erase", a, "einspect", FALSE)
StartUpgrade(p, a) == Begin(p, "upgrade", a, "uinspect", FALSE)
StartLeave(p, a) == Exists(a) /\ Begin(p, "destroy", a, "discard", TRUE)
StartRemove(p, a) == Exists(a) /\ Begin(p, "remove", a, "discard", TRUE)
StartApply(p, a) == Exists(a) /\ Begin(p, "apply", a, "apply", TRUE)
StartSweep(p, a) == /\ Exists(a)
                    /\ \A q \in Proc : task[q].op # "sweep"
                    /\ Begin(p, "sweep", a, "visit", TRUE)
StartHeal(p, a) == /\ rec[a].status = "running" /\ Truthy(rec[a].port)
                   /\ routes[rec[a].port] # a
                   /\ Begin(p, "heal", a, "remap", TRUE)

-----------------------------------------------------------------------------
(* ensureContainer: an existing container is started and adopted.          *)

Inspect(p) ==
  /\ At(p, "inspect")
  /\ Goto(p, CASE cont[Tgt(p)] = "absent" -> "pick"
               [] cont[Tgt(p)] = "exited" -> "start"
               [] OTHER -> "adopt")
  /\ UNCHANGED <<rec, pool, nextPort, cont, routes>>

(* docker restart of the target succeeds and p goes on at l, or fails and  *)
(* the operation throws.                                                   *)
DockerStart(p, l) ==
  /\ \/ /\ Present(Tgt(p))
        /\ cont' = [cont EXCEPT ![Tgt(p)] = "running"]
        /\ Goto(p, l)
     \/ /\ "docker" \in Faults \/ ~Present(Tgt(p))
        /\ Finish(p)
        /\ UNCHANGED cont
  /\ UNCHANGED <<rec, pool, nextPort, routes>>

StartExisting(p) == At(p, "start") /\ DockerStart(p, "adopt")

(* The public port of an adopted container: the recorded one, or else the  *)
(* internal port docker has mapped.                                        *)
AdoptedPort(a) == OrElse(rec[a].port, InternalPort[a])

Adopt(p) ==
  /\ At(p, "adopt")
  /\ IF Present(Tgt(p))
     THEN Become(p, [task[p] EXCEPT !.pc = "ready", !.port = AdoptedPort(Tgt(p))])
     ELSE Finish(p)
  /\ UNCHANGED <<rec, pool, nextPort, cont, routes>>

-----------------------------------------------------------------------------
(* ensureContainer: a missing container is created.  preflightCheck has    *)
(* answered; the port is chosen and docker run is called without an await. *)

Refuse(p) ==
  /\ At(p, "pick") /\ "refuse" \in Faults /\ task[p].op # "apply"
  /\ Finish(p)
  /\ UNCHANGED <<rec, pool, nextPort, cont, routes>>

(* Mutant: the range check of the loop is missing.                         *)
OfferUnbounded(p, x, n) ==
  IF n = MaxAttempts THEN Finish(p)
  ELSE Become(p, [task[p] EXCEPT !.pc = "create", !.port = x, !.tries = n])

(* The head of the creation loop: give up above the configured range.      *)
Offer(p, x, n) ==
  IF x > MaxPort \/ n = MaxAttempts THEN Finish(p)
  ELSE Become(p, [task[p] EXCEPT !.pc = "create", !.port = x, !.tries = n])

(* Mutant: the head of the pool is read, not shifted.                      *)
TakeRecycledPeek(p) ==
  /\ At(p, "pick") /\ pool # {}
  /\ \E x \in Heads(pool) : Offer(p, x, 0)
  /\ UNCHANGED <<rec, pool, nextPort, cont, routes>>

TakeRecycled(p) ==
  /\ At(p, "pick") /\ pool # {}
  /\ \E x \in Heads(pool) : pool' = pool \ {x} /\ Offer(p, x, 0)
  /\ UNCHANGED <<rec, nextPort, cont, routes>>

(* Records whose tenant was destroyed and whose port is not in the pool.   *)
Reclaimable(a) == {b \in Addr \ {a} : /\ rec[b].status = "destroyed"
                                      /\ Truthy(rec[b].port)
                                      /\ rec[b].port \notin pool}

OwnOrNext(a) == OrElse(rec[a].port, nextPort)

TakeOwnOrNext(p) ==
  /\ At(p, "pick") /\ pool = {}
  /\ OwnOrNext(Tgt(p)) > MaxPort => Reclaimable(Tgt(p)) = {}
  /\ Offer(p, OwnOrNext(Tgt(p)), 0)
  /\ UNCHANGED <<rec, pool, nextPort, cont, routes>>

(* reclaimDestroyedPorts: each such port goes to the pool once, and the    *)
(* record it was taken from loses it; then the state is saved.             *)
Reclaim(p) ==
  /\ At(p, "pick") /\ pool = {}
  /\ OwnOrNext(Tgt(p)) > MaxPort
  /\ \E S \in SUBSET Reclaimable(Tgt(p)) :
       /\ S # {}
       /\ \A b \in Reclaimable(Tgt(p)) : \E c \in S : rec[c].port = rec[b].port
       /\ \A b, c \in S : rec[b].port = rec[c].port => b = c
       /\ pool' = pool \cup {rec[b].port : b \in S}
       /\ rec' = [b \in Addr |->
                    IF b \in S THEN [rec[b] EXCEPT !.port = NoPort] ELSE rec[b]]
  /\ Goto(p, "reclaimed")
  /\ UNCHANGED <<nextPort, cont, routes>>

(* After the save: shift, whatever the pool holds by now.                  *)
TakeReclaimed(p) ==
  /\ At(p, "reclaimed")
  /\ \E x \in Heads(pool) : pool' = pool \ {x} /\ Offer(p, x, 0)
  /\ UNCHANGED <<rec, nextPort, cont, routes>>

(* Every further turn of the loop asks for the next public port.           *)
NextAttempt(p) == Offer(p, PlusOne(task[p].port), task[p].tries + 1)

(* Mutant: the counter stays at the port just given.                       *)
CreateOkSamePort(p) ==
  /\ At(p, "create") /\ ~Present(Tgt(p))
  /\ cont' = [cont EXCEPT ![Tgt(p)] = "running"]
  /\ nextPort' = JsMax(nextPort, task[p].port)
  /\ Goto(p, "ready")
  /\ UNCHANGED <<rec, pool, routes>>

(* Mutant: the counter is set without Math.max.                            *)
CreateOkLowers(p) ==
  /\ At(p, "create") /\ ~Present(Tgt(p))
  /\ cont' = [cont EXCEPT ![Tgt(p)] = "running"]
  /\ nextPort' = PlusOne(task[p].port)
  /\ Goto(p, "ready")
  /\ UNCHANGED <<rec, pool, routes>>

CreateOk(p) ==
  /\ At(p, "create") /\ ~Present(Tgt(p))
  /\ cont' = [cont EXCEPT ![Tgt(p)] = "running"]
  /\ nextPort' = JsMax(nextPort, PlusOne(task[p].port))
  /\ Goto(p, "ready")
  /\ UNCHANGED <<rec, pool, routes>>

(* docker run failed: it may leave a container that was never started.     *)
LeftOver(a) == \/ UNCHANGED cont
               \/ cont' = [cont EXCEPT ![a] = "exited"]

CreateTaken(p) ==
  /\ At(p, "create") /\ ~Present(Tgt(p)) /\ "internalTaken" \in Faults
  /\ LeftOver(Tgt(p))
  /\ NextAttempt(p)
  /\ UNCHANGED <<rec, pool, nextPort, routes>>

CreateError(p) ==
  /\ At(p, "create") /\ ~Present(Tgt(p)) /\ "docker" \in Faults
  /\ LeftOver(Tgt(p))
  /\ Finish(p)
  /\ UNCHANGED <<rec, pool, nextPort, routes>>

(* Someone else has created the container: take it over.                   *)
CreateConflict(p) ==
  /\ At(p, "create") /\ Present(Tgt(p))
  /\ Goto(p, "takeover")
  /\ UNCHANGED <<rec, pool, nextPort, cont, routes>>

TakeOver(p) ==
  /\ At(p, "takeover")
  /\ CASE cont[Tgt(p)] = "absent" -> NextAttempt(p)
       [] cont[Tgt(p)] = "exited" -> Goto(p, "takestart")
       [] OTHER -> Goto(p, "takeport")
  /\ UNCHANGED <<rec, pool, nextPort, cont, routes>>

TakeStart(p) == At(p, "takestart") /\ DockerStart(p, "takeport")

(* Mutant: wait for the port of a container that is gone.                  *)
TakePortWaits(p) ==
  /\ At(p, "takeport")
  /\ IF Present(Tgt(p))
     THEN Become(p, [task[p] EXCEPT !.pc = "ready", !.port = AdoptedPort(Tgt(p))])
     ELSE Goto(p, "takeport")
  /\ UNCHANGED <<rec, pool, nextPort, cont, routes>>

TakePort(p) ==
  /\ At(p, "takeport")
  /\ IF Present(Tgt(p))
     THEN Become(p, [task[p] EXCEPT !.pc = "ready", !.port = AdoptedPort(Tgt(p))])
     ELSE NextAttempt(p)
  /\ UNCHANGED <<rec, pool, nextPort, cont, routes>>

-----------------------------------------------------------------------------
(* finalizeTenant: ready, then the gateway is bound, then "running".       *)
(* restartContainer waits for readiness and binds the same way, with its   *)
(* record already written, and the heal timer binds.                       *)

Ready(p) ==
  /\ At(p, "ready") /\ cont[Tgt(p)] = "running"
  /\ Goto(p, "bind")
  /\ UNCHANGED <<rec, pool, nextPort, cont, routes>>

GiveUp(p) == IF task[p].op = "restart" THEN Finish(p) ELSE Goto(p, "rollback")

NotReady(p) ==
  /\ At(p, "ready")
  /\ "notReady" \in Faults \/ cont[Tgt(p)] # "running"
  /\ GiveUp(p)
  /\ UNCHANGED <<rec, pool, nextPort, cont, routes>>

(* _healStartupFailure: a corrupt credentials file is quarantined, which   *)
(* leaves a trace in a new record object, and the container is restarted.  *)
Quarantine(p) ==
  /\ At(p, "ready") /\ "notReady" \in Faults
  /\ Replace(p, [task[p] EXCEPT !.pc = "reheal"], Tgt(p),
             IF Exists(Tgt(p)) THEN rec[Tgt(p)] ELSE Unset)
  /\ UNCHANGED <<pool, nextPort, cont, routes>>

Reheal(p) ==
  /\ At(p, "reheal")
  /\ \/ /\ Present(Tgt(p))
        /\ cont' = [cont EXCEPT ![Tgt(p)] = "running"]
        /\ Goto(p, "bind")
     \/ GiveUp(p) /\ UNCHANGED cont
  /\ UNCHANGED <<rec, pool, nextPort, routes>>

(* _rollbackFailedContainer.                                               *)
Rollback(p) ==
  /\ At(p, "rollback")
  /\ \E c \in Discarded(Tgt(p)) : cont' = [cont EXCEPT ![Tgt(p)] = c]
  /\ Goto(p, "rolledback")
  /\ UNCHANGED <<rec, pool, nextPort, routes>>

RolledBack(p) ==
  /\ At(p, "rolledback")
  /\ IF Exists(Tgt(p))
     THEN Replace(p, Idle, Tgt(p), [rec[Tgt(p)] EXCEPT !.status = "destroyed"])
     ELSE Finish(p) /\ UNCHANGED rec
  /\ UNCHANGED <<pool, nextPort, cont, routes>>

(* listen closes whatever route the port has before it binds.              *)
Bind(p) ==
  /\ At(p, "bind")
  /\ routes' = IF task[p].port \in DOMAIN routes
               THEN [routes EXCEPT ![task[p].port] = NoAddr] ELSE routes
  /\ Goto(p, "bound")
  /\ UNCHANGED <<rec, pool, nextPort, cont>>

(* A bind needs a port that neither the gateway nor docker holds; for      *)
(* undefined and null the system picks a free one, and NaN is refused.     *)
Bindable(x) ==
  /\ x \in DOMAIN routes
  /\ Truthy(x) => /\ routes[x] = NoAddr
                  /\ \A b \in Addr : InternalPort[b] = x => cont[b] # "running"

KeepsRecord(p) == task[p].op \in {"restart", "heal"}

(* Bound: the route, and for finalizeTenant the record, are written in the *)
(* same turn.  applyImageVersion then goes on to note the version.         *)
Bound(p) ==
  /\ At(p, "bound") /\ Bindable(task[p].port)
  /\ routes' = [routes EXCEPT ![task[p].port] = Tgt(p)]
  /\ IF KeepsRecord(p)
     THEN Finish(p) /\ UNCHANGED rec
     ELSE Replace(p, IF task[p].op = "apply" THEN [task[p] EXCEPT !.pc = "noted"]
                     ELSE Idle,
                  Tgt(p), [status |-> "running", port |-> task[p].port])
  /\ UNCHANGED <<pool, nextPort, cont>>

(* Not bound: the container is kept and its tenant marked stopped.         *)
NotBound(p) ==
  /\ At(p, "bound")
  /\ "bindBusy" \in Faults \/ ~Bindable(task[p].port)
  /\ IF KeepsRecord(p)
     THEN Finish(p) /\ UNCHANGED rec
     ELSE Replace(p, Idle, Tgt(p), [status |-> "stopped", port |-> task[p].port])
  /\ UNCHANGED <<pool, nextPort, cont, routes>>

NoteVersion(p) ==
  /\ At(p, "noted")
  /\ Replace(p, Idle, Tgt(p), IF Exists(Tgt(p)) THEN rec[Tgt(p)] ELSE Unset)
  /\ UNCHANGED <<pool, nextPort, cont, routes>>

-----------------------------------------------------------------------------
(* destroyContainer with and without removeRecord, and resetContainer:     *)
(* docker stop and docker rm first, their errors ignored.                  *)

Discard(p) ==
  /\ At(p, "discard")
  /\ \E c \in Discarded(Tgt(p)) : cont' = [cont EXCEPT ![Tgt(p)] = c]
  /\ Goto(p, "discarded")
  /\ UNCHANGED <<rec, pool, nextPort, routes>>

(* Record kept: close the route of the captured record, mark it destroyed. *)
(* The sweep ends the same way.                                            *)
Retire(p) ==
  /\ At(p, "discarded") /\ task[p].op \in {"destroy", "sweep"}
  /\ CloseRoute(Captured(task[p]).port)
  /\ SetCapturedStatus(task[p], "destroyed")
  /\ Finish(p)
  /\ UNCHANGED <<pool, nextPort, cont>>

(* Record removed: close the route, then wait for the volume to go.        *)
Unroute(p) ==
  /\ At(p, "discarded") /\ task[p].op = "remove"
  /\ CloseRoute(Captured(task[p]).port)
  /\ Become(p, [task[p] EXCEPT !.pc = "purge", !.port = Captured(task[p]).port])
  /\ UNCHANGED <<rec, pool, nextPort, cont>>

Purge(p) ==
  /\ At(p, "purge")
  /\ Replace(p, Idle, Tgt(p), NoRec)
  /\ pool' = pool \cup {task[p].port}
  /\ UNCHANGED <<nextPort, cont, routes>>

(* resetContainer reads the record only now, and goes on to ensure.        *)
Wipe(p) ==
  /\ At(p, "discarded") /\ task[p].op = "reset"
  /\ LET x == rec[Tgt(p)].port IN
       /\ CloseRoute(x)
       /\ pool' = IF Truthy(x) THEN pool \cup {x} ELSE pool
  /\ Replace(p, [task[p] EXCEPT !.pc = "inspect"], Tgt(p), NoRec)
  /\ UNCHANGED <<nextPort, cont>>

-----------------------------------------------------------------------------
(* applyImageVersion.                                                      *)

(* No container: nothing to rebuild, but the choice may be pinned in the   *)
(* record.  Otherwise checks and the backup may still end the operation.   *)
ApplyInspect(p) ==
  /\ At(p, "apply")
  /\ IF Present(Tgt(p))
     THEN /\ Goto(p, "applyrm") \/ Finish(p)
          /\ UNCHANGED rec
     ELSE \/ Finish(p) /\ UNCHANGED rec
          \/ Replace(p, Idle, Tgt(p), Captured(task[p]))
  /\ UNCHANGED <<pool, nextPort, cont, routes>>

(* The port to keep is read, null if there is none; then stop (error       *)
(* ignored) and rm (an error ends the operation).                          *)
ApplyRemove(p) ==
  /\ At(p, "applyrm")
  /\ \/ /\ Present(Tgt(p))
        /\ cont' = [cont EXCEPT ![Tgt(p)] = "absent"]
        /\ Become(p, [task[p] EXCEPT !.pc = "applied",
                                     !.port = OrElse(Captured(task[p]).port, Null)])
     \/ /\ "docker" \in Faults \/ ~Present(Tgt(p))
        /\ \E c \in {cont[Tgt(p)], Stopped(cont[Tgt(p)])} :
             cont' = [cont EXCEPT ![Tgt(p)] = c]
        /\ Finish(p)
  /\ UNCHANGED <<rec, pool, nextPort, routes>>

ApplyMark(p) ==
  /\ At(p, "applied")
  /\ pool' = IF Truthy(task[p].port) THEN pool \ {task[p].port} ELSE pool
  /\ Replace(p, [Idle EXCEPT !.pc = "inspect", !.op = "apply", !.tgt = Tgt(p)],
             Tgt(p), [status |-> "stopped", port |-> task[p].port])
  /\ UNCHANGED <<nextPort, cont, routes>>

-----------------------------------------------------------------------------
(* restartContainer.                                                       *)

(* A missing container turns the restart into a connect, for a known       *)
(* tenant.                                                                 *)
RestartInspect(p) ==
  /\ At(p, "rinspect")
  /\ CASE Present(Tgt(p)) -> Goto(p, "redo")
       [] ~Present(Tgt(p)) /\ Exists(Tgt(p)) ->
            Become(p, [task[p] EXCEPT !.pc = "inspect", !.op = "connect"])
       [] OTHER -> Finish(p)
  /\ UNCHANGED <<rec, pool, nextPort, cont, routes>>

Redo(p) == At(p, "redo") /\ DockerStart(p, "mark")

(* The record says running before the container is ready and routed.       *)
MarkRestarted(p) ==
  /\ At(p, "mark")
  /\ IF Present(Tgt(p))
     THEN LET x == AdoptedPort(Tgt(p)) IN
          Replace(p, [task[p] EXCEPT !.pc = "ready", !.port = x],
                  Tgt(p), [status |-> "running", port |-> x])
     ELSE Finish(p) /\ UNCHANGED rec
  /\ UNCHANGED <<pool, nextPort, cont, routes>>

-----------------------------------------------------------------------------
(* stopContainerForUser and forceStopContainer: the route stays open.      *)

SetStatus(a, s) == rec' = [rec EXCEPT ![a].status = s]

StopInspect(p) ==
  /\ At(p, "sinspect")
  /\ IF cont[Tgt(p)] = "running"
     THEN Goto(p, "halt") /\ UNCHANGED rec
     ELSE /\ Finish(p)
          /\ IF ~Exists(Tgt(p)) \/ (~Present(Tgt(p)) /\ rec[Tgt(p)].status = "destroyed")
             THEN UNCHANGED rec
             ELSE SetStatus(Tgt(p), "stopped")
  /\ UNCHANGED <<pool, nextPort, cont, routes>>

Halt(p) ==
  /\ At(p, "halt")
  /\ \/ /\ Present(Tgt(p))
        /\ cont' = [cont EXCEPT ![Tgt(p)] = Stopped(cont[Tgt(p)])]
        /\ Goto(p, "halted")
     \/ /\ "docker" \in Faults \/ ~Present(Tgt(p))
        /\ Finish(p)
        /\ UNCHANGED cont
  /\ UNCHANGED <<rec, pool, nextPort, routes>>

Halted(p) ==
  /\ At(p, "halted")
  /\ IF Exists(Tgt(p)) THEN SetStatus(Tgt(p), "stopped") ELSE UNCHANGED rec
  /\ Finish(p)
  /\ UNCHANGED <<pool, nextPort, cont, routes>>

-----------------------------------------------------------------------------
(* deleteUserVolume.                                                       *)

EraseInspect(p) ==
  /\ At(p, "einspect")
  /\ Goto(p, IF Present(Tgt(p)) THEN "erase" ELSE "erased")
  /\ UNCHANGED <<rec, pool, nextPort, cont, routes>>

Erase(p) ==
  /\ At(p, "erase")
  /\ \/ /\ Present(Tgt(p))
        /\ cont' = [cont EXCEPT ![Tgt(p)] = "absent"]
        /\ Goto(p, "erased")
     \/ /\ "docker" \in Faults \/ ~Present(Tgt(p))
        /\ \E c \in {cont[Tgt(p)], Stopped(cont[Tgt(p)])} :
             cont' = [cont EXCEPT ![Tgt(p)] = c]
        /\ Finish(p)
  /\ UNCHANGED <<rec, pool, nextPort, routes>>

Erased(p) ==
  /\ At(p, "erased")
  /\ \/ /\ Exists(Tgt(p))
        /\ CloseRoute(rec[Tgt(p)].port)
        /\ SetStatus(Tgt(p), "destroyed")
     \/ /\ ~Exists(Tgt(p)) \/ "docker" \in Faults
        /\ UNCHANGED <<rec, routes>>
  /\ Finish(p)
  /\ UNCHANGED <<pool, nextPort, cont>>

-----------------------------------------------------------------------------
(* cleanupIdleContainers visits one tenant: the record object comes from   *)
(* the list made when the pass began.                                      *)

Visit(p) ==
  /\ At(p, "visit")
  /\ \/ /\ Captured(task[p]).status \in {"running", "unset"}
        /\ Goto(p, "idlestop")
     \/ /\ Captured(task[p]).status = "stopped"
        /\ Goto(p, "idlerm")
     \/ Finish(p)
  /\ UNCHANGED <<rec, pool, nextPort, cont, routes>>

(* Mutant: No such container is an error like any other.                   *)
IdleStopMissesGone(p) ==
  /\ At(p, "idlestop")
  /\ \/ /\ Present(Tgt(p))
        /\ cont' = [cont EXCEPT ![Tgt(p)] = Stopped(cont[Tgt(p)])]
        /\ Goto(p, "idled")
     \/ /\ ~Present(Tgt(p)) \/ "docker" \in Faults
        /\ Finish(p)
        /\ UNCHANGED cont
  /\ UNCHANGED <<rec, pool, nextPort, routes>>

(* Idle for too long: stop.  No such container counts as destroyed.        *)
IdleStop(p) ==
  /\ At(p, "idlestop")
  /\ \/ /\ Present(Tgt(p))
        /\ cont' = [cont EXCEPT ![Tgt(p)] = Stopped(cont[Tgt(p)])]
        /\ Goto(p, "idled")
     \/ /\ ~Present(Tgt(p))
        /\ Goto(p, "discarded")
        /\ UNCHANGED cont
     \/ /\ "docker" \in Faults
        /\ Finish(p)
        /\ UNCHANGED cont
  /\ UNCHANGED <<rec, pool, nextPort, routes>>

Idled(p) ==
  /\ At(p, "idled")
  /\ SetCapturedStatus(task[p], "stopped")
  /\ Finish(p)
  /\ UNCHANGED <<pool, nextPort, cont, routes>>

(* Stopped for too long: docker rm, which refuses a running container.     *)
IdleRemove(p) ==
  /\ At(p, "idlerm")
  /\ \/ /\ cont[Tgt(p)] # "running"
        /\ cont' = [cont EXCEPT ![Tgt(p)] = "absent"]
        /\ Goto(p, "discarded")
     \/ /\ "docker" \in Faults \/ cont[Tgt(p)] = "running"
        /\ Finish(p)
        /\ UNCHANGED cont
  /\ UNCHANGED <<rec, pool, nextPort, routes>>

-----------------------------------------------------------------------------
(* ensureGatewayRoutes: put back the route of a running tenant.            *)

(* Mutant: listen gets the internal port first.                            *)
RemapSwapped(p) ==
  /\ At(p, "remap")
  /\ IF Present(Tgt(p))
     THEN Become(p, [task[p] EXCEPT !.pc = "bind", !.port = InternalPort[Tgt(p)]])
     ELSE Finish(p)
  /\ UNCHANGED <<rec, pool, nextPort, cont, routes>>

Remap(p) ==
  /\ At(p, "remap")
  /\ IF Present(Tgt(p))
     THEN Become(p, [task[p] EXCEPT !.pc = "bind",
                                    !.port = Captured(task[p]).port])
     ELSE Finish(p)
  /\ UNCHANGED <<rec, pool, nextPort, cont, routes>>

-----------------------------------------------------------------------------
(* upgradeContainer: stop, update, start, then a new record object.        *)

UpgradeInspect(p) ==
  /\ At(p, "uinspect")
  /\ IF Present(Tgt(p))
     THEN Goto(p, "resize") /\ UNCHANGED rec
     ELSE Replace(p, Idle, Tgt(p), IF Exists(Tgt(p)) THEN rec[Tgt(p)] ELSE Unset)
  /\ UNCHANGED <<pool, nextPort, cont, routes>>

Resize(p) ==
  /\ At(p, "resize")
  /\ \/ /\ Present(Tgt(p))
        /\ cont' = [cont EXCEPT ![Tgt(p)] = "running"]
        /\ Goto(p, "resized")
     \/ /\ "docker" \in Faults \/ ~Present(Tgt(p))
        /\ \E c \in {cont[Tgt(p)], Stopped(cont[Tgt(p)])} :
             cont' = [cont EXCEPT ![Tgt(p)] = c]
        /\ Finish(p)
  /\ UNCHANGED <<rec, pool, nextPort, routes>>

Resized(p) ==
  /\ At(p, "resized")
  /\ Replace(p, Idle, Tgt(p), [rec[Tgt(p)] EXCEPT !.status = "running"])
  /\ UNCHANGED <<pool, nextPort, cont, routes>>

-----------------------------------------------------------------------------
(* A container exits by itself.                                            *)
ContainerExit(a) ==
  /\ "exit" \in Faults /\ cont[a] = "running"
  /\ cont' = [cont EXCEPT ![a] = "exited"]
  /\ UNCHANGED <<rec, pool, nextPort, routes, task>>

Start(p, a) ==
  \/ StartConnect(p, a) \/ StartLeave(p, a) \/ StartRemove(p, a) \/ StartReset(p, a)
  \/ StartApply(p, a) \/ StartRestart(p, a) \/ StartStop(p, a)
  \/ StartErase(p, a) \/ StartSweep(p, a) \/ StartHeal(p, a)
  \/ StartUpgrade(p, a)

Ensure(p) ==
  \/ Inspect(p) \/ StartExisting(p) \/ Adopt(p) \/ Refuse(p)
  \/ TakeRecycled(p) \/ TakeOwnOrNext(p) \/ Reclaim(p) \/ TakeReclaimed(p)
  \/ CreateOk(p) \/ CreateTaken(p) \/ CreateError(p) \/ CreateConflict(p)
  \/ TakeOver(p) \/ TakeStart(p) \/ TakePort(p)

Finalize(p) ==
  \/ Ready(p) \/ NotReady(p) \/ Quarantine(p) \/ Reheal(p) \/ Rollback(p)
  \/ RolledBack(p) \/ Bind(p) \/ Bound(p) \/ NotBound(p) \/ NoteVersion(p)

Remove(p) == Discard(p) \/ Retire(p) \/ Unroute(p) \/ Purge(p) \/ Wipe(p)
Apply(p) == ApplyInspect(p) \/ ApplyRemove(p) \/ ApplyMark(p)
Restart(p) == RestartInspect(p) \/ Redo(p) \/ MarkRestarted(p)
Stop(p) == StopInspect(p) \/ Halt(p) \/ Halted(p)
EraseData(p) == EraseInspect(p) \/ Erase(p) \/ Erased(p)
Sweep(p) == Visit(p) \/ IdleStop(p) \/ Idled(p) \/ IdleRemove(p)
Upgrade(p) == UpgradeInspect(p) \/ Resize(p) \/ Resized(p)

(* One turn of the event loop for a suspended task.                        *)
Resume(p) == \/ Ensure(p) \/ Finalize(p) \/ Remove(p) \/ Apply(p) \/ Restart(p)
             \/ Stop(p) \/ EraseData(p) \/ Sweep(p) \/ Remap(p) \/ Upgrade(p)

Next == \/ \E p \in Proc : Resume(p) \/ \E a \in Addr : Start(p, a)
        \/ \E a \in Addr : ContainerExit(a)

Spec == Init /\ [][Next]_vars

-----------------------------------------------------------------------------
(* Safety.                                                                 *)

(* Every variable keeps its type, whatever tasks interleave: in particular *)
(* no port above the configured range, other than a tenant's own internal  *)
(* port, is ever recorded, pooled, routed or offered.  Below the range the *)
(* code has no check: a pooled or recorded null may lead there.            *)
TypeOK ==
  /\ rec \in [Addr -> Record]
  /\ pool \subseteq PortValue
  /\ nextPort \in BasePort .. MaxPort + 1 \cup {NaN}
  /\ cont \in [Addr -> {"absent", "exited", "running"}]
  /\ routes \in [PortValue \ {NaN} -> Addr \cup {NoAddr}]
  /\ task \in [Proc -> Task]
  /\ \A p \in Proc : task[p].pc # "idle" => task[p].tgt \in Addr

(* The port numbers the allocator hands out.                               *)
Allocated == PublicPort \ {InternalPort[a] : a \in Addr}

(* nextPort is fresh: no record and no pooled port has reached it, so the  *)
(* counter never offers a port that was already recorded for a tenant.     *)
NextPortFresh ==
  nextPort # NaN =>
    /\ \A a \in Addr : rec[a].port \in Allocated => rec[a].port < nextPort
    /\ \A x \in pool : x \in Allocated => x < nextPort

(* Two tenants never have the same public port in their records.           *)
PortsUnique ==
  \A a, b \in Addr : a # b /\ rec[a].port \in Allocated
                       => rec[a].port # rec[b].port

(* A port that waits in the pool for the next tenant is not a tenant's.    *)
PoolUnowned == \A a \in Addr : rec[a].port \in Allocated => rec[a].port \notin pool

(* Rebuilding a tenant on another image keeps its public port, so its URL  *)
(* does not change (user.service.js:1840, 2025).                           *)
ApplyKeepsPort ==
  [][\A p \in Proc : At(p, "bound") /\ task'[p].pc = "noted"
                       => rec'[Tgt(p)].port = rec[Tgt(p)].port]_vars

-----------------------------------------------------------------------------
(* Liveness.  Every docker and gateway call returns, so a suspended task   *)
(* goes on.  The timers fire again and again, a port that another program  *)
(* holds is free now and then, and the sweep at last finds a tenant whose  *)
(* container is gone idle, and gets docker's answer that it is gone.       *)

FindsIdle(p, a) == /\ Tgt(p) = a /\ ~Present(a)
                   /\ Visit(p) /\ task'[p].pc = "idlestop"
FindsGone(p, a) == Tgt(p) = a /\ IdleStop(p) /\ task'[p].pc = "discarded"

Fairness ==
  /\ \A p \in Proc : WF_vars(Resume(p))
  /\ \A a \in Addr :
       /\ SF_vars(\E p \in Proc : StartHeal(p, a))
       /\ SF_vars(\E p \in Proc : StartSweep(p, a))
       /\ SF_vars(\E p \in Proc : Tgt(p) = a /\ Bound(p))
       /\ SF_vars(\E p \in Proc : FindsIdle(p, a))
       /\ SF_vars(\E p \in Proc : FindsGone(p, a))

(* Every operation ends: neither the creation loop nor a takeover that     *)
(* keeps missing the container goes on for ever.                           *)
OperationsEnd == \A p \in Proc : task[p].pc # "idle" ~> task[p].pc = "idle"

(* A record that says running while docker has no container is corrected,  *)
(* whatever raced to make it so.                                           *)
DriftHealed ==
  \A a \in Addr : (rec[a].status = "running" /\ ~Present(a))
                    ~> (rec[a].status # "running" \/ Present(a))

(* A running tenant that has lost its route gets it back or stops running. *)
RouteHealed ==
  \A a \in Addr : (/\ rec[a].status = "running" /\ rec[a].port \in Allocated
                   /\ routes[rec[a].port] # a)
                    ~> (\/ rec[a].status # "running"
                        \/ rec[a].port \in DOMAIN routes /\ routes[rec[a].port] = a)
=============================================================================
