----------------------------- MODULE UsageMeter -----------------------------
(***************************************************************************)
(* The daily usage limit of user.service.js and the CWT exemption from it  *)
(* (cwt-admin.service.js), for one tenant: tenants share nothing here.  The*)
(* meter is usageStartedAt in the record plus today's minutes in           *)
(* state.usages; every operation that settles, keeps or restarts it is an  *)
(* action.                                                                 *)
(*                                                                         *)
(* Time is kept as ages: usageStartedAt is the minutes since it was set.   *)
(* Ages and sums saturate at Cap.  Tasks, pcs and captured record objects  *)
(* are as in TenantLifecycle; ports, routes and the choice between docker  *)
(* start and docker run are left to that module, and a docker call takes   *)
(* effect when its caller resumes.                                         *)
(***************************************************************************)
EXTENDS Integers

CONSTANTS Proc,    \* tasks that may run at once
          Limit,   \* usageLimit.dailyMinutes
          Cap,     \* minutes from which on times are not told apart
          Ops,     \* operations the instance issues
          Faults   \* "docker" (commands fail), "notReady", "bindBusy", "exit"

AllOps == {"connect", "stop", "force", "check", "sweep", "destroy", "remove",
           "reset", "apply", "restart", "upgrade", "erase"}

ASSUME TimeAssumption == /\ Limit \in Nat \ {0} /\ Cap \in Nat /\ Limit <= Cap
ASSUME OpsAssumption == Ops \subseteq AllOps

VARIABLES rec,      \* the tenant's record
          used,     \* state.usages: minutes recorded for today
          settled,  \* minutes since a segment was last settled
          cont,     \* the tenant's container
          registry, \* the CWT registry entry
          outdated, \* had an operation, at the last revocation, a replaced record
                    \* that it will write back, with the mark in it?
          task

vars == <<rec, used, settled, cont, registry, outdated, task>>
meter == <<used, settled>>

Off == -1                                        \* no usageStartedAt
Age == 0 .. Cap
Sum(x, y) == IF x + y <= Cap THEN x + y ELSE Cap
Older(x) == IF x = Off THEN Off ELSE Sum(x, 1)

Status == {"none", "unset", "running", "stopped", "destroyed"}

(* start is usageStartedAt, mark is cwtAuthorizedAt or cwtVerifiedAt.      *)
Record == [status : Status, start : Age \cup {Off}, mark : BOOLEAN]
NoRec == [status |-> "none", start |-> Off, mark |-> FALSE]
Unset == [NoRec EXCEPT !.status = "unset"]
Exists == rec # NoRec

Pcs == {"idle", "launch", "ready", "reheal", "rollback", "rolledback", "bind",
        "noted", "inspect", "halt", "checked", "visit", "idled",
        "idlerm", "discard", "wipe", "apply", "applyrm", "redo", "upgrade",
        "resize", "erase"}

(* start is the local startedAt of finalizeTenant; held and obj are the    *)
(* record object the task captured, as in TenantLifecycle.                 *)
Task == [pc : Pcs, op : AllOps \cup {"none"}, start : Age, held : BOOLEAN,
         obj : Record]
Idle == [pc |-> "idle", op |-> "none", start |-> 0, held |-> FALSE, obj |-> NoRec]

At(p, l) == task[p].pc = l
Become(p, t) == task' = [task EXCEPT ![p] = t]
Goto(p, l) == Become(p, [task[p] EXCEPT !.pc = l])
Finish(p) == Become(p, Idle)

Captured(p) == IF task[p].held THEN rec ELSE task[p].obj

(* Task p turns into t and makes r the new record object.                  *)
Replace(p, t, r) ==
  /\ rec' = r
  /\ task' = [q \in Proc |->
                IF q = p THEN t
                ELSE IF task[q].held THEN [task[q] EXCEPT !.held = FALSE, !.obj = rec]
                ELSE task[q]]

SetStatus(s) == rec' = IF Exists THEN [rec EXCEPT !.status = s] ELSE rec
SetCapturedStatus(p, s) ==
  rec' = IF task[p].held THEN [rec EXCEPT !.status = s] ELSE rec

(* getUsedMinutes, isUsageExempt and ensureUsageAllowed, with r as record. *)
UsedMinutes(r) == IF r.start = Off THEN used ELSE Sum(used, r.start)
Exempt(r) == registry = "approved" \/ r.mark
Allowed(r) == Exempt(r) \/ UsedMinutes(r) < Limit

(* Mutant: settles although usageStartedAt is not set.                     *)
SettleUnset(s) ==
  /\ rec' = [rec EXCEPT !.status = s, !.start = Off]
  /\ used' = Sum(used, rec.start) /\ settled' = 0

(* Mutant: the minutes are added but usageStartedAt stays.                 *)
SettleKeepsStart(s) ==
  IF rec.start = Off
  THEN rec' = [rec EXCEPT !.status = s] /\ UNCHANGED meter
  ELSE /\ rec' = [rec EXCEPT !.status = s]
       /\ used' = Sum(used, rec.start) /\ settled' = 0

(* settleUsage: the running segment goes to today's minutes and the meter  *)
(* is cleared; s is the status the record has at the end of the turn.      *)
Settle(s) ==
  IF rec.start = Off
  THEN rec' = [rec EXCEPT !.status = s] /\ UNCHANGED meter
  ELSE /\ rec' = [rec EXCEPT !.status = s, !.start = Off]
       /\ used' = Sum(used, rec.start) /\ settled' = 0

Init == /\ rec = NoRec /\ used = 0 /\ settled = Cap
        /\ cont = "absent" /\ registry = "none" /\ outdated = FALSE
        /\ task = [p \in Proc |-> Idle]

-----------------------------------------------------------------------------
(* Operations start.  The limit is checked when a start is asked for.      *)

Begin(p, o, l, keeps) ==
  /\ At(p, "idle") /\ o \in Ops
  /\ Become(p, [Idle EXCEPT !.pc = l, !.op = o, !.held = keeps])

StartConnect(p) == /\ Allowed(rec) /\ Begin(p, "connect", "launch", FALSE)
                   /\ UNCHANGED <<rec, meter, cont, registry, outdated>>
StartPlain(p) == /\ \/ Begin(p, "stop", "inspect", FALSE)
                    \/ Begin(p, "force", "inspect", FALSE)
                    \/ Begin(p, "reset", "discard", FALSE)
                    \/ Begin(p, "restart", "redo", FALSE)
                    \/ Begin(p, "upgrade", "upgrade", FALSE)
                    \/ Begin(p, "erase", "erase", FALSE)
                    \/ Exists /\ Begin(p, "apply", "apply", TRUE)
                    \/ /\ Exists /\ \A q \in Proc : task[q].op # "sweep"
                       /\ Begin(p, "sweep", "visit", TRUE)
                 /\ UNCHANGED <<rec, meter, cont, registry, outdated>>

(* destroyContainer settles before its first await.                        *)
StartDestroy(p) == /\ Exists
                   /\ \/ Begin(p, "destroy", "discard", TRUE)
                      \/ Begin(p, "remove", "discard", TRUE)
                   /\ Settle(rec.status)
                   /\ UNCHANGED <<cont, registry, outdated>>

(* Mutant: the check looks at the recorded minutes only.                   *)
StartCheckRecorded(p) == /\ \A q \in Proc : task[q].op # "check"
                         /\ rec.status = "running" /\ ~Exempt(rec) /\ used >= Limit
                         /\ Begin(p, "check", "checked", TRUE)
                         /\ Settle(rec.status)
                         /\ UNCHANGED <<cont, registry, outdated>>

(* checkUsageLimitAndStop finds the tenant over its limit.                 *)
StartCheck(p) == /\ \A q \in Proc : task[q].op # "check"
                 /\ rec.status = "running" /\ ~Exempt(rec) /\ UsedMinutes(rec) >= Limit
                 /\ Begin(p, "check", "checked", TRUE)
                 /\ Settle(rec.status)
                 /\ UNCHANGED <<cont, registry, outdated>>

Start(p) == StartConnect(p) \/ StartPlain(p) \/ StartDestroy(p) \/ StartCheck(p)

-----------------------------------------------------------------------------
(* ensureContainer and finalizeTenant.                                     *)

(* The container runs; finalizeTenant takes the record and startedAt.      *)
Launch(p) ==
  /\ At(p, "launch")
  /\ \/ /\ cont' = "running"
        /\ Become(p, [task[p] EXCEPT !.pc = "ready", !.held = Exists, !.obj = NoRec,
                        !.start = IF rec.start = Off THEN 0 ELSE rec.start])
     \/ /\ "docker" \in Faults
        /\ cont' \in {cont, IF cont = "running" THEN cont ELSE "exited"}
        /\ Finish(p)
  /\ UNCHANGED <<rec, meter, registry, outdated>>

Ready(p) == At(p, "ready") /\ Goto(p, "bind") /\ UNCHANGED <<rec, meter, cont, registry, outdated>>

GiveUp(p) == IF task[p].op = "restart" THEN Finish(p) ELSE Goto(p, "rollback")

NotReady(p) ==
  /\ At(p, "ready") /\ ("notReady" \in Faults \/ cont # "running")
  /\ GiveUp(p)
  /\ UNCHANGED <<rec, meter, cont, registry, outdated>>

(* The quarantine of a credentials file makes a new record object.         *)
Quarantine(p) ==
  /\ At(p, "ready") /\ "notReady" \in Faults
  /\ Replace(p, [task[p] EXCEPT !.pc = "reheal", !.held = FALSE, !.obj = Captured(p)],
             IF Exists THEN rec ELSE Unset)
  /\ UNCHANGED <<meter, cont, registry, outdated>>

Reheal(p) ==
  /\ At(p, "reheal")
  /\ \/ cont # "absent" /\ cont' = "running" /\ Goto(p, "bind")
     \/ GiveUp(p) /\ UNCHANGED cont
  /\ UNCHANGED <<rec, meter, registry, outdated>>

(* The container goes; its record loses the meter without a settlement.    *)
Rollback(p) ==
  /\ At(p, "rollback")
  /\ cont' \in {"absent"} \cup (IF "docker" \in Faults THEN {cont} ELSE {})
  /\ Goto(p, "rolledback")
  /\ UNCHANGED <<rec, meter, registry, outdated>>

RolledBack(p) ==
  /\ At(p, "rolledback")
  /\ IF Exists
     THEN Replace(p, Idle, [rec EXCEPT !.status = "destroyed", !.start = Off])
     ELSE Finish(p) /\ UNCHANGED rec
  /\ UNCHANGED <<meter, cont, registry, outdated>>

(* The gateway is bound: the captured record with status and startedAt.    *)
Bound(p) ==
  /\ At(p, "bind")
  /\ IF task[p].op = "restart"
     THEN Finish(p) /\ UNCHANGED rec
     ELSE Replace(p, IF task[p].op = "apply" THEN [task[p] EXCEPT !.pc = "noted"] ELSE Idle,
                  [Captured(p) EXCEPT !.status = "running", !.start = task[p].start])
  /\ UNCHANGED <<meter, cont, registry, outdated>>

NotBound(p) ==
  /\ At(p, "bind") /\ "bindBusy" \in Faults
  /\ IF task[p].op = "restart"
     THEN Finish(p) /\ UNCHANGED rec
     ELSE Replace(p, Idle, [Captured(p) EXCEPT !.status = "stopped"])
  /\ UNCHANGED <<meter, cont, registry, outdated>>

NoteVersion(p) ==
  /\ At(p, "noted")
  /\ Replace(p, Idle, IF Exists THEN rec ELSE Unset)
  /\ UNCHANGED <<meter, cont, registry, outdated>>

-----------------------------------------------------------------------------
(* Stops.  stopContainerForUser settles before docker stop, and also when  *)
(* there is nothing to stop; forceStopContainer settles after docker stop. *)

(* What the record's status becomes when there is no container to stop.    *)
AlignedStatus == IF ~Exists \/ (cont = "absent" /\ rec.status = "destroyed")
                 THEN rec.status ELSE "stopped"

Inspect(p) ==
  /\ At(p, "inspect")
  /\ IF cont = "running" THEN Goto(p, "halt") ELSE Finish(p)
  /\ LET s == IF cont = "running" THEN rec.status ELSE AlignedStatus IN
       IF task[p].op = "stop" THEN Settle(s)
       ELSE rec' = [rec EXCEPT !.status = s] /\ UNCHANGED meter
  /\ UNCHANGED <<cont, registry, outdated>>

Exited == IF cont = "running" THEN "exited" ELSE cont

(* docker stop succeeds, or fails and the operation throws.                *)
Halt(p) ==
  /\ At(p, "halt")
  /\ \/ /\ cont # "absent" /\ cont' = "exited"
        /\ IF task[p].op = "force" /\ Exists THEN Settle("stopped")
           ELSE SetStatus("stopped") /\ UNCHANGED meter
     \/ /\ "docker" \in Faults \/ cont = "absent"
        /\ UNCHANGED <<rec, meter, cont>>
  /\ Finish(p)
  /\ UNCHANGED <<registry, outdated>>

(* The limit check stops the container, or fails and leaves it running.    *)
Checked(p) ==
  /\ At(p, "checked")
  /\ \/ /\ cont # "absent" /\ cont' = "exited" /\ SetCapturedStatus(p, "stopped")
     \/ /\ "docker" \in Faults \/ cont = "absent"
        /\ UNCHANGED <<cont, rec>>
  /\ Finish(p)
  /\ UNCHANGED <<meter, registry, outdated>>

(* The idle sweep: settle and stop, or remove what has been stopped.       *)
Visit(p) ==
  /\ At(p, "visit")
  /\ \/ /\ Captured(p).status \in {"running", "unset"}
        /\ Settle(rec.status) /\ Goto(p, "idled")
     \/ /\ Captured(p).status = "stopped"
        /\ Goto(p, "idlerm") /\ UNCHANGED <<rec, meter>>
     \/ Finish(p) /\ UNCHANGED <<rec, meter>>
  /\ UNCHANGED <<cont, registry, outdated>>

IdleStop(p) ==
  /\ At(p, "idled")
  /\ \/ cont # "absent" /\ cont' = "exited" /\ SetCapturedStatus(p, "stopped")
     \/ cont = "absent" /\ SetCapturedStatus(p, "destroyed") /\ UNCHANGED cont
     \/ "docker" \in Faults /\ UNCHANGED <<cont, rec>>
  /\ Finish(p)
  /\ UNCHANGED <<meter, registry, outdated>>

IdleRemove(p) ==
  /\ At(p, "idlerm")
  /\ \/ cont # "running" /\ cont' = "absent" /\ SetCapturedStatus(p, "destroyed")
     \/ /\ "docker" \in Faults \/ cont = "running"
        /\ UNCHANGED <<cont, rec>>
  /\ Finish(p)
  /\ UNCHANGED <<meter, registry, outdated>>

-----------------------------------------------------------------------------
(* Destroy, remove, reset, apply, restart, upgrade, erase.                 *)

(* What stop and rm leave, their errors ignored.                           *)
Left == {"absent"} \cup (IF "docker" \in Faults THEN {cont, Exited} ELSE {})

Discard(p) ==
  /\ At(p, "discard")
  /\ cont' \in Left
  /\ CASE task[p].op = "destroy" -> SetCapturedStatus(p, "destroyed") /\ Finish(p)
       [] task[p].op = "remove" -> Replace(p, Idle, NoRec)
       [] task[p].op = "reset" -> Goto(p, "wipe") /\ UNCHANGED rec
  /\ UNCHANGED <<meter, registry, outdated>>

(* resetContainer settles, then drops today's minutes and the record; the  *)
(* new container is asked for in the same turn.                            *)
Wipe(p) ==
  /\ At(p, "wipe")
  /\ used' = 0
  /\ settled' = IF rec.start = Off THEN settled ELSE 0
  /\ Replace(p, [Idle EXCEPT !.pc = "launch", !.op = "reset"], NoRec)
  /\ UNCHANGED <<cont, registry, outdated>>

(* applyImageVersion settles when its checks and the backup are done.      *)
Apply(p) ==
  /\ At(p, "apply")
  /\ \/ cont # "absent" /\ Settle(rec.status) /\ Goto(p, "applyrm")
     \/ Finish(p) /\ UNCHANGED <<rec, meter>>
     \/ cont = "absent" /\ Replace(p, Idle, Captured(p)) /\ UNCHANGED meter
  /\ UNCHANGED <<cont, registry, outdated>>

ApplyRemove(p) ==
  /\ At(p, "applyrm")
  /\ \/ /\ cont' = "absent"
        /\ LET r == [Captured(p) EXCEPT !.status = "stopped", !.start = Off] IN
             Replace(p, IF Allowed(r) THEN [Idle EXCEPT !.pc = "launch", !.op = "apply"]
                        ELSE Idle, r)
     \/ /\ "docker" \in Faults \/ cont = "absent"
        /\ cont' \in {cont, Exited} /\ Finish(p) /\ UNCHANGED rec
  /\ UNCHANGED <<meter, registry, outdated>>

(* restartContainer: a new record object, with the meter it had.           *)
Redo(p) ==
  /\ At(p, "redo")
  /\ IF cont = "absent"
     THEN /\ IF Exists /\ Allowed(rec)
             THEN Become(p, [task[p] EXCEPT !.pc = "launch", !.op = "connect"])
             ELSE Finish(p)
          /\ UNCHANGED <<rec, cont>>
     ELSE \/ /\ cont' = "running"
             /\ Replace(p, [task[p] EXCEPT !.pc = "ready"], [rec EXCEPT !.status = "running"])
          \/ "docker" \in Faults /\ Finish(p) /\ UNCHANGED <<rec, cont>>
  /\ UNCHANGED <<meter, registry, outdated>>

Upgrade(p) ==
  /\ At(p, "upgrade")
  /\ IF cont = "absent"
     THEN Replace(p, Idle, IF Exists THEN rec ELSE Unset) /\ UNCHANGED meter
     ELSE /\ Goto(p, "resize")
          /\ IF cont = "running" THEN Settle(rec.status) ELSE UNCHANGED <<rec, meter>>
  /\ UNCHANGED <<cont, registry, outdated>>

Resize(p) ==
  /\ At(p, "resize")
  /\ \/ /\ cont # "absent" /\ cont' = "running"
        /\ Replace(p, Idle, [rec EXCEPT !.status = "running", !.start = 0])
     \/ /\ "docker" \in Faults \/ cont = "absent"
        /\ cont' \in {cont, Exited} /\ Finish(p) /\ UNCHANGED rec
  /\ UNCHANGED <<meter, registry, outdated>>

(* deleteUserVolume does not settle.                                       *)
Erase(p) ==
  /\ At(p, "erase")
  /\ \/ cont' = "absent" /\ SetStatus("destroyed")
     \/ "docker" \in Faults /\ cont' \in {cont, Exited, "absent"} /\ UNCHANGED rec
  /\ Finish(p)
  /\ UNCHANGED <<meter, registry, outdated>>

-----------------------------------------------------------------------------
(* approveApplication and revokeRegistry; the clock; a container exits.    *)

(* Two decisions may overlap, so an address may be approved twice.         *)
Approve ==
  /\ registry' = "approved" /\ outdated' = FALSE
  /\ rec' = IF Exists THEN [rec EXCEPT !.mark = TRUE] ELSE rec
  /\ UNCHANGED <<meter, cont, task>>

(* The points from which the captured record is written back.              *)
Carrying(t) == /\ t.op # "restart"
               /\ t.pc \in {"ready", "reheal", "bind", "apply", "applyrm"}
Outdated == \E p \in Proc : Carrying(task[p]) /\ ~task[p].held /\ task[p].obj.mark

(* Mutant: the record is replaced by one without the mark.                 *)
RevokeReplaces ==
  /\ registry # "none" /\ registry' = "revoked" /\ outdated' = Outdated
  /\ rec' = [rec EXCEPT !.mark = FALSE]
  /\ task' = [q \in Proc |->
                IF task[q].held THEN [task[q] EXCEPT !.held = FALSE, !.obj = rec]
                ELSE task[q]]
  /\ UNCHANGED <<meter, cont>>

(* revokeRegistry deletes the mark in the record object itself.            *)
Revoke ==
  /\ registry # "none" /\ registry' = "revoked" /\ outdated' = Outdated
  /\ rec' = [rec EXCEPT !.mark = FALSE]
  /\ UNCHANGED <<meter, cont, task>>

Tick ==
  /\ rec' = [rec EXCEPT !.start = Older(@)]
  /\ settled' = Sum(settled, 1)
  /\ task' = [p \in Proc |-> [task[p] EXCEPT
       !.start = IF /\ task[p].pc \in {"ready", "reheal", "bind"}
                    /\ task[p].op # "restart" THEN Sum(@, 1) ELSE @,
       !.obj.start = Older(@)]]
  /\ UNCHANGED <<used, cont, registry, outdated>>

(* Yesterday's minutes count no longer; a running segment goes on.         *)
Midnight == used' = 0 /\ UNCHANGED <<rec, settled, cont, registry, outdated, task>>

ContainerExit ==
  /\ "exit" \in Faults /\ cont = "running" /\ cont' = "exited"
  /\ UNCHANGED <<rec, meter, registry, outdated, task>>

Finalize(p) == \/ Launch(p) \/ Ready(p) \/ NotReady(p) \/ Quarantine(p) \/ Reheal(p)
               \/ Rollback(p) \/ RolledBack(p) \/ Bound(p) \/ NotBound(p)
               \/ NoteVersion(p)
StopStep(p) == \/ Inspect(p) \/ Halt(p) \/ Checked(p)
               \/ Visit(p) \/ IdleStop(p) \/ IdleRemove(p)
Rebuild(p) == \/ Discard(p) \/ Wipe(p) \/ Apply(p) \/ ApplyRemove(p) \/ Redo(p)
              \/ Upgrade(p) \/ Resize(p) \/ Erase(p)
Resume(p) == Finalize(p) \/ StopStep(p) \/ Rebuild(p)

Next == \/ \E p \in Proc : Start(p) \/ Resume(p)
        \/ Approve \/ Revoke \/ Tick \/ Midnight \/ ContainerExit

Spec == Init /\ [][Next]_vars

(* Every call returns, the check recurs and its docker stop succeeds at    *)
(* last.                                                                   *)
Fairness == /\ \A p \in Proc : WF_vars(Resume(p))
            /\ SF_vars(\E p \in Proc : StartCheck(p))
            /\ SF_vars(\E p \in Proc : Checked(p) /\ cont' = "exited")

-----------------------------------------------------------------------------
TypeOK ==
  /\ rec \in Record /\ used \in Age /\ settled \in Age
  /\ cont \in {"absent", "exited", "running"}
  /\ registry \in {"none", "approved", "revoked"} /\ outdated \in BOOLEAN
  /\ task \in [Proc -> Task]

(* No minute is billed twice: the segment the meter counts began after the *)
(* last settlement, whatever stops race each other                         *)
(* (user.service.js:758, test/usage-limit.test.js:249).                    *)
BilledOnce == rec.start # Off => rec.start <= settled

(* A revoked tenant is under the limit again (user.service.js:736),        *)
(* whatever starts, rebuilds and replaces its record meanwhile: the mark   *)
(* comes back only if an operation was under way at the revocation with a  *)
(* record object that had been replaced before (user.service.js:1600, 1685)*)
RevokedLimited == registry = "revoked" /\ ~outdated => ~Exempt(rec)

(* A tenant that runs has its meter on, and only then                      *)
(* (docs/usage-limit-design.md:22).                                        *)
MeteredWhileRunning ==
  (\A p \in Proc : At(p, "idle")) => (rec.status = "running" <=> rec.start # Off)

(* A tenant over its limit does not go on running: it is stopped, becomes  *)
(* exempt, or a new day or a reset gives it minutes again, even if docker  *)
(* refuses to stop it for a while.                                         *)
LimitEnforced ==
  (/\ cont = "running" /\ rec.status = "running"
   /\ ~Exempt(rec) /\ UsedMinutes(rec) >= Limit)
    ~> (\/ cont # "running" \/ rec.status # "running"
        \/ Exempt(rec) \/ UsedMinutes(rec) < Limit)
=============================================================================
