--------------------------- MODULE ResourceMonitor ---------------------------
(***************************************************************************)
(* The timers that watch memory and disk: rounds of monitorResources that  *)
(* raise the quota of a container, beside administrators who set it; the   *)
(* collection of disk usage, and the scan that measures each volume of the *)
(* listing it found while new listings replace it.                         *)
(*                                                                         *)
(* A measurement of volume v is v.  A listing is an object: while scan     *)
(* .shared the scan writes to the one that is shown.                       *)
(***************************************************************************)
EXTENDS Naturals, Sequences, FiniteSets, SequencesExt

CONSTANTS Addr,      \* tenants, and their volumes
          Round,     \* firings of the monitor's timer that may overlap
          MaxTier,   \* the highest key of config.tiers
          NoVolume

VARIABLES user,    \* records: tier, mark of the cooldown
          monitor, \* _monitorRunning
          round,   \* rounds under way
          raised,  \* automatic upgrades of a tenant in its cooldown
          host,    \* what df and docker would say
          seen,    \* what the last collection read
          usage,   \* diskUsage
          scan     \* scanVolumeUsage

tier == <<user, monitor, round, raised>>
disk == <<host, seen, usage, scan>>
vars == <<tier, disk>>

Tier == 1 .. MaxTier
IdleJob == [pc |-> "idle", addr |-> NoVolume, tier |-> 1, todo |-> {}]
NoUsage == [host |-> "none", list |-> <<>>, precise |-> FALSE]
NoScan == [at |-> 0, list |-> <<>>, shared |-> FALSE]
Space == {"enough", "low"}

Init == /\ user = [a \in Addr |-> [tier |-> 1, cool |-> FALSE]]
        /\ monitor = FALSE
        /\ round = [r \in Round |-> IdleJob]
        /\ raised = [a \in Addr |-> 0]
        /\ host \in [space : Space, volumes : SUBSET Addr]
        /\ seen = "none" /\ usage = NoUsage
        /\ scan = NoScan

-----------------------------------------------------------------------------
(* monitorResources.                                                       *)

At(r, l) == round[r].pc = l
Become(r, j) == round' = [round EXCEPT ![r] = j]

(* Mutant: without the flag.                                               *)
FireUnchecked(r) ==
  /\ At(r, "idle")
  /\ monitor' = TRUE
  /\ Become(r, [IdleJob EXCEPT !.pc = "next", !.todo = Addr])
  /\ UNCHANGED <<user, raised, disk>>

Fire(r) ==
  /\ At(r, "idle") /\ ~monitor
  /\ monitor' = TRUE
  /\ Become(r, [IdleJob EXCEPT !.pc = "next", !.todo = Addr])
  /\ UNCHANGED <<user, raised, disk>>

(* The next tenant: passed over, or its memory is asked for.               *)
Visit(r, a) ==
  /\ At(r, "next") /\ a \in round[r].todo
  /\ LET rest == [round[r] EXCEPT !.todo = @ \ {a}] IN
       Become(r, IF user[a].tier = MaxTier \/ user[a].cool THEN rest
                 ELSE [rest EXCEPT !.pc = "stats", !.addr = a, !.tier = user[a].tier + 1])
  /\ UNCHANGED <<user, monitor, raised, disk>>

Move(r, from, to) ==
  /\ At(r, from)
  /\ Become(r, [round[r] EXCEPT !.pc = to])
  /\ UNCHANGED <<user, monitor, raised, disk>>

(* Below the threshold, or no answer.                                      *)
Spared(r) == Move(r, "stats", "next")
Exceeded(r) == Move(r, "stats", "upgrade")
UpgradeFailed(r) == Move(r, "upgrade", "next")

(* upgradeContainer has ended: the record, and the mark of the monitor.    *)
Recorded(r) ==
  LET a == round[r].addr IN
  /\ At(r, "upgrade")
  /\ user' = [user EXCEPT ![a].tier = round[r].tier, ![a].cool = TRUE]
  /\ raised' = [raised EXCEPT ![a] = @ + 1]
  /\ Become(r, [round[r] EXCEPT !.pc = "next"])
  /\ UNCHANGED <<monitor, disk>>

RoundOver(r) ==
  /\ At(r, "next") /\ round[r].todo = {}
  /\ monitor' = FALSE
  /\ Become(r, IdleJob)
  /\ UNCHANGED <<user, raised, disk>>

(* The cooldown is over; none is as short as an upgrade.                   *)
Cooled(a) ==
  /\ user[a].cool /\ \A r \in Round : round[r].addr = a => At(r, "next")
  /\ user' = [user EXCEPT ![a].cool = FALSE]
  /\ raised' = [raised EXCEPT ![a] = 0]
  /\ UNCHANGED <<monitor, round, disk>>

(* POST /api/upgrade.                                                      *)
UpgradeByHand(a, t) ==
  /\ user' = [user EXCEPT ![a].tier = t]
  /\ UNCHANGED <<monitor, round, raised, disk>>

-----------------------------------------------------------------------------
(* collectDiskUsage and scanVolumeUsage.                                   *)

Unmeasured(s) == [i \in DOMAIN s |-> [volume |-> s[i], size |-> NoVolume]]

(* Each probe may fail.  With little space and an answer of docker system  *)
(* df the warning throws, and nothing is shown: docker is an object, not   *)
(* the list the filter is for.                                             *)
Collect ==
  /\ \E df, summary, list \in BOOLEAN, s \in SetToSeqs(host.volumes) :
       /\ seen' = IF df THEN host.space ELSE "none"
       /\ usage' = IF df /\ host.space = "low" /\ summary THEN NoUsage
                   ELSE [host |-> seen',
                         list |-> IF list THEN Unmeasured(s) ELSE <<>>, precise |-> FALSE]
  /\ scan' = [scan EXCEPT !.shared = FALSE]
  /\ UNCHANGED <<tier, host>>

ScanBegins ==
  /\ scan.at = 0 /\ usage.list # <<>>
  /\ scan' = [at |-> 1, list |-> usage.list, shared |-> TRUE]
  /\ UNCHANGED <<tier, host, seen, usage>>

(* Mutant: the measurement goes to that place of the listing shown.        *)
MeasuredInPlace ==
  /\ scan.at \in DOMAIN scan.list
  /\ LET v == scan.list[scan.at].volume IN
       usage' = IF scan.at \in DOMAIN usage.list
                THEN [usage EXCEPT !.list[scan.at].size = v] ELSE usage
  /\ scan' = [scan EXCEPT !.at = @ + 1]
  /\ UNCHANGED <<tier, host, seen>>

(* du of the next volume, which may fail.                                  *)
Measured ==
  /\ scan.at \in DOMAIN scan.list
  /\ \E size \in {scan.list[scan.at].volume, scan.list[scan.at].size} :
       /\ usage' = IF scan.shared THEN [usage EXCEPT !.list[scan.at].size = size] ELSE usage
       /\ scan' = [scan EXCEPT !.list[scan.at].size = size, !.at = @ + 1]
  /\ UNCHANGED <<tier, host, seen>>

(* The time of the scan goes to what is shown by now.                      *)
ScanEnds ==
  /\ scan.at = Len(scan.list) + 1 /\ scan.at > 1
  /\ usage' = [usage EXCEPT !.precise = TRUE]
  /\ scan' = NoScan
  /\ UNCHANGED <<tier, host, seen>>

(* Space and volumes change.                                               *)
Change == /\ host' \in [space : Space, volumes : SUBSET Addr]
          /\ host' # host
          /\ UNCHANGED <<tier, seen, usage, scan>>

Watch == \/ \E r \in Round : \/ Fire(r) \/ Spared(r) \/ Exceeded(r) \/ UpgradeFailed(r)
                             \/ Recorded(r) \/ RoundOver(r)
                             \/ \E a \in Addr : Visit(r, a)
         \/ \E a \in Addr : Cooled(a) \/ \E t \in Tier : UpgradeByHand(a, t)

Measure == Collect \/ ScanBegins \/ Measured \/ ScanEnds \/ Change

Next == Watch \/ Measure

Spec == Init /\ [][Next]_vars

-----------------------------------------------------------------------------
TypeOK ==
  /\ user \in [Addr -> [tier : Tier, cool : BOOLEAN]]
  /\ monitor = \E r \in Round : ~At(r, "idle")
  /\ seen \in Space \cup {"none"} /\ usage.host \in Space \cup {"none"}
  /\ scan.shared => scan.list = usage.list

(* In its cooldown a tenant is raised once, though an upgrade outlasts the *)
(* timer's interval and the mark is set after it (user.service.js:940).    *)
RaisedOnce == \A a \in Addr : raised[a] <= 1

(* A size that is shown is that of its volume, though a scan goes on over  *)
(* a listing that has been replaced by another (user.service.js:1032).     *)
SizesTrue ==
  \A i \in DOMAIN usage.list : usage.list[i].size \in {NoVolume, usage.list[i].volume}
=============================================================================
