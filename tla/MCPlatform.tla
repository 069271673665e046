----------------------------- MODULE MCPlatform -----------------------------
(***************************************************************************)
(* The parts that administrators and timers drive and that share no state, *)
(* for TLC: the CWT applications of CwtApproval and five others.  A        *)
(* behaviour is one of one part, chosen at first; CwtApproval is otherwise *)
(* in its first state, the variables of the others are Off throughout.     *)
(***************************************************************************)
EXTENDS CwtApproval, TLC

CONSTANTS a1, a2, p1, p2,
          w1, w2, Wallet,
          LastPort, MaxOps, MaxStarts,
          Op, NoOp, MaxNonce, MaxPool, MaxReplay,
          Tenant, Job, MaxBoxes, MaxQueue, Mode,
          v1, v2, Volume, Round, MaxTier, NoVolume,
          Guest, NoAddr, MaxBoots, MaxEarly, StartFaults

ASSUME BoundsAssumption == /\ MaxNonce \in Nat /\ MaxPool \in Nat /\ MaxTier \in Nat \ {0}
                           /\ MaxBoxes \in Nat \ {0} /\ MaxQueue \in Nat
                           /\ MaxOps \in Nat /\ LastPort \in Nat /\ Cardinality(Known) <= LastPort
                           /\ IsFiniteSet(Job) /\ IsFiniteSet(Tenant)
                           /\ IsFiniteSet(Known) /\ "ports" \notin Addr
                           /\ MaxBoots \in Nat /\ NoAddr \notin Guest

VARIABLES part,
          cache, stored, saves, boot, said, gone, count,
          pool, pending, tickets, issued, old, admins, done, spent,
          queue, boxes, job, blind,
          tiers, monitor, round, raised, host, seen, usage, scan,
          rec, written, cont, route, file, loaded, want, stage, todo, item,
          listed, boots, early, touched, skipped, missed

storeVars == <<cache, stored, saves, boot, said, gone, count>>
signedVars == <<pool, pending, tickets, issued, old, admins, done, spent>>
queueVars == <<queue, boxes, job, blind>>
monitorVars == <<tiers, monitor, round, raised, host, seen, usage, scan>>
startVars == <<rec, written, cont, route, file, loaded, want, stage, todo, item,
               listed, boots, early, touched, skipped, missed>>

Store == INSTANCE StateStore WITH db <- stored, task <- saves
Signed == INSTANCE SignedRequests WITH Addr <- Wallet, Boss <- Wallet
Queue == INSTANCE Capacity WITH Addr <- Tenant
Monitor == INSTANCE ResourceMonitor WITH Addr <- Volume, user <- tiers
Start == INSTANCE Startup WITH Addr <- Guest, stored <- written,
                               Faults <- StartFaults

Symmetry == Permutations({p1, p2}) \cup Permutations({w1, w2})

-----------------------------------------------------------------------------
Off == 0
StoreOff == /\ cache = Off /\ stored = Off /\ saves = Off /\ boot = Off
            /\ said = Off /\ gone = Off /\ count = Off
SignedOff == /\ pool = Off /\ pending = Off /\ tickets = Off /\ issued = Off
             /\ old = Off /\ admins = Off /\ done = Off /\ spent = Off
QueueOff == queue = Off /\ boxes = Off /\ job = Off /\ blind = Off
MonitorOff == /\ tiers = Off /\ monitor = Off /\ round = Off /\ raised = Off
              /\ host = Off /\ seen = Off /\ usage = Off /\ scan = Off
StartOff == /\ rec = Off /\ written = Off /\ cont = Off /\ route = Off
            /\ file = Off /\ loaded = Off /\ want = Off /\ stage = Off
            /\ todo = Off /\ item = Off /\ listed = Off /\ boots = Off
            /\ early = Off /\ touched = Off /\ skipped = Off /\ missed = Off

(* Bound of the part cwt: after a failed request new ones do not overlap,  *)
(* until the server restarts.                                              *)
Calm == history.failed /\ (\E p \in Proc : At(p, "idle") /\ task'[p].pc # "idle")
          => \A p \in Proc : At(p, "idle")

(* The two halves of ResourceMonitor share nothing either.                 *)
PartInit ==
  /\ part \in {"cwt", "store", "signed", "queue", "tiers", "disk", "start"}
  /\ Init
  /\ IF part = "store" THEN Store!Init ELSE StoreOff
  /\ IF part = "signed" THEN Signed!Init ELSE SignedOff
  /\ IF part = "queue" THEN Queue!Init ELSE QueueOff
  /\ IF part \in {"tiers", "disk"} THEN Monitor!Init ELSE MonitorOff
  /\ IF part = "start" THEN Start!Init ELSE StartOff

PartNext ==
  /\ UNCHANGED part
  /\ IF part = "cwt" THEN Next /\ Calm ELSE UNCHANGED vars
  /\ IF part = "store" THEN Store!Next ELSE UNCHANGED storeVars
  /\ IF part = "signed" THEN Signed!Next ELSE UNCHANGED signedVars
  /\ IF part = "queue" THEN Queue!Next ELSE UNCHANGED queueVars
  /\ CASE part = "tiers" -> Monitor!Watch
       [] part = "disk" -> Monitor!Measure
       [] OTHER -> UNCHANGED monitorVars
  /\ IF part = "start" THEN Start!Next ELSE UNCHANGED startVars

PartSpec == PartInit /\ [][PartNext]_<<part, vars, storeVars, signedVars, queueVars,
                                       monitorVars, startVars>>

-----------------------------------------------------------------------------
(* The properties of the parts; each is stated in its module, those of     *)
(* CwtApproval have their names from there.                                *)
TypesOK == CASE part = "cwt" -> TypeOK
             [] part = "store" -> Store!TypeOK
             [] part = "signed" -> Signed!TypeOK
             [] part = "queue" -> Queue!TypeOK
             [] part \in {"tiers", "disk"} -> Monitor!TypeOK
             [] part = "start" -> Start!TypeOK
RecordsKept == part = "store" => /\ Store!AnsweredKept /\ Store!StoredBelowNext
                                 /\ Store!SettledRecords
SignedOnce == part = "signed" => Signed!SignedOnce
LastWorks == part = "signed" => Signed!LastWorks
Overshoot == part = "queue" => Queue!Overshoot
QueueFair == [][part = "queue" => Queue!QueueStep]_queueVars
RaisedOnce == part = "tiers" => Monitor!RaisedOnce
SizesTrue == part = "disk" => Monitor!SizesTrue
RestoredTrue == part = "start" => Start!RestoredTrue
PatchSynced == part = "start" => Start!PatchSynced
=============================================================================
