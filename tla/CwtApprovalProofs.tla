-------------------------- MODULE CwtApprovalProofs --------------------------
(***************************************************************************)
(* The applications, the registry and the audit trail, for any number of   *)
(* requests, applications and addresses.                                   *)
(*                                                                         *)
(* The argument: one transaction at a time holds the collection of the     *)
(* applications, with the image of the cache it took when it got hold of   *)
(* it.  Nothing leaves the cache but what somebody set out to reject, so   *)
(* every image has all confirmed applications; and whoever changes the     *)
(* cache has an image still to take, or has failed.  The registry and the  *)
(* trail are committed by the same transactions.                           *)
(***************************************************************************)
EXTENDS CwtApproval, FiniteSetTheorems, WellFoundedInduction, TLAPS

Operation == {"none", "submit", "approve", "reject", "revoke"}
Task == [pc : Pcs, op : Operation, id : Nat, addr : Addr \cup {Idle.addr}, wrote : SUBSET Group,
         stale : SUBSET Group, apps : [Id -> AppStatus], reg : RegStatus,
         marks : [Addr -> BOOLEAN]]
Database == [apps : [Id -> AppStatus], reg : [Addr -> RegStatus], marks : [Addr -> BOOLEAN],
             log : SUBSET [op : Action, addr : Addr]]

Places == /\ place \in [Id -> Nat]
          /\ \A i \in Id : place[i] \in {0, Hydrated(i), Last(i)}
Types == /\ Places /\ status \in [Id -> AppStatus]
         /\ registry \in [Addr -> RegStatus] /\ mark \in [Addr -> BOOLEAN]
         /\ db \in Database /\ task \in [Proc -> Task] /\ owner \in Seq(Addr)
         /\ history \in [confirmed : SUBSET Id, declined : SUBSET Id, failed : BOOLEAN]

Decision == {"approve", "revoke"}
Holds(t) == "apps" \in t.wrote

(* What a request has written when it waits for the write t.pc.            *)
Staged(t) ==
  /\ t.pc = "idle" <=> t.op = "none"
  /\ t.op # "none" => t.addr \in Addr
  /\ t.op \in {"submit", "approve", "reject"} => t.id \in Id
  /\ t.pc = "idle" => t.wrote = {}
  /\ t.pc = "reg" => t.op \in Decision /\ t.wrote = {}
  /\ t.pc = "apps" => \/ t.op = "approve" /\ t.wrote = {"reg"}
                      \/ t.op \in {"submit", "reject"} /\ t.wrote = {}
  /\ t.pc = "insert" => t.op = "approve" /\ t.wrote = {"reg", "apps"}
  /\ t.pc = "users" => \/ t.op = "approve" /\ t.wrote = {"reg", "apps"}
                       \/ t.op = "revoke" /\ t.wrote = {"reg"}
  /\ t.pc = "commit" => /\ t.op \in Decision <=> "reg" \in t.wrote
                        /\ t.op # "revoke" <=> Holds(t)
  /\ "reg" \in t.wrote => t.reg = IF t.op = "approve" THEN "approved" ELSE "revoked"

Stages == \A p \in Proc : Staged(task[p])
OneWriter == \A p, q \in Proc : Holds(task[p]) /\ Holds(task[q]) => p = q

(* A status is given to what was submitted, rejected only by a request.    *)
Sound(st) == \A i \in Id : /\ st[i] # "none" => i <= Len(owner)
                           /\ st[i] = "rejected" => i \in history.declined
Capped(st) == Count(st, "rejected") <= Keep
Images == /\ Sound(status) /\ Capped(Image(place, status))
          /\ \A i \in Id : place[i] # 0 => status[i] # "none"
          /\ \A p \in Proc : task[p].op \in {"submit", "approve", "reject"}
                             => task[p].id <= Len(owner)
          /\ Sound(db.apps) /\ Capped(db.apps)
          /\ \A p \in Proc : Sound(task[p].apps) /\ Capped(task[p].apps)

(* Whoever was told that an application is in, and who will be told so.    *)
Kept(i) == i \in history.declined \/ place[i] # 0
KeptBy(st, i) == i \in history.declined \/ st[i] # "none"
Confirmed(t, i) == i \in history.confirmed \/ (t.op = "submit" /\ i = t.id)
Keeping == /\ \A i \in history.confirmed : Kept(i) /\ KeptBy(db.apps, i)
           /\ \A p \in Proc : task[p].op = "submit" => Kept(task[p].id)
           /\ \A p \in Proc, i \in Id : Holds(task[p]) /\ Confirmed(task[p], i)
                                          => KeptBy(task[p].apps, i)

(* The image that will be, or was, the last to be committed.               *)
Dirty(t) == t.pc = "apps" \/ (t.pc = "reg" /\ t.op = "approve")
Converge == \/ history.failed
            \/ \E p \in Proc : Dirty(task[p])
            \/ \E p \in Proc : Holds(task[p]) /\ task[p].apps = Image(place, status)
            \/ (\A p \in Proc : ~Holds(task[p])) /\ db.apps = Image(place, status)

IInv == Types /\ Stages /\ OneWriter /\ Images /\ Keeping /\ Converge /\ AuditTrail

-----------------------------------------------------------------------------
(* What is kept when the array is saved.                                   *)

LEMMA LeastPlace ==
  ASSUME NEW T, T \subseteq Nat, T # {}
  PROVE  \E n \in T : \A m \in T : n <= m
<1>1. PICK n \in T : \A m \in T : ~(<<m, n>> \in OpToRel(<,Nat))
  BY NatLessThanWellFounded, WFMin, Zenon
<1>2. ASSUME NEW m \in T
      PROVE  n <= m
  <2>1. ~(m < n)
    BY <1>1, Zenon DEF OpToRel
  <2> QED
    BY <2>1
<1> QED
  BY <1>2

LEMMA IdFinite == IsFiniteSet(Id) /\ \A S \in SUBSET Id : IsFiniteSet(S) /\ Cardinality(S) \in Nat
<1>1. IsFiniteSet(Id)
  BY BoundAssumption, FS_Interval DEF Id
<1> QED
  BY <1>1, FS_Subset, FS_CardinalityType

(* Of the rejected applications of an array without two in one place, at   *)
(* most Keep stay: all that stay are behind the first of them.             *)
LEMMA PrunedFacts ==
  ASSUME NEW pl \in [Id -> Nat], NEW st \in [Id -> AppStatus],
         \A i, j \in Id : pl[i] = pl[j] /\ pl[i] # 0 => i = j
  PROVE  /\ Pruned(pl, st) \in [Id -> Nat]
         /\ \A i \in Id : \/ Pruned(pl, st)[i] = pl[i]
                          \/ Pruned(pl, st)[i] = 0 /\ st[i] = "rejected"
         /\ Capped(Image(Pruned(pl, st), st))
<1> DEFINE Rej == {i \in Id : st[i] = "rejected"}
           Gone == {i \in Rej : Cardinality(Behind(pl, i, Rej)) >= Keep}
           S == {i \in Rej : pl[i] # 0 /\ ~(Cardinality(Behind(pl, i, Rej)) >= Keep)}
<1>1. Pruned(pl, st) = [i \in Id |-> IF i \in Gone THEN 0 ELSE pl[i]]
  BY DEF Pruned
<1>2. {i \in Id : Image(Pruned(pl, st), st)[i] = "rejected"} = S
  BY <1>1 DEF Image
<1>3. S \in SUBSET Id /\ \A i \in S : pl[i] # 0 /\ ~(Cardinality(Behind(pl, i, Rej)) >= Keep)
                         /\ i \in Rej
  OBVIOUS
<1> HIDE DEF S
<1>4. Cardinality(S) <= Keep
  <2>1. CASE S = {}
    BY <2>1, CapAssumption, FS_EmptySet
  <2>2. CASE S # {}
    <3> DEFINE T == {pl[i] : i \in S}
    <3>1. \A i \in S : pl[i] \in T
      OBVIOUS
    <3>2. \A n \in T : \E i \in S : n = pl[i]
      OBVIOUS
    <3> HIDE DEF T
    <3>3. T \subseteq Nat /\ T # {}
      <4>1. PICK i \in S : TRUE
        BY <2>2
      <4>2. ASSUME NEW n \in T
            PROVE  n \in Nat
        <5>1. PICK k \in S : n = pl[k]
          BY <3>2
        <5> QED
          BY <1>3, <5>1
      <4> QED
        BY <3>1, <4>1, <4>2
    <3>3a. \E n \in T : \A m \in T : n <= m
      BY <3>3, LeastPlace
    <3>4. PICK i \in S : \A j \in S : pl[i] <= pl[j]
      BY <3>1, <3>2, <3>3a
    <3> DEFINE B == Behind(pl, i, Rej)
    <3>5. S \ {i} \subseteq B
      <4> SUFFICES ASSUME NEW j \in S, j # i
                   PROVE  j \in B
        OBVIOUS
      <4>1. pl[i] <= pl[j] /\ pl[i] # pl[j] /\ pl[i] \in Nat /\ pl[j] \in Nat /\ j \in Rej
        BY <1>3, <3>4
      <4>2. pl[j] > pl[i]
        BY <4>1
      <4> QED
        BY <4>1, <4>2 DEF Behind
    <3>6. B \in SUBSET Id /\ ~(Cardinality(B) >= Keep)
      BY <1>3 DEF Behind
    <3> HIDE DEF B
    <3>7. Cardinality(S \ {i}) = Cardinality(S) - 1 /\ Cardinality(S \ {i}) <= Cardinality(B)
      BY <1>3, <3>5, <3>6, IdFinite, FS_RemoveElement, FS_Subset
    <3> QED
      BY <1>3, <3>6, <3>7, IdFinite, CapAssumption
  <2> QED
    BY <2>1, <2>2
<1>5. Capped(Image(Pruned(pl, st), st))
  BY <1>2, <1>4 DEF Capped, Count
<1>6. Pruned(pl, st) \in [Id -> Nat]
  BY <1>1
<1>7. ASSUME NEW i \in Id
      PROVE  \/ Pruned(pl, st)[i] = pl[i]
             \/ Pruned(pl, st)[i] = 0 /\ st[i] = "rejected"
  BY <1>1
<1> QED
  BY <1>5, <1>6, <1>7

LEMMA PlacesDistinct ==
  ASSUME Places
  PROVE  \A i, j \in Id : place[i] = place[j] /\ place[i] # 0 => i = j
  BY BoundAssumption DEF Places, Hydrated, Last, Id

-----------------------------------------------------------------------------
(* The changes of the cache.                                               *)

CacheStep ==
  /\ Places' /\ status' \in [Id -> AppStatus]
  /\ owner' \in Seq(Addr) /\ Len(owner) <= Len(owner')
  /\ history' \in [confirmed : SUBSET Id, declined : SUBSET Id, failed : BOOLEAN]
  /\ history'.confirmed = history.confirmed /\ history.declined \subseteq history'.declined
  /\ history.failed => history'.failed
  /\ \A i \in Id : Kept(i) => Kept(i)'
  /\ Sound(status)' /\ Capped(Image(place, status))'
  /\ \A i \in Id : place'[i] # 0 => status'[i] # "none"

LEMMA Unmoved ==
  ASSUME IInv, UNCHANGED <<place, status, owner>>,
         history' \in {history, [history EXCEPT !.failed = TRUE]}
  PROVE  CacheStep
<1> USE DEF IInv, CacheStep
<1>1. /\ history' \in [confirmed : SUBSET Id, declined : SUBSET Id, failed : BOOLEAN]
      /\ history'.confirmed = history.confirmed /\ history'.declined = history.declined
      /\ history.failed => history'.failed
  BY DEF Types
<1>2. Places' /\ status' \in [Id -> AppStatus] /\ owner' \in Seq(Addr) /\ Len(owner) <= Len(owner')
  BY DEF Types, Places
<1>3. Capped(Image(place, status))' /\ \A i \in Id : place'[i] # 0 => status'[i] # "none"
  BY DEF Images
<1> QED
  BY <1>1, <1>2, <1>3 DEF Images, Sound, Kept

LEMMA StatusSet ==
  ASSUME IInv, NEW i \in Id, i <= Len(owner), NEW s \in {"approved", "rejected"},
         SetStatus(i, s), owner' = owner
  PROVE  CacheStep
<1> USE DEF IInv
<1>1. status' \in [Id -> AppStatus] /\ status'[i] = s /\ \A j \in Id : j # i => status'[j] = status[j]
  BY DEF SetStatus, Types, AppStatus
<1>2. /\ history' \in [confirmed : SUBSET Id, declined : SUBSET Id, failed : BOOLEAN]
      /\ history'.confirmed = history.confirmed /\ history.declined \subseteq history'.declined
      /\ history'.failed = history.failed
      /\ s = "rejected" => i \in history'.declined
  BY DEF SetStatus, Types
<1>3. /\ place' \in [Id -> Nat] /\ Capped(Image(place', status'))
      /\ \A j \in Id : place'[j] = place[j] \/ (place'[j] = 0 /\ status'[j] = "rejected")
  <2>1. place' = Pruned(place, status') /\ place \in [Id -> Nat]
    BY DEF SetStatus, Types, Places
  <2>2. \A j, k \in Id : place[j] = place[k] /\ place[j] # 0 => j = k
    BY PlacesDistinct DEF Types
  <2> QED
    BY <1>1, <2>1, <2>2, PrunedFacts
<1>4. Sound(status)'
  BY <1>1, <1>2 DEF Sound, Images, SetStatus, Types, Id
<1>5. Places'
  BY <1>3 DEF Places, Types
<1>6. \A j \in Id : Kept(j) => Kept(j)'
  BY <1>2, <1>3, <1>4 DEF Kept, Sound
<1>7. \A j \in Id : place'[j] # 0 => status'[j] # "none"
  BY <1>1, <1>3 DEF Images
<1> QED
  BY <1>1, <1>2, <1>3, <1>4, <1>5, <1>6, <1>7 DEF CacheStep, Types, Capped, Image

LEMMA SubmitCache ==
  ASSUME IInv, NEW p \in Proc, NEW a \in Addr, Submit(p, a)
  PROVE  /\ CacheStep /\ Kept(Len(owner))' /\ Len(owner') = Len(owner) + 1
         /\ Len(owner) + 1 \in Id
<1> USE DEF IInv
<1> DEFINE i == Len(owner) + 1
           pl == [place EXCEPT ![i] = Last(i)]
<1>1. /\ i \in Id /\ owner' \in Seq(Addr) /\ Len(owner') = i /\ Len(owner) \in Nat
      /\ history' = history
  BY DEF Submit, Types
<1> HIDE DEF i
<1>2. status' \in [Id -> AppStatus] /\ status'[i] = "pending"
      /\ \A j \in Id : j # i => status'[j] = status[j]
  BY <1>1 DEF Submit, Types, AppStatus, i
<1>3. /\ pl \in [Id -> Nat] /\ pl[i] = Last(i) /\ Last(i) # 0
      /\ \A j \in Id : j # i => pl[j] = place[j]
  BY <1>1, BoundAssumption DEF Last, Types, Places, Id
<1> HIDE DEF pl
<1>4. \A j \in Id : pl[j] \in {0, Hydrated(j), Last(j)}
  BY <1>3 DEF Types, Places
<1>5. \A j, k \in Id : pl[j] = pl[k] /\ pl[j] # 0 => j = k
  BY <1>4, BoundAssumption DEF Hydrated, Last, Id
<1>6. place' = Pruned(pl, status')
  BY DEF Submit, pl, i
<1>7. /\ place' \in [Id -> Nat] /\ Capped(Image(place', status'))
      /\ \A j \in Id : place'[j] = pl[j] \/ (place'[j] = 0 /\ status'[j] = "rejected")
  BY <1>2, <1>3, <1>5, <1>6, PrunedFacts
<1>8. Sound(status)'
  BY <1>1, <1>2 DEF Sound, Images, Id, i
<1>9. Places'
  BY <1>4, <1>7 DEF Places
<1>10. ASSUME NEW j \in Id, Kept(j)
       PROVE  Kept(j)'
  BY <1>1, <1>3, <1>7, <1>8, <1>10 DEF Kept, Sound
<1>11. \A j \in Id : place'[j] # 0 => status'[j] # "none"
  BY <1>2, <1>3, <1>7 DEF Images
<1>12. place'[i] # 0
  BY <1>1, <1>2, <1>3, <1>7
<1>13. CacheStep
  BY <1>1, <1>2, <1>7, <1>8, <1>9, <1>10, <1>11
     DEF CacheStep, Types, Capped, Image, i
<1> QED
  <2>1. Len(owner') = i /\ i = Len(owner) + 1
    BY <1>1 DEF i
  <2> QED
    BY <1>1, <1>12, <1>13, <2>1 DEF Kept

-----------------------------------------------------------------------------
(* A turn of one request.                                                  *)

LEMMA NoAppsFacts == NoApps \in [Id -> AppStatus] /\ Sound(NoApps) /\ Capped(NoApps)
<1>1. {i \in Id : NoApps[i] = "rejected"} = {}
  BY DEF NoApps
<1> QED
  BY <1>1, FS_EmptySet, CapAssumption DEF NoApps, AppStatus, Sound, Capped, Count

LEMMA NewFacts ==
  ASSUME NEW o \in Operation, NEW i \in Nat, NEW a \in Addr \cup {Idle.addr}
  PROVE  /\ Fresh(o, i, a) \in Task /\ Fresh(o, i, a).apps = NoApps
         /\ Fresh(o, i, a).op = o /\ Fresh(o, i, a).id = i /\ Fresh(o, i, a).addr = a
         /\ Fresh(o, i, a).wrote = {} /\ Fresh(o, i, a).pc = "idle"
<1>1. NoApps \in [Id -> AppStatus] /\ NoMarks \in [Addr -> BOOLEAN]
  BY NoAppsFacts DEF NoMarks
<1> HIDE DEF NoApps, NoMarks
<1> QED
  BY <1>1 DEF Fresh, Task, Pcs, Group, RegStatus

LEMMA IdleFacts == /\ Idle \in Task /\ Staged(Idle) /\ Idle.apps = NoApps /\ ~Holds(Idle)
                   /\ Idle.op = "none" /\ Idle.pc = "idle"
<1>1. Idle = Fresh("none", 0, Idle.addr)
  BY DEF Idle, Fresh
<1>2. "none" \in Operation /\ 0 \in Nat /\ Idle.addr \in Addr \cup {Idle.addr}
  BY DEF Operation
<1> HIDE DEF Idle
<1>3. /\ Idle \in Task /\ Idle.apps = NoApps /\ Idle.op = "none" /\ Idle.wrote = {}
      /\ Idle.pc = "idle"
  BY <1>1, <1>2, NewFacts
<1> QED
  BY <1>3 DEF Staged, Holds

LEMMA TurnKeeps ==
  ASSUME IInv, NEW p \in Proc, NEW t \in Task, Staged(t), Become(p, t), db' = db, CacheStep,
         registry' \in [Addr -> RegStatus], mark' \in [Addr -> BOOLEAN],
         Sound(t.apps)', Capped(t.apps),
         t.op \in {"submit", "approve", "reject"} => t.id <= Len(owner'),
         t.op = "submit" => Kept(t.id)',
         Holds(t) => \A q \in Proc \ {p} : ~Holds(task[q]),
         \A i \in Id : Holds(t) /\ Confirmed(t, i) => KeptBy(t.apps, i),
         Converge'
  PROVE  IInv'
<1> USE DEF IInv
<1>1. /\ task' \in [Proc -> Task] /\ task'[p] = t
      /\ \A q \in Proc : q # p => task'[q] = task[q]
  BY DEF Become, Types
<1>2. Types'
  BY <1>1 DEF Types, CacheStep
<1>3. Stages'
  BY <1>1 DEF Stages
<1>4. OneWriter'
  BY <1>1 DEF OneWriter
<1>5. /\ \A st : Sound(st) => Sound(st)'
      /\ \A st, i : KeptBy(st, i) => KeptBy(st, i)'
      /\ \A u, i : Confirmed(u, i)' <=> Confirmed(u, i)
      /\ \A i \in Id : Kept(i) => Kept(i)'
  BY DEF CacheStep, Sound, KeptBy, Confirmed, Id, Types
<1>6. Images'
  <2>1. (Sound(status) /\ Capped(Image(place, status)))'
    BY DEF CacheStep
  <2>2. \A i \in Id : place'[i] # 0 => status'[i] # "none"
    BY DEF CacheStep
  <2>3. ASSUME NEW q \in Proc
        PROVE  /\ task'[q].op \in {"submit", "approve", "reject"} => task'[q].id <= Len(owner')
               /\ Sound(task[q].apps)' /\ Capped(task'[q].apps)
    <3>1. CASE q = p
      BY <1>1, <3>1 DEF Sound
    <3>2. CASE q # p
      <4>1. task[q].id \in Nat \/ task[q].op \notin {"submit", "approve", "reject"}
        BY DEF Stages, Staged, Id
      <4>2. Len(owner) \in Nat /\ Len(owner') \in Nat /\ Len(owner) <= Len(owner')
        BY DEF CacheStep, Types
      <4> QED
        BY <1>1, <1>5, <3>2, <4>1, <4>2 DEF Images, Sound
    <3> QED
      BY <3>1, <3>2
  <2>4. Sound(db.apps)' /\ Capped(db'.apps)
    BY <1>5 DEF Images, Sound
  <2> QED
    BY <2>1, <2>2, <2>3, <2>4 DEF Images, Capped, Count
<1>7. Keeping'
  <2>1. \A i \in history'.confirmed : Kept(i)' /\ KeptBy(db.apps, i)'
    <3>1. history'.confirmed = history.confirmed /\ history.confirmed \subseteq Id
      BY DEF CacheStep, Types
    <3> QED
      BY <1>5, <3>1 DEF Keeping, KeptBy
  <2>2. ASSUME NEW q \in Proc, task'[q].op = "submit"
        PROVE  Kept(task[q].id)'
    BY <1>1, <1>5, <2>2 DEF Keeping, Kept, Stages, Staged
  <2>3. ASSUME NEW q \in Proc, NEW i \in Id, Holds(task'[q]), Confirmed(task[q], i)'
        PROVE  KeptBy(task[q].apps, i)'
    <3>1. CASE q = p
      BY <1>1, <1>5, <2>3, <3>1 DEF KeptBy, Confirmed
    <3>2. CASE q # p
      <4>1. Holds(task[q]) /\ Confirmed(task[q], i)
        BY <1>1, <1>5, <2>3, <3>2 DEF Confirmed, CacheStep
      <4> QED
        BY <1>1, <1>5, <3>2, <4>1 DEF Keeping, KeptBy
    <3> QED
      BY <3>1, <3>2
  <2> QED
    BY <2>1, <2>2, <2>3 DEF Keeping, KeptBy, Holds
<1>8. AuditTrail'
  BY DEF AuditTrail
<1> QED
  BY <1>2, <1>3, <1>4, <1>6, <1>7, <1>8

(* What the request is worth that has no image, or the one it had.         *)
LEMMA QuietTurn ==
  ASSUME IInv, NEW p \in Proc, NEW t \in Task, Staged(t), Become(p, t), UNCHANGED <<db, owner>>,
         registry' \in [Addr -> RegStatus], mark' \in [Addr -> BOOLEAN],
         UNCHANGED <<place, status>>, history' \in {history, [history EXCEPT !.failed = TRUE]},
         history'.failed \/ (~Dirty(task[p]) /\ (Holds(t) <=> Holds(task[p]))),
         t.op \in {"none", "revoke"} \/ (t.op = task[p].op /\ t.id = task[p].id),
         Holds(t) => Holds(task[p]), t.apps \in {NoApps, task[p].apps},
         Holds(t) => t.apps = task[p].apps /\ t.op = task[p].op /\ t.id = task[p].id
  PROVE  IInv'
<1> USE DEF IInv
<1>1. CacheStep
  BY Unmoved
<1>2. /\ task' \in [Proc -> Task] /\ task'[p] = t
      /\ \A q \in Proc : q # p => task'[q] = task[q]
  BY DEF Become, Types
<1>3. Sound(t.apps) /\ Capped(t.apps)
  BY NoAppsFacts DEF Images
<1>4. Sound(t.apps)'
  <2>1. history'.declined = history.declined
    BY DEF Types
  <2> QED
    BY <1>3, <2>1 DEF Sound
<1>5. t.op \in {"submit", "approve", "reject"} => t.id <= Len(owner')
  BY DEF Images
<1>6. t.op = "submit" => Kept(t.id)'
  <2>1. t.op = "submit" => Kept(t.id) /\ t.id \in Id
    BY DEF Keeping, Staged
  <2> QED
    BY <1>1, <2>1 DEF CacheStep
<1>7. Holds(t) => \A q \in Proc \ {p} : ~Holds(task[q])
  BY DEF OneWriter
<1>8. \A i \in Id : Holds(t) /\ Confirmed(t, i) => KeptBy(t.apps, i)
  BY DEF Keeping, Confirmed
<1>9. Converge'
  <2>1. CASE history'.failed
    BY <2>1 DEF Converge
  <2>2. CASE ~history'.failed
    <3>1. ~history.failed
      BY <2>2 DEF Types
    <3>2. \A q \in Proc : Holds(task'[q]) <=> Holds(task[q])
      BY <1>2, <2>2
    <3>3. \A q \in Proc : Dirty(task[q]) => Dirty(task'[q])
      BY <1>2, <2>2
    <3>4. \A q \in Proc : Holds(task[q]) => task'[q].apps = task[q].apps
      BY <1>2, <2>2
    <3>5. Image(place', status') = Image(place, status)
      OBVIOUS
    <3> QED
      BY <3>1, <3>2, <3>3, <3>4, <3>5 DEF Converge
  <2> QED
    BY <2>1, <2>2
<1> QED
  BY <1>1, <1>3, <1>4, <1>5, <1>6, <1>7, <1>8, <1>9, TurnKeeps

(* A request that holds nothing and has still to take its image.           *)
LEMMA DirtyTurn ==
  ASSUME IInv, NEW p \in Proc, NEW t \in Task, Staged(t), Become(p, t), db' = db, CacheStep,
         registry' \in [Addr -> RegStatus], mark' \in [Addr -> BOOLEAN],
         t.apps = NoApps, Dirty(t), t.id <= Len(owner'),
         t.op = "submit" => t.id \in history'.declined \/ place'[t.id] # 0
  PROVE  IInv'
<1>1. Sound(t.apps)' /\ Capped(t.apps)
  BY NoAppsFacts DEF Sound, NoApps
<1>2. ~Holds(t)
  BY DEF Holds, Dirty, Staged
<1>3. task'[p] = t
  BY DEF Become, IInv, Types
<1>4. Converge'
  BY <1>3 DEF Converge
<1>5. t.op = "submit" => Kept(t.id)'
  BY DEF Kept
<1> QED
  BY <1>1, <1>2, <1>4, <1>5, TurnKeeps

LEMMA SubmitKeeps ==
  ASSUME IInv, NEW p \in Proc, NEW a \in Addr, Submit(p, a)
  PROVE  IInv'
<1> DEFINE i == Len(owner) + 1
           f == Fresh("submit", i, a)
           t == [f EXCEPT !.pc = "apps"]
<1>1. /\ CacheStep /\ Kept(Len(owner))' /\ Len(owner') = i /\ i \in Id /\ i \in Nat
  BY SubmitCache, BoundAssumption DEF Id
<1>2. Become(p, t) /\ db' = db /\ UNCHANGED <<registry, mark>>
  BY DEF Submit
<1> HIDE DEF i
<1>3. /\ f \in Task /\ f.apps = NoApps /\ f.op = "submit" /\ f.id = i /\ f.addr = a
      /\ f.wrote = {}
  BY <1>1, NewFacts DEF Operation
<1> HIDE DEF f
<1>4. /\ t \in Task /\ t.apps = NoApps /\ t.op = "submit" /\ t.id = i /\ t.addr = a
      /\ t.wrote = {} /\ t.pc = "apps"
  BY <1>3 DEF Task, Pcs, Group
<1> HIDE DEF t
<1>5. Staged(t) /\ Dirty(t)
  BY <1>1, <1>4 DEF Staged, Dirty
<1>6. (t.id \in history'.declined \/ place'[t.id] # 0) /\ t.id <= Len(owner')
  BY <1>1, <1>4 DEF Kept
<1> QED
  BY <1>1, <1>2, <1>4, <1>5, <1>6, DirtyTurn DEF IInv, Types

(* A decision, or one that begins again.                                   *)
LEMMA DecideKeeps ==
  ASSUME IInv, NEW p \in Proc, NEW o \in {"approve", "reject", "revoke"}, NEW i \in Nat,
         NEW a \in Addr, o # "revoke" => i \in Id /\ i <= Len(owner),
         o = "revoke" => ~Dirty(task[p]) /\ ~Holds(task[p]),
         Decide(p, Fresh(o, i, a)), UNCHANGED <<mark, db, owner>>
  PROVE  IInv'
<1> DEFINE f == Fresh(o, i, a)
           t == [f EXCEPT !.pc = IF o = "reject" THEN "apps" ELSE "reg"]
<1>1. /\ f \in Task /\ f.apps = NoApps /\ f.op = o /\ f.id = i /\ f.addr = a /\ f.wrote = {}
  BY NewFacts DEF Operation
<1>2. /\ Become(p, t) /\ registry' \in [Addr -> RegStatus]
      /\ o = "reject" => SetStatus(i, "rejected")
      /\ o # "reject" => UNCHANGED <<place, status, history>>
  <2>1. CASE o = "reject"
    BY <1>1, <2>1 DEF Decide, IInv, Types
  <2>2. CASE o # "reject"
    <3>1. registry' = [registry EXCEPT ![a] = IF o = "approve" THEN "approved" ELSE "revoked"]
      BY <1>1, <2>2 DEF Decide
    <3> QED
      BY <1>1, <2>2, <3>1 DEF Decide, IInv, Types, RegStatus
  <2> QED
    BY <2>1, <2>2
<1> HIDE DEF f
<1>3. /\ t \in Task /\ t.apps = NoApps /\ t.op = o /\ t.id = i /\ t.addr = a /\ t.wrote = {}
      /\ t.pc = IF o = "reject" THEN "apps" ELSE "reg"
  BY <1>1 DEF Task, Pcs, Group
<1> HIDE DEF t
<1>4. Staged(t)
  BY <1>3 DEF Staged, Decision
<1>5. mark' \in [Addr -> BOOLEAN]
  BY DEF IInv, Types
<1>6. CASE o = "revoke"
  <2>1. ~Dirty(t) /\ ~Holds(t)
    BY <1>3, <1>6 DEF Dirty, Holds
  <2> QED
    BY <1>2, <1>3, <1>4, <1>5, <1>6, <2>1, QuietTurn
<1>7. CASE o # "revoke"
  <2>1. CacheStep
    <3>1. CASE o = "reject"
      BY <1>2, <1>7, <3>1, StatusSet
    <3>2. CASE o # "reject"
      BY <1>2, <3>2, Unmoved
    <3> QED
      BY <3>1, <3>2
  <2>2. Dirty(t) /\ t.id <= Len(owner') /\ t.op # "submit"
    BY <1>3, <1>7 DEF Dirty
  <2> QED
    BY <1>2, <1>3, <1>4, <1>5, <2>1, <2>2, DirtyTurn
<1> QED
  BY <1>6, <1>7

LEMMA RequestKeeps ==
  ASSUME IInv, NEW p \in Proc, Request(p)
  PROVE  IInv'
<1>1. ASSUME NEW a \in Addr, Submit(p, a)
      PROVE  IInv'
  BY <1>1, SubmitKeeps
<1>2. ASSUME NEW a \in Addr, Revoke(p, a)
      PROVE  IInv'
  <2>1. ~Dirty(task[p]) /\ ~Holds(task[p])
    BY <1>2 DEF Revoke, At, Dirty, Holds, IInv, Stages, Staged
  <2> QED
    BY <1>2, <2>1, DecideKeeps DEF Revoke
<1>3. ASSUME NEW i \in Id, Approve(p, i) \/ Reject(p, i)
      PROVE  IInv'
  <2>1. i \in Pending
    BY <1>3 DEF Approve, Reject
  <2>2. i \in Nat /\ i <= Len(owner) /\ owner[i] \in Addr
    BY <2>1 DEF Pending, IInv, Images, Sound, Types, Id
  <2>3. PICK o \in {"approve", "reject"} : Decide(p, Fresh(o, i, owner[i]))
    BY <1>3 DEF Approve, Reject
  <2>4. UNCHANGED <<mark, db, owner>>
    BY <1>3 DEF Approve, Reject
  <2>5. PICK a \in Addr : a = owner[i]
    BY <2>2
  <2> QED
    BY <2>2, <2>3, <2>4, <2>5, DecideKeeps
<1> QED
  BY <1>1, <1>2, <1>3 DEF Request

LEMMA RetryKeeps ==
  ASSUME IInv, NEW p \in Proc, Retry(p)
  PROVE  IInv'
<1> PICK u \in Task : u = task[p]
  BY DEF IInv, Types
<1>1. Staged(u) /\ u.pc \in Group /\ u.op \in Operation /\ u.id \in Nat /\ u.addr \in Addr
  BY DEF Retry, IInv, Stages, Staged, Task, Group, Operation
<1> DEFINE f == Fresh(u.op, u.id, u.addr)
<1>2. CASE u.op = "submit"
  <2> DEFINE t == [f EXCEPT !.pc = "apps"]
  <2>1. /\ f \in Task /\ f.apps = NoApps /\ f.op = "submit" /\ f.id = u.id /\ f.addr = u.addr
        /\ f.wrote = {}
    BY <1>1, <1>2, NewFacts
  <2>2. Become(p, t) /\ UNCHANGED <<place, status, registry, history, mark, db, owner>>
    BY <1>2, <2>1 DEF Retry
  <2> HIDE DEF f
  <2>3. /\ t \in Task /\ t.apps = NoApps /\ t.op = "submit" /\ t.id = u.id /\ t.addr = u.addr
        /\ t.wrote = {} /\ t.pc = "apps"
    BY <2>1 DEF Task, Pcs, Group
  <2> HIDE DEF t
  <2>4. Staged(t) /\ Dirty(t)
    BY <1>1, <1>2, <2>3 DEF Staged, Dirty
  <2>5. CacheStep
    BY <2>2, Unmoved
  <2>6. Kept(u.id) /\ u.id <= Len(owner)
    BY <1>2 DEF IInv, Keeping, Images
  <2>7. (t.id \in history'.declined \/ place'[t.id] # 0) /\ t.id <= Len(owner')
    BY <2>2, <2>3, <2>6 DEF Kept
  <2>8. registry' \in [Addr -> RegStatus] /\ mark' \in [Addr -> BOOLEAN]
    BY <2>2 DEF IInv, Types
  <2> QED
    BY <2>2, <2>3, <2>4, <2>5, <2>7, <2>8, DirtyTurn
<1>3. CASE u.op # "submit"
  <2>1. Decide(p, Fresh(u.op, u.id, u.addr)) /\ UNCHANGED <<mark, db, owner>>
    BY <1>3, NewFacts, <1>1 DEF Retry
  <2>2. u.op \in {"approve", "reject", "revoke"}
    BY <1>1, <1>3 DEF Staged, Group, Operation
  <2>3. u.op # "revoke" => u.id \in Id /\ u.id <= Len(owner)
    BY <1>1, <2>2 DEF Staged, IInv, Images
  <2>4. u.op = "revoke" => ~Dirty(u) /\ ~Holds(u)
    BY <1>1 DEF Staged, Dirty, Holds, Group, Decision
  <2> QED
    BY <1>1, <2>1, <2>2, <2>3, <2>4, DecideKeeps
<1> QED
  BY <1>2, <1>3

LEMMA FailKeeps ==
  ASSUME IInv, NEW p \in Proc, Fail(p)
  PROVE  IInv'
<1>1. /\ Become(p, Idle) /\ UNCHANGED <<db, owner, place, status>>
      /\ history' = [history EXCEPT !.failed = TRUE] /\ history'.failed
      /\ registry' \in [Addr -> RegStatus] /\ mark' \in [Addr -> BOOLEAN]
  BY DEF Fail, caches, IInv, Types
<1> QED
  BY <1>1, IdleFacts, QuietTurn

LEMMA MarksSaved ==
  ASSUME IInv, NEW t \in Task, t.addr \in Addr, mark' \in [Addr -> BOOLEAN]
  PROVE  /\ SaveMarks(t) \in Task
         /\ SaveMarks(t).pc = IF t.addr \in Known THEN "users" ELSE "commit"
         /\ SaveMarks(t).op = t.op /\ SaveMarks(t).id = t.id /\ SaveMarks(t).addr = t.addr
         /\ SaveMarks(t).wrote = t.wrote /\ SaveMarks(t).apps = t.apps
         /\ SaveMarks(t).reg = t.reg
  BY DEF SaveMarks, Task, Pcs, Group

LEMMA RegWrittenKeeps ==
  ASSUME IInv, NEW p \in Proc, RegWritten(p)
  PROVE  IInv'
<1> PICK u \in Task : u = task[p]
  BY DEF IInv, Types
<1>1. Staged(u) /\ u.pc = "reg" /\ u.op \in Decision /\ u.wrote = {} /\ u.addr \in Addr
  BY DEF RegWritten, At, IInv, Stages, Staged, Decision
<1> DEFINE t == [u EXCEPT !.wrote = @ \cup {"reg"},
                          !.reg = IF u.op = "approve" THEN "approved" ELSE "revoked"]
<1>2. /\ t \in Task /\ t.op = u.op /\ t.id = u.id /\ t.addr = u.addr /\ t.wrote = {"reg"}
      /\ t.apps = u.apps /\ t.reg = IF u.op = "approve" THEN "approved" ELSE "revoked"
  BY <1>1 DEF Task, Group, RegStatus
<1>3. /\ UNCHANGED <<registry, db, owner>>
      /\ \/ /\ u.op = "approve" /\ SetStatus(u.id, "approved") /\ UNCHANGED mark
            /\ Become(p, [t EXCEPT !.pc = "apps"])
         \/ /\ u.op = "revoke" /\ mark' = [mark EXCEPT ![u.addr] = FALSE]
            /\ Become(p, SaveMarks(t)) /\ UNCHANGED <<place, status, history>>
  BY <1>2 DEF RegWritten
<1> HIDE DEF t
<1>4. registry' \in [Addr -> RegStatus] /\ mark' \in [Addr -> BOOLEAN]
  BY <1>3 DEF IInv, Types
<1>5. CASE u.op = "approve"
  <2> DEFINE v == [t EXCEPT !.pc = "apps"]
  <2>1. /\ v \in Task /\ v.op = "approve" /\ v.id = u.id /\ v.addr = u.addr /\ v.wrote = {"reg"}
        /\ v.apps = u.apps /\ v.reg = "approved" /\ v.pc = "apps"
    BY <1>2, <1>5 DEF Task, Pcs, Group
  <2>2. Become(p, v) /\ SetStatus(u.id, "approved")
    BY <1>3, <1>5
  <2> HIDE DEF v
  <2>3. u.id \in Id /\ u.id <= Len(owner)
    BY <1>1, <1>5 DEF Staged, IInv, Images
  <2>4. CacheStep
    BY <1>3, <2>2, <2>3, StatusSet
  <2>5. Staged(v) /\ Dirty(v)
    BY <1>1, <2>1, <2>3 DEF Staged, Dirty
  <2>6. (v.id \in history'.declined \/ place'[v.id] # 0) \/ v.op # "submit"
    BY <2>1
  <2>7. ~Holds(v) /\ \A i \in Id : ~(Holds(v) /\ Confirmed(v, i))
    BY <2>1 DEF Holds
  <2>8. Converge'
    BY <2>2, <2>5 DEF Converge, Become, IInv, Types
  <2>9. Sound(v.apps)' /\ Capped(v.apps)
    <3>1. Sound(u.apps) /\ Capped(u.apps)
      BY DEF IInv, Images
    <3>2. history.declined \subseteq history'.declined
      BY <2>4 DEF CacheStep
    <3> QED
      BY <1>3, <2>1, <3>1, <3>2 DEF Sound
  <2> QED
    BY <1>3, <1>4, <2>1, <2>2, <2>3, <2>4, <2>5, <2>7, <2>8, <2>9, TurnKeeps
<1>6. CASE u.op = "revoke"
  <2> DEFINE w == SaveMarks(t)
  <2>0. PICK v : v = w
    OBVIOUS
  <2>1. /\ v \in Task /\ v.op = "revoke" /\ v.id = u.id /\ v.addr = u.addr /\ v.wrote = {"reg"}
        /\ v.apps = u.apps /\ v.reg = "revoked" /\ v.pc \in {"users", "commit"}
    BY <1>1, <1>2, <1>4, <1>6, <2>0, MarksSaved
  <2>2. Become(p, v) /\ UNCHANGED <<place, status, history>>
    BY <1>3, <1>6, <2>0
  <2>3. Staged(v) /\ ~Dirty(u) /\ ~Holds(u) /\ ~Holds(v)
    BY <1>1, <1>6, <2>1 DEF Staged, Dirty, Decision, Holds
  <2> QED
    BY <1>3, <1>4, <2>1, <2>2, <2>3, QuietTurn
<1> QED
  BY <1>1, <1>5, <1>6 DEF Decision

LEMMA DeletedKeeps ==
  ASSUME IInv, NEW p \in Proc, Deleted(p)
  PROVE  IInv'
<1> PICK u \in Task : u = task[p]
  BY DEF IInv, Types
<1>1. Staged(u) /\ u.pc = "apps" /\ u.addr \in Addr /\ ~Conflict(p, "apps")
  BY DEF Deleted, At, IInv, Stages, Staged
<1>2. PICK m : m = Image(place, status)
  OBVIOUS
<1>3. m \in [Id -> AppStatus] /\ Capped(m) /\ Sound(m)
  BY <1>2 DEF Image, IInv, Types, Images, AppStatus, Sound
<1> DEFINE t == [u EXCEPT !.wrote = @ \cup {"apps"}, !.apps = m,
                          !.pc = IF u.op = "approve" THEN "insert" ELSE "commit"]
<1>4. /\ t \in Task /\ t.op = u.op /\ t.id = u.id /\ t.addr = u.addr
      /\ t.wrote = u.wrote \cup {"apps"} /\ t.apps = m /\ t.reg = u.reg
      /\ t.pc = IF u.op = "approve" THEN "insert" ELSE "commit"
  <2>1. PICK W \in SUBSET Group : W = u.wrote \cup {"apps"}
    BY DEF Task, Group
  <2>2. PICK l \in Pcs : l = IF u.op = "approve" THEN "insert" ELSE "commit"
    BY DEF Pcs
  <2>3. t = [u EXCEPT !.wrote = W, !.apps = m, !.pc = l]
    BY <2>1, <2>2
  <2> HIDE DEF t
  <2> QED
    BY <1>3, <2>1, <2>2, <2>3 DEF Task
<1>5. Become(p, t) /\ UNCHANGED <<place, status, registry, mark, db, owner, history>>
  BY <1>2 DEF Deleted, caches
<1> HIDE DEF t
<1>6. Staged(t) /\ Holds(t)
  BY <1>1, <1>4 DEF Staged, Holds, Decision
<1>7. CacheStep /\ registry' \in [Addr -> RegStatus] /\ mark' \in [Addr -> BOOLEAN]
  BY <1>5, Unmoved DEF IInv, Types
<1>8. \A q \in Proc \ {p} : ~Holds(task[q])
  BY <1>1 DEF Conflict, Meets, Holds
<1>9. t.op \in {"submit", "approve", "reject"} => t.id <= Len(owner')
  BY <1>4, <1>5 DEF IInv, Images
<1>10. t.op = "submit" => Kept(t.id)'
  BY <1>4, <1>5 DEF IInv, Keeping, Kept
<1>11. ASSUME NEW i \in Id, Confirmed(t, i)
       PROVE  KeptBy(t.apps, i)
  <2>1. Kept(i)
    BY <1>4, <1>11 DEF Confirmed, IInv, Keeping
  <2> QED
    BY <1>2, <1>4, <2>1 DEF Kept, KeptBy, Image, IInv, Images
<1>12. Converge'
  <2>1. task'[p] = t
    BY <1>5 DEF Become, IInv, Types
  <2>2. Holds(task'[p]) /\ task'[p].apps = Image(place', status')
    BY <1>2, <1>4, <1>5, <1>6, <2>1 DEF Image
  <2> QED
    BY <2>2 DEF Converge, Holds
<1>13. Sound(t.apps)' /\ Capped(t.apps)
  BY <1>3, <1>4, <1>5 DEF Sound
<1> QED
  BY <1>4, <1>5, <1>6, <1>7, <1>8, <1>9, <1>10, <1>11, <1>12, <1>13, TurnKeeps

LEMMA UsersKeep ==
  ASSUME IInv, NEW p \in Proc, Inserted(p) \/ UsersWritten(p)
  PROVE  IInv'
<1> PICK u \in Task : u = task[p]
  BY DEF IInv, Types
<1>1. CASE Inserted(p)
  <2>1. /\ Staged(u) /\ u.pc = "insert" /\ u.op = "approve" /\ u.addr \in Addr
        /\ u.wrote = {"reg", "apps"}
    BY <1>1 DEF Inserted, At, IInv, Stages, Staged
  <2>2. /\ mark' \in [Addr -> BOOLEAN] /\ Become(p, SaveMarks(u))
        /\ UNCHANGED <<place, status, registry, db, owner, history>>
    BY <1>1, <2>1 DEF Inserted, IInv, Types
  <2>3. PICK v : v = SaveMarks(u)
    OBVIOUS
  <2>4. /\ v \in Task /\ v.op = "approve" /\ v.id = u.id /\ v.addr = u.addr
        /\ v.wrote = {"reg", "apps"} /\ v.apps = u.apps /\ v.reg = u.reg
        /\ v.pc \in {"users", "commit"}
    BY <2>1, <2>2, <2>3, MarksSaved
  <2>5. Staged(v) /\ ~Dirty(u) /\ Holds(u) /\ Holds(v)
    BY <2>1, <2>4 DEF Staged, Dirty, Decision, Holds
  <2>6. Become(p, v) /\ registry' \in [Addr -> RegStatus]
    BY <2>2, <2>3 DEF IInv, Types
  <2> QED
    BY <2>1, <2>2, <2>4, <2>5, <2>6, QuietTurn
<1>2. CASE UsersWritten(p)
  <2>1. /\ Staged(u) /\ u.pc = "users" /\ u.op \in Decision /\ u.addr \in Addr
        /\ u.wrote = IF u.op = "approve" THEN {"reg", "apps"} ELSE {"reg"}
    BY <1>2 DEF UsersWritten, At, IInv, Stages, Staged, Decision
  <2> DEFINE v == [u EXCEPT !.wrote = @ \cup {"users"}, !.pc = "commit"]
  <2>2. /\ v \in Task /\ v.op = u.op /\ v.id = u.id /\ v.addr = u.addr
        /\ v.wrote = u.wrote \cup {"users"} /\ v.apps = u.apps /\ v.reg = u.reg
        /\ v.pc = "commit"
    BY DEF Task, Pcs, Group
  <2>3. /\ Become(p, v)
        /\ UNCHANGED <<place, status, registry, mark, db, owner, history>>
    BY <1>2 DEF UsersWritten, caches
  <2> HIDE DEF v
  <2>4. Staged(v) /\ ~Dirty(u) /\ (Holds(u) <=> Holds(v))
    BY <2>1, <2>2 DEF Staged, Dirty, Decision, Holds
  <2>5. registry' \in [Addr -> RegStatus] /\ mark' \in [Addr -> BOOLEAN]
    BY <2>3 DEF IInv, Types
  <2> QED
    BY <2>2, <2>3, <2>4, <2>5, QuietTurn
<1> QED
  BY <1>1, <1>2

-----------------------------------------------------------------------------
(* A commit.                                                               *)

LEMMA OutdateFacts ==
  ASSUME task \in [Proc -> Task], NEW p \in Proc, NEW t \in Task, NEW G \in SUBSET Group,
         Outdate(p, t, G)
  PROVE  /\ task' \in [Proc -> Task] /\ task'[p] = t
         /\ \A q \in Proc : q # p =>
              /\ task'[q].pc = task[q].pc /\ task'[q].op = task[q].op
              /\ task'[q].id = task[q].id /\ task'[q].addr = task[q].addr
              /\ task'[q].wrote = task[q].wrote /\ task'[q].apps = task[q].apps
              /\ task'[q].reg = task[q].reg
<1> DEFINE Late(q) == {g \in G \cap Writes[task[q].op] : Meets(p, q, g)}
           Next1(q) == IF q = p THEN t ELSE IF task[q].wrote = {} THEN task[q]
                       ELSE [task[q] EXCEPT !.stale = @ \cup Late(q)]
<1>1. task' = [q \in Proc |-> Next1(q)]
  BY DEF Outdate
<1>2. \A q \in Proc : Late(q) \subseteq Group
  OBVIOUS
<1> HIDE DEF Late
<1>3. ASSUME NEW q \in Proc
      PROVE  /\ Next1(q) \in Task /\ (q = p => Next1(q) = t)
             /\ q # p => /\ Next1(q).pc = task[q].pc /\ Next1(q).op = task[q].op
                         /\ Next1(q).id = task[q].id /\ Next1(q).addr = task[q].addr
                         /\ Next1(q).wrote = task[q].wrote /\ Next1(q).apps = task[q].apps
                         /\ Next1(q).reg = task[q].reg
  BY <1>2 DEF Task
<1> HIDE DEF Next1
<1>4. \A q \in Proc : task'[q] = Next1(q)
  BY <1>1
<1>5. task' \in [Proc -> Task]
  <2>1. \A q \in Proc : Next1(q) \in Task
    BY <1>3
  <2> HIDE DEF Task
  <2> QED
    BY <1>1, <2>1
<1> QED
  BY <1>3, <1>4, <1>5

LEMMA CommitKeeps ==
  ASSUME IInv, NEW p \in Proc, Commit(p)
  PROVE  IInv'
<1> PICK u \in Task : u = task[p]
  BY DEF IInv, Types
<1>1. /\ Staged(u) /\ u.pc = "commit" /\ u.addr \in Addr
      /\ (u.op \in Decision <=> "reg" \in u.wrote) /\ (u.op # "revoke" <=> Holds(u))
      /\ u.op # "none"
  BY DEF Commit, At, IInv, Stages, Staged
<1>2. /\ db' = Written(u) /\ Outdate(p, Idle, u.wrote) /\ u.wrote \in SUBSET Group
      /\ history' = IF u.op = "submit" THEN [history EXCEPT !.confirmed = @ \cup {u.id}]
                    ELSE history
      /\ UNCHANGED <<place, status, registry, mark, owner>>
  BY DEF Commit, caches, Task
<1>3. /\ task' \in [Proc -> Task] /\ task'[p] = Idle
      /\ \A q \in Proc : q # p =>
           /\ task'[q].pc = task[q].pc /\ task'[q].op = task[q].op
           /\ task'[q].id = task[q].id /\ task'[q].addr = task[q].addr
           /\ task'[q].wrote = task[q].wrote /\ task'[q].apps = task[q].apps
           /\ task'[q].reg = task[q].reg
  BY <1>2, IdleFacts, OutdateFacts DEF IInv, Types
<1>4. /\ u.op = "submit" => u.id \in Id
      /\ history' \in [confirmed : SUBSET Id, declined : SUBSET Id, failed : BOOLEAN]
      /\ history'.declined = history.declined /\ history'.failed = history.failed
      /\ history'.confirmed = IF u.op = "submit" THEN history.confirmed \cup {u.id}
                              ELSE history.confirmed
  BY <1>1, <1>2 DEF Staged, IInv, Types
<1>5. /\ db' \in Database /\ db'.apps = IF Holds(u) THEN u.apps ELSE db.apps
      /\ db'.reg = IF u.op \in Decision THEN [db.reg EXCEPT ![u.addr] = u.reg] ELSE db.reg
      /\ db'.log = db.log \cup Entries(u)
  <2>1. Entries(u) \in SUBSET [op : Action, addr : Addr]
    BY <1>1 DEF Entries
  <2>2. db'.log \in SUBSET [op : Action, addr : Addr]
    BY <1>2, <2>1 DEF Written, IInv, Types, Database
  <2> QED
    BY <1>1, <1>2, <2>2 DEF Written, Holds, IInv, Types, Database, Task
<1>6. Types'
  BY <1>2, <1>3, <1>4, <1>5 DEF IInv, Types, Places
<1>7. Stages'
  <2>1. ASSUME NEW q \in Proc
        PROVE  Staged(task'[q])
    <3>1. CASE q = p
      BY <1>3, <3>1, IdleFacts
    <3>2. CASE q # p
      <4>1. Staged(task[q])
        BY DEF IInv, Stages
      <4> QED
        BY <1>3, <3>2, <4>1 DEF Staged, Holds
    <3> QED
      BY <3>1, <3>2
  <2> QED
    BY <2>1 DEF Stages, Staged
<1>8. /\ ~Holds(task'[p]) /\ ~Dirty(task'[p]) /\ task'[p].op = "none" /\ task'[p].apps = NoApps
      /\ \A q \in Proc : q # p => (Holds(task'[q]) <=> Holds(task[q]))
                                  /\ (Dirty(task'[q]) <=> Dirty(task[q]))
  BY <1>3, IdleFacts DEF Holds, Dirty
<1>9. OneWriter'
  BY <1>8 DEF IInv, OneWriter, Holds
<1>10. \A st : Sound(st) => Sound(st)'
  BY <1>2, <1>4 DEF Sound
<1>11. \A st, i : KeptBy(st, i) => KeptBy(st, i)'
  BY <1>4 DEF KeptBy
<1>12. Images'
  <2>1. Sound(status)' /\ Capped(Image(place', status'))
        /\ \A i \in Id : place'[i] # 0 => status'[i] # "none"
    BY <1>2, <1>10 DEF IInv, Images, Sound, Capped, Image
  <2>2. Sound(db.apps)' /\ Capped(db'.apps)
    BY <1>5, <1>10 DEF IInv, Images, Sound
  <2>3. ASSUME NEW q \in Proc
        PROVE  /\ task'[q].op \in {"submit", "approve", "reject"} => task'[q].id <= Len(owner')
               /\ Sound(task[q].apps)' /\ Capped(task'[q].apps)
    <3>1. CASE q = p
      BY <1>8, <1>10, <3>1, NoAppsFacts DEF Sound
    <3>2. CASE q # p
      BY <1>2, <1>3, <1>10, <3>2 DEF IInv, Images, Sound
    <3> QED
      BY <3>1, <3>2
  <2> QED
    BY <2>1, <2>2, <2>3 DEF Images, Capped, Count, Image
<1>13. Keeping'
  <2>1. ASSUME NEW i \in history'.confirmed
        PROVE  Kept(i)' /\ KeptBy(db.apps, i)'
    <3>1. Kept(i)
      BY <1>4, <2>1 DEF IInv, Keeping
    <3>2. KeptBy(db.apps, i) \/ i \notin history.confirmed
      BY DEF IInv, Keeping
    <3>3. Confirmed(u, i) /\ i \in Id
      BY <1>4, <2>1 DEF Confirmed
    <3>4. Holds(u) => KeptBy(u.apps, i)
      BY <3>3 DEF IInv, Keeping
    <3>5. Holds(u) \/ i \in history.confirmed
      BY <1>1, <1>4, <2>1
    <3>6. i \in history.declined \/ db'.apps[i] # "none"
      BY <1>5, <3>2, <3>4, <3>5 DEF KeptBy
    <3> QED
      BY <1>2, <1>4, <3>1, <3>6 DEF Kept, KeptBy
  <2>2. ASSUME NEW q \in Proc, task'[q].op = "submit"
        PROVE  Kept(task[q].id)'
    <3>1. q # p
      BY <1>8, <2>2
    <3> QED
      BY <1>2, <1>3, <1>4, <2>2, <3>1 DEF IInv, Keeping, Kept
  <2>3. ASSUME NEW q \in Proc, NEW i \in Id, Holds(task'[q]), Confirmed(task[q], i)'
        PROVE  KeptBy(task[q].apps, i)'
    <3>1. q # p /\ Holds(task[q])
      BY <1>8, <2>3
    <3>2. ~Holds(u)
      BY <3>1 DEF IInv, OneWriter
    <3>3. history'.confirmed = history.confirmed
      BY <1>1, <1>4, <3>2
    <3>4. Confirmed(task[q], i)
      BY <1>3, <2>3, <3>1, <3>3 DEF Confirmed
    <3>5. KeptBy(task[q].apps, i)
      BY <3>1, <3>4 DEF IInv, Keeping
    <3> QED
      BY <1>3, <1>4, <3>1, <3>5 DEF KeptBy
  <2> QED
    BY <2>1, <2>2, <2>3 DEF Keeping, Holds, KeptBy
<1>14. Converge'
  <2>1. Image(place', status') = Image(place, status) /\ ~Dirty(u)
    BY <1>1, <1>2 DEF Dirty
  <2>2. CASE Holds(u)
    <3>1. \A q \in Proc : ~Holds(task'[q])
      BY <1>8, <2>2 DEF IInv, OneWriter
    <3>2. \A q \in Proc : Holds(task[q]) => q = p
      BY <2>2 DEF IInv, OneWriter
    <3>3. \/ history.failed
          \/ \E q \in Proc : q # p /\ Dirty(task[q])
          \/ u.apps = Image(place, status)
      BY <2>1, <2>2, <3>2 DEF IInv, Converge
    <3> QED
      BY <1>4, <1>5, <1>8, <2>1, <2>2, <3>1, <3>3 DEF Converge, Holds
  <2>3. CASE ~Holds(u)
    <3>1. db'.apps = db.apps
      BY <1>5, <2>3
    <3>2. \A q \in Proc : Holds(task[q]) => task'[q].apps = task[q].apps
      BY <1>3, <2>3
    <3>3. \A q \in Proc : (Holds(task'[q]) <=> Holds(task[q])) /\ (Dirty(task[q]) => Dirty(task'[q]))
      BY <1>8, <2>1, <2>3
    <3> QED
      BY <1>4, <2>1, <3>1, <3>2, <3>3 DEF IInv, Converge
  <2> QED
    BY <2>2, <2>3
<1>15. AuditTrail'
  <2>1. CASE u.op \in Decision
    <3>1. db'.log = db.log \cup {[op |-> u.op, addr |-> u.addr]}
      BY <1>5, <2>1 DEF Entries, Decision, Action
    <3>2. u.reg = IF u.op = "approve" THEN "approved" ELSE "revoked"
      BY <1>1, <2>1 DEF Staged
    <3>3. /\ db'.reg[u.addr] = u.reg
          /\ \A a \in Addr : a # u.addr => db'.reg[a] = db.reg[a]
      BY <1>1, <1>5, <2>1 DEF IInv, Types, Database
    <3>4. ASSUME NEW a \in Addr, NEW o \in Action
          PROVE  (\E e \in db'.log : e.op = o /\ e.addr = a)
                   <=> \/ \E e \in db.log : e.op = o /\ e.addr = a
                       \/ o = u.op /\ a = u.addr
      <4> DEFINE n == [op |-> u.op, addr |-> u.addr]
      <4>1. n.op = u.op /\ n.addr = u.addr
        OBVIOUS
      <4>2. \A e : e \in db'.log <=> e \in db.log \/ e = n
        BY <3>1
      <4> HIDE DEF n
      <4> QED
        BY <4>1, <4>2
    <3> QED
      BY <2>1, <3>2, <3>3, <3>4 DEF AuditTrail, IInv, Decision, Action
  <2>2. CASE u.op \notin Decision
    BY <1>5, <2>2 DEF AuditTrail, IInv, Entries, Decision, Action
  <2> QED
    BY <2>1, <2>2
<1> QED
  BY <1>6, <1>7, <1>9, <1>12, <1>13, <1>14, <1>15 DEF IInv

-----------------------------------------------------------------------------
(* A start of the process, and the first one.                              *)

LEMMA RestartKeeps ==
  ASSUME IInv, Restart
  PROVE  IInv'
<1>1. /\ place' = [i \in Id |-> IF db.apps[i] # "none" THEN Hydrated(i) ELSE 0]
      /\ status' = db.apps /\ registry' = db.reg /\ mark' = db.marks
      /\ task' = [p \in Proc |-> Idle] /\ UNCHANGED <<db, owner>>
      /\ history' = [history EXCEPT !.failed = FALSE]
  BY DEF Restart
<1>2. \A i \in Id : Hydrated(i) \in Nat /\ Hydrated(i) # 0
  BY BoundAssumption DEF Hydrated, Id
<1>3. db.apps \in [Id -> AppStatus] /\ db.reg \in [Addr -> RegStatus] /\ db.marks \in [Addr -> BOOLEAN]
  BY DEF IInv, Types, Database
<1>4. /\ history' \in [confirmed : SUBSET Id, declined : SUBSET Id, failed : BOOLEAN]
      /\ history'.declined = history.declined /\ history'.confirmed = history.confirmed
  BY <1>1 DEF IInv, Types
<1>5. \A p \in Proc : /\ task'[p] = Idle /\ Idle \in Task /\ Staged(Idle) /\ Idle.apps = NoApps
                      /\ ~Holds(Idle) /\ Idle.op = "none"
  BY <1>1, IdleFacts
<1>6. task' \in [Proc -> Task]
  BY <1>1, IdleFacts
<1>7. Places'
  BY <1>1, <1>2 DEF Places
<1>8. Types'
  BY <1>1, <1>3, <1>4, <1>6, <1>7 DEF IInv, Types
<1>9. Stages'
  BY <1>5 DEF Stages
<1>10. OneWriter'
  BY <1>5 DEF OneWriter
<1>11. \A i \in Id : place'[i] # 0 <=> db.apps[i] # "none"
  BY <1>1, <1>2
<1>12. Image(place', status') = db.apps
  BY <1>1, <1>3, <1>11 DEF Image
<1>13. Sound(db.apps)' /\ Sound(status)' /\ Sound(NoApps)'
  BY <1>1, <1>4, NoAppsFacts DEF IInv, Images, Sound, NoApps
<1>14. Images'
  <2>1. Capped(Image(place', status')) /\ Capped(db'.apps)
    BY <1>1, <1>12 DEF IInv, Images
  <2>2. \A i \in Id : place'[i] # 0 => status'[i] # "none"
    BY <1>1, <1>11
  <2>3. \A p \in Proc : Sound(task[p].apps)' /\ Capped(task'[p].apps)
    BY <1>5, <1>13, NoAppsFacts DEF Sound
  <2>4. \A p \in Proc : task'[p].op = "none"
    BY <1>5
  <2> QED
    BY <1>13, <2>1, <2>2, <2>3, <2>4 DEF Images, Capped, Count, Image
<1>15. Keeping'
  <2>1. ASSUME NEW i \in history'.confirmed
        PROVE  Kept(i)' /\ KeptBy(db.apps, i)'
    <3>1. KeptBy(db.apps, i) /\ i \in Id
      BY <1>4, <2>1 DEF IInv, Keeping
    <3> QED
      BY <1>1, <1>4, <1>11, <3>1 DEF Kept, KeptBy
  <2> QED
    BY <1>5, <2>1 DEF Keeping, Holds, Kept, KeptBy
<1>16. Converge'
  BY <1>1, <1>5, <1>12 DEF Converge, Holds, Image
<1>17. AuditTrail'
  BY <1>1 DEF IInv, AuditTrail
<1> QED
  BY <1>8, <1>9, <1>10, <1>14, <1>15, <1>16, <1>17 DEF IInv

LEMMA InitInv == Init => IInv
<1> SUFFICES ASSUME Init PROVE IInv
  OBVIOUS
<1>1. /\ place = [i \in Id |-> 0] /\ status = NoApps /\ registry = [a \in Addr |-> "none"]
      /\ mark = NoMarks /\ task = [p \in Proc |-> Idle] /\ owner = <<>>
      /\ db = [apps |-> NoApps, reg |-> registry, marks |-> NoMarks, log |-> {}]
      /\ history = [confirmed |-> {}, declined |-> {}, failed |-> FALSE]
  BY DEF Init
<1>2. NoApps \in [Id -> AppStatus] /\ NoMarks \in [Addr -> BOOLEAN] /\ Sound(NoApps) /\ Capped(NoApps)
  BY NoAppsFacts DEF NoMarks
<1>3. /\ db.apps = NoApps /\ db.reg = registry /\ db.log = {} /\ history.confirmed = {}
      /\ \A p \in Proc : task[p] = Idle
  BY <1>1
<1>4. Image(place, status) = NoApps
  BY <1>1 DEF Image, NoApps
<1> HIDE DEF NoApps, NoMarks
<1>5. Types
  BY <1>1, <1>2, IdleFacts DEF Types, Places, Database, RegStatus
<1>6. Stages /\ OneWriter
  BY <1>3, IdleFacts DEF Stages, OneWriter
<1>7. Images
  BY <1>1, <1>2, <1>3, <1>4, IdleFacts DEF Images
<1>8. Keeping /\ AuditTrail
  BY <1>1, <1>3, IdleFacts DEF Keeping, AuditTrail
<1>9. Converge
  BY <1>3, <1>4, IdleFacts DEF Converge
<1> QED
  BY <1>5, <1>6, <1>7, <1>8, <1>9 DEF IInv

LEMMA Inductive == IInv /\ [Next]_vars => IInv'
<1>1. ASSUME IInv, NEW p \in Proc, Transact(p)
      PROVE  IInv'
  BY <1>1, RegWrittenKeeps, DeletedKeeps, UsersKeep, CommitKeeps, RetryKeeps, FailKeeps
     DEF Transact
<1>2. IInv /\ Next => IInv'
  BY <1>1, RequestKeeps, RestartKeeps DEF Next
<1>3. ASSUME IInv, UNCHANGED vars
      PROVE  IInv'
  <2>1. UNCHANGED <<place, status, registry, mark, db, task, owner, history>>
    BY <1>3 DEF vars, caches
  <2>2. Types' /\ Stages' /\ OneWriter' /\ AuditTrail'
    BY <1>3, <2>1 DEF IInv, Types, Places, Stages, OneWriter, AuditTrail
  <2>3. Images'
    BY <1>3, <2>1 DEF IInv, Images, Sound, Capped, Image
  <2>4. Keeping' /\ Converge'
    BY <1>3, <2>1 DEF IInv, Keeping, Kept, KeptBy, Confirmed, Converge, Image
  <2> QED
    BY <2>2, <2>3, <2>4 DEF IInv
<1> QED
  BY <1>2, <1>3

LEMMA Invariance == Spec => []IInv
  BY InitInv, Inductive, PTL DEF Spec

-----------------------------------------------------------------------------
LEMMA TypesFollow == IInv => TypeOK
<1> SUFFICES ASSUME IInv PROVE TypeOK
  OBVIOUS
<1>1. place \in [Id -> 0 .. 2 * MaxApps]
  <2>1. ASSUME NEW i \in Id
        PROVE  place[i] \in 0 .. 2 * MaxApps
    <3>1. place[i] \in {0, MaxApps + 1 - i, MaxApps + i} /\ i \in 1 .. MaxApps
      BY DEF IInv, Types, Places, Hydrated, Last, Id
    <3> QED
      BY <3>1, BoundAssumption
  <2>2. place \in [Id -> Nat]
    BY DEF IInv, Types, Places
  <2> QED
    BY <2>1, <2>2
<1>2. \A p \in Proc : task[p].pc \in Pcs /\ task[p].wrote \subseteq Group
  BY DEF IInv, Types, Task
<1>3. Capped(db.apps) /\ Capped(Image(place, status))
  BY DEF IInv, Images
<1> QED
  BY <1>1, <1>2, <1>3 DEF TypeOK, Capped, IInv, Types, Database

(* Types, and the cap on the rejected applications of the cache and of the *)
(* database, for any number of overlapping saves (saveApplications).       *)
THEOREM TypeCorrect == Spec => []TypeOK
  BY TypesFollow, Invariance, PTL

(* The registry of the database and its audit trail agree whatever         *)
(* overlaps, fails or crashes.                                             *)
THEOREM TrailHolds == Spec => []AuditTrail
<1>1. IInv => AuditTrail
  BY DEF IInv
<1> QED
  BY <1>1, Invariance, PTL

(* A confirmed application is never lost: the database has it, unless      *)
(* somebody set out to reject it.                                          *)
THEOREM NeverLost == Spec => []ConfirmedKept
<1>1. IInv => ConfirmedKept
  BY DEF IInv, Keeping, KeptBy, ConfirmedKept
<1> QED
  BY <1>1, Invariance, PTL

(* At rest, and with no request failed since the start, the database has   *)
(* the applications of the cache.                                          *)
THEOREM Settled == Spec => []ApplicationsSettled
<1>1. IInv => ApplicationsSettled
  <2> SUFFICES ASSUME IInv, \A p \in Proc : At(p, "idle"), ~history.failed
               PROVE  Image(place, status) = db.apps
    BY DEF ApplicationsSettled
  <2>1. \A p \in Proc : ~Dirty(task[p]) /\ ~Holds(task[p])
    BY DEF At, Dirty, Holds, IInv, Stages, Staged
  <2> QED
    BY <2>1 DEF IInv, Converge
<1> QED
  BY <1>1, Invariance, PTL
=============================================================================
