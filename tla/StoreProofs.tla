----------------------------- MODULE StoreProofs -----------------------------
(***************************************************************************)
(* Proof that the tenant records survive in the database (RecordsKept of   *)
(* MCPlatform, the part of StateStore), for any number of tenants, of      *)
(* operations and of saves that overlap, when requests wait for the start  *)
(* of the server to end.                                                   *)
(*                                                                         *)
(* The inductive invariant, StoreInv, compares three images of a record:   *)
(* that of the cache, that of the database and the one a transaction sees. *)
(***************************************************************************)
EXTENDS MCPlatform, FiniteSetTheorems, FunctionTheorems, WellFoundedInduction,
        TLAPS

-----------------------------------------------------------------------------
(* Types, and who may touch what.                                          *)

Row == [port : Nat, status : Store!Status \cup {"none", "unset"}, rev : Nat]
Contents == [user : [Addr -> Row], next : Nat, pool : SUBSET Store!Port]
SaveTask == [pc : Store!Saving \cup {"idle", "made"}, addr : Addr \cup {"none"}, port : Nat,
             rev : Nat, addrs : SUBSET Addr, todo : SUBSET Addr, view : Contents,
             wrote : SUBSET Store!Docs, stale : SUBSET Store!Docs]
Busy(p) == saves[p].pc \in Store!Saving

StoreTypes ==
  /\ cache \in Contents
  /\ stored \in [content : Contents, schema : BOOLEAN]
  /\ saves \in [Proc -> SaveTask]
  /\ said \in [Addr -> Nat] /\ gone \in [Addr -> Nat]
  /\ count \in [ops : Nat, starts : Nat, failed : BOOLEAN]

(* Only a transaction has written documents, no other has the same ones,   *)
(* and none that was committed under it; nothing goes on before the server *)
(* is up.                                                                  *)
Exclusive ==
  /\ boot # "up" => \A p \in Proc : saves[p].pc = "idle"
  /\ \A p \in Proc : /\ ~Busy(p) => saves[p].wrote = {}
                     /\ saves[p].wrote \cap saves[p].stale = {}
                     /\ saves[p].pc = "users" => /\ saves[p].wrote \subseteq saves[p].addrs
                                                 /\ saves[p].todo \subseteq saves[p].addrs
                     /\ saves[p].pc # "commit" => "ports" \notin saves[p].wrote
                     /\ Busy(p) \/ saves[p].pc = "made" => saves[p].addr \in Addr
  /\ \A p, q \in Proc : p # q => saves[p].wrote \cap saves[q].wrote = {}

(* x is as new as y, unless y is from before the last removal.             *)
Newer(x, y, g) == y.rev > g => x.rev >= y.rev

(* The records of the database.                                            *)
StoredRows ==
  \A a \in Addr : /\ said[a] > gone[a] => stored.content.user[a].rev >= said[a]
                  /\ stored.content.user[a].rev <= count.ops
                  /\ said[a] <= count.ops

(* The cache is ahead of the database; a record that was never removed and *)
(* has the same operation in both is the same.                             *)
CacheRows ==
  boot = "up" => \A a \in Addr :
    /\ Newer(cache.user[a], stored.content.user[a], gone[a])
    /\ cache.user[a].rev <= count.ops
    /\ gone[a] = 0 /\ cache.user[a].rev = stored.content.user[a].rev
         => cache.user[a] = stored.content.user[a]

(* What a transaction sees is between the two: ahead of the database where *)
(* it has written, behind it where it has not.                             *)
ViewRow(p, a) ==
  /\ saves[p].view.user[a].rev <= count.ops
  /\ Newer(cache.user[a], saves[p].view.user[a], gone[a])
  /\ a \in saves[p].wrote => Newer(saves[p].view.user[a], stored.content.user[a], gone[a])
  /\ a \notin saves[p].wrote => Newer(stored.content.user[a], saves[p].view.user[a], gone[a])
  /\ a \notin saves[p].addrs /\ a \notin saves[p].stale
       => stored.content.user[a].rev <= gone[a]
  /\ gone[a] = 0 /\ cache.user[a].rev = saves[p].view.user[a].rev
       => cache.user[a] = saves[p].view.user[a]
  /\ gone[a] = 0 /\ a \in saves[p].addrs => cache.user[a] # Store!None
  /\ gone[a] = 0 /\ a \notin saves[p].addrs
       => cache.user[a] = Store!None \/ cache.user[a].rev > 0

(* The operation a transaction saves is in the cache, and in its view once *)
(* its record has been sent.                                               *)
OwnRow(p) ==
  LET t == saves[p] IN
  /\ t.rev <= count.ops
  /\ t.rev > gone[t.addr] =>
       /\ cache.user[t.addr].rev >= t.rev
       /\ t.pc = "users" => t.addr \in t.addrs
       /\ \/ t.pc = "users" /\ t.addr \in t.todo
          \/ t.view.user[t.addr].rev >= t.rev
ViewRows == \A p \in Proc : Busy(p) => OwnRow(p) /\ \A a \in Addr : ViewRow(p, a)

(* Ports: a record is sent before the counter that is above it.            *)
PortsBelow(c) == \A a \in Addr : c.user[a].port < c.next
StoredPorts == /\ PortsBelow(stored.content)
               /\ boot = "up" => PortsBelow(cache) /\ stored.content.next <= cache.next
ViewPort(p) ==
  LET t == saves[p] IN
  /\ \A a \in Addr : t.view.user[a].port < cache.next
  /\ t.view.next <= cache.next
  /\ IF "ports" \in t.wrote THEN stored.content.next <= t.view.next
     ELSE t.view.next <= stored.content.next
  /\ t.pc = "commit" => PortsBelow(t.view)
ViewPorts == \A p \in Proc : Busy(p) => ViewPort(p)

(* A record that was never removed and differs from the database is still  *)
(* to be sent, or has been, by a transaction.                              *)
Carries(p, a) ==
  \/ saves[p].pc = "users" /\ a \in saves[p].todo
  \/ Busy(p) /\ a \in saves[p].wrote /\ saves[p].view.user[a] = cache.user[a]
Settles(a) == stored.content.user[a] = cache.user[a] \/ \E p \in Proc : Carries(p, a)
Settling == boot = "up" /\ ~count.failed => \A a \in Addr : gone[a] = 0 => Settles(a)

StoreInv == /\ StoreTypes /\ Exclusive /\ StoredRows /\ CacheRows /\ ViewRows
            /\ StoredPorts /\ ViewPorts /\ Settling

-----------------------------------------------------------------------------
(* What the operators of StateStore return.                                *)

LEMMA BegunTask ==
  ASSUME NEW t \in SaveTask, NEW c \in Contents, stored.content \in Contents,
         NEW b, b = Store!Begun(t, c)
  PROVE  /\ b \in SaveTask /\ b.pc = "users" /\ b.addrs = Store!Keys(c) /\ b.todo = Store!Keys(c)
         /\ b.view = stored.content /\ b.wrote = {} /\ b.stale = {}
         /\ b.addr = t.addr /\ b.rev = t.rev
<1>1. b = [t EXCEPT !.pc = "users", !.addrs = Store!Keys(c), !.todo = Store!Keys(c),
                    !.view = stored.content, !.wrote = {}, !.stale = {}]
  BY DEF Store!Begun
<1>2. Store!Keys(c) \in SUBSET Addr /\ {} \in SUBSET Store!Docs /\ "users" \in Store!Saving
  BY DEF Store!Keys, Store!Saving
<1> QED
  BY <1>1, <1>2 DEF SaveTask

LEMMA NoRow == /\ Store!None \in Row /\ Store!None.port = 0 /\ Store!None.rev = 0
               /\ Store!Ghost \in Row /\ Store!Ghost.port = 0 /\ Store!Ghost.rev = 0
  BY DEF Store!None, Store!Ghost, Store!NoPort, Row

LEMMA EmptyContents ==
  /\ Store!Empty \in Contents
  /\ \A a \in Addr : Store!Empty.user[a] = Store!None
<1>1. [a \in Addr |-> Store!None] \in [Addr -> Row] /\ {} \in SUBSET Store!Port /\ 1 \in Nat
  BY NoRow
<1> QED
  BY <1>1 DEF Store!Empty, Contents

LEMMA IdleTask ==
  /\ Store!Idle \in SaveTask /\ Store!Idle.pc = "idle" /\ Store!Idle.wrote = {}
  /\ Store!Idle.todo = {} /\ "idle" \notin Store!Saving /\ "made" \notin Store!Saving
<1>1. {} \in SUBSET Addr /\ {} \in SUBSET Store!Docs /\ 0 \in Nat
  OBVIOUS
<1>2. "idle" \notin Store!Saving /\ "made" \notin Store!Saving
  BY DEF Store!Saving
<1>3. Store!Idle \in SaveTask
  BY <1>1, EmptyContents DEF Store!Idle, SaveTask, Store!NoPort
<1> QED
  BY <1>2, <1>3 DEF Store!Idle

(* state.json: its ports are different, and below the counter.             *)
LEMMA FileContents ==
  Store!File \in Contents /\ \A a \in Addr : /\ Store!File.user[a].rev = 0
                                             /\ Store!File.user[a].port < Store!File.next
<1> DEFINE n == Cardinality(Known)
           Injections == {f \in [Known -> 1 .. n] : \A a, b \in Known : f[a] = f[b] => a = b}
<1>1. n \in Nat /\ ExistsBijection(1 .. n, Known)
  BY BoundsAssumption, FS_CardinalityType
<1>2. Injections # {}
  <2>1. ExistsBijection(Known, 1 .. n)
    BY <1>1, Fun_ExistsBijSymmetric
  <2>2. PICK f \in Bijection(Known, 1 .. n) : TRUE
    BY <2>1 DEF ExistsBijection
  <2> QED
    BY <2>2 DEF Bijection, Injection, IsInjective
<1>3. Store!Cardinality(Known) = n
  BY DEF Store!Cardinality, Cardinality
<1> HIDE DEF n
<1> DEFINE seat == CHOOSE f \in [Known -> 1 .. n] : \A a, b \in Known : f[a] = f[b] => a = b
           row(a) == IF a \in Known THEN [port |-> seat[a], status |-> "stopped", rev |-> 0]
                     ELSE Store!None
<1>4. Store!File = [user |-> [a \in Addr |-> row(a)], next |-> n + 1, pool |-> {}]
  BY <1>3 DEF Store!File
<1>5. seat \in [Known -> 1 .. n]
  BY <1>2
<1> HIDE DEF seat
<1>6. \A a \in Addr : row(a) \in Row /\ row(a).rev = 0 /\ row(a).port < n + 1
  <2>1. ASSUME NEW a \in Known
        PROVE  seat[a] \in Nat /\ seat[a] < n + 1
    BY <1>1, <1>5
  <2> QED
    BY <1>1, <2>1, NoRow DEF Row, Store!Status
<1> HIDE DEF row
<1>7. [a \in Addr |-> row(a)] \in [Addr -> Row] /\ n + 1 \in Nat /\ {} \in SUBSET Store!Port
  BY <1>1, <1>6
<1> QED
  BY <1>4, <1>6, <1>7 DEF Contents

-----------------------------------------------------------------------------
(* The steps.  A process goes on with task t, and neither the records nor  *)
(* what was answered change: only its own part of the invariant can.       *)

Sane(p, t) ==
  /\ t.pc \notin Store!Saving => t.wrote = {}
  /\ t.wrote \cap t.stale = {}
  /\ t.pc = "users" => t.wrote \subseteq t.addrs /\ t.todo \subseteq t.addrs
  /\ t.pc # "commit" => "ports" \notin t.wrote
  /\ t.pc \in Store!Saving \cup {"made"} => t.addr \in Addr
  /\ \A q \in Proc \ {p} : t.wrote \cap saves[q].wrote = {}

LEMMA TaskMoves ==
  ASSUME StoreInv, boot = "up", NEW p \in Proc, NEW t \in SaveTask,
         saves' = [saves EXCEPT ![p] = t], UNCHANGED <<stored, boot, said, gone>>,
         cache' \in Contents, cache'.user = cache.user, cache'.next = cache.next,
         count' \in [ops : Nat, starts : Nat, failed : BOOLEAN], count'.ops = count.ops,
         count'.failed \/ count'.failed = count.failed,
         Sane(p, t),
         t.pc \in Store!Saving => OwnRow(p)' /\ (\A a \in Addr : ViewRow(p, a)') /\ ViewPort(p)',
         count'.failed \/ \A a \in Addr : gone[a] = 0 /\ Carries(p, a)
           => Carries(p, a)' \/ stored.content.user[a] = cache.user[a]
  PROVE  StoreInv'
<1>1. /\ StoreTypes /\ Exclusive /\ StoredRows /\ CacheRows /\ ViewRows
      /\ StoredPorts /\ ViewPorts /\ Settling
  BY DEF StoreInv
<1>2. /\ saves' \in [Proc -> SaveTask] /\ saves'[p] = t
      /\ \A q \in Proc : q # p => saves'[q] = saves[q]
  BY <1>1 DEF StoreTypes
<1>3. StoreTypes'
  BY <1>1, <1>2 DEF StoreTypes
<1>4. Exclusive'
  BY <1>1, <1>2 DEF Exclusive, Sane, Busy
<1>5. StoredRows' /\ CacheRows' /\ StoredPorts'
  BY <1>1 DEF StoredRows, CacheRows, Newer, StoredPorts, PortsBelow
<1>6. ViewRows'
  <2> SUFFICES ASSUME NEW q \in Proc, Busy(q)'
               PROVE  OwnRow(q)' /\ \A a \in Addr : ViewRow(q, a)'
    BY DEF ViewRows
  <2>1. CASE q = p
    BY <1>2, <2>1 DEF Busy
  <2>2. CASE q # p
    <3>1. saves'[q] = saves[q] /\ Busy(q)
      BY <1>2, <2>2 DEF Busy
    <3>2. OwnRow(q) /\ \A a \in Addr : ViewRow(q, a)
      BY <1>1, <3>1 DEF ViewRows
    <3> QED
      BY <3>1, <3>2 DEF OwnRow, ViewRow, Newer
  <2> QED
    BY <2>1, <2>2
<1>7. ViewPorts'
  <2> SUFFICES ASSUME NEW q \in Proc, Busy(q)'
               PROVE  ViewPort(q)'
    BY DEF ViewPorts
  <2>1. CASE q = p
    BY <1>2, <2>1 DEF Busy
  <2>2. CASE q # p
    <3>1. saves'[q] = saves[q] /\ ViewPort(q)
      BY <1>1, <1>2, <2>2 DEF Busy, ViewPorts
    <3> QED
      BY <3>1 DEF ViewPort, PortsBelow
  <2> QED
    BY <2>1, <2>2
<1>8. Settling'
  <2> SUFFICES ASSUME ~count'.failed, NEW a \in Addr, gone[a] = 0 PROVE Settles(a)'
    BY DEF Settling
  <2>1. Settles(a)
    BY <1>1 DEF Settling
  <2>2. CASE stored.content.user[a] = cache.user[a]
    BY <2>2 DEF Settles
  <2>3. ASSUME NEW q \in Proc, Carries(q, a) PROVE Settles(a)'
    <3>1. CASE q = p
      BY <2>3, <3>1 DEF Settles
    <3>2. CASE q # p
      BY <1>2, <2>3, <3>2 DEF Settles, Carries, Busy
    <3> QED
      BY <3>1, <3>2
  <2> QED
    BY <2>1, <2>2, <2>3 DEF Settles
<1> QED
  BY <1>3, <1>4, <1>5, <1>6, <1>7, <1>8 DEF StoreInv

LEMMA Upward == StoreInv => \A p \in Proc : saves[p].pc # "idle" => boot = "up"
  BY DEF StoreInv, Exclusive

(* The pool's smallest port is one of the pool.                            *)
LEMMA LeastPort ==
  ASSUME NEW S \in SUBSET Store!Port, S # {}
  PROVE  Store!Min(S) \in S
<1>1. S \subseteq Nat
  BY DEF Store!Port
<1>2. PICK n \in S : \A m \in S : ~(<<m, n>> \in OpToRel(<,Nat))
  BY <1>1, NatLessThanWellFounded, WFMin, Zenon
<1>3. ASSUME NEW m \in S
      PROVE  n <= m
  <2>1. ~(m < n)
    BY <1>1, <1>2, Zenon DEF OpToRel
  <2> QED
    BY <1>1, <2>1
<1> QED
  BY <1>3 DEF Store!Min

(* A port is taken, or a save has failed: nothing is being saved.          *)
LEMMA StoreIdle ==
  ASSUME StoreInv, "early" \notin Faults, NEW p \in Proc,
         Store!Fail(p) \/ \E a \in Addr : Store!TakePort(p, a)
  PROVE  StoreInv'
<1>1. StoreTypes /\ Exclusive /\ saves[p] \in SaveTask
  BY DEF StoreInv, StoreTypes
<1>2. ASSUME NEW t \in SaveTask, t.wrote = {}, t.pc \in {"idle", "made"},
             t.pc = "made" => t.addr \in Addr
      PROVE  Sane(p, t)
  BY <1>2, IdleTask DEF Sane
<1>3. ASSUME Store!Fail(p) PROVE StoreInv'
  <2>1. /\ saves[p].pc \in Store!Saving /\ saves' = [saves EXCEPT ![p] = Store!Idle]
        /\ count' = [count EXCEPT !.failed = TRUE]
        /\ UNCHANGED <<cache, stored, boot, said, gone>>
    BY <1>3 DEF Store!Fail, Store!Become
  <2>2. boot = "up"
    BY <2>1, Upward, IdleTask
  <2>3. count' \in [ops : Nat, starts : Nat, failed : BOOLEAN] /\ count'.ops = count.ops /\ count'.failed
    <3>1. TRUE \in BOOLEAN
      OBVIOUS
    <3> QED
      BY <1>1, <2>1, <3>1 DEF StoreTypes
  <2>4. cache' \in Contents
    BY <1>1, <2>1 DEF StoreTypes
  <2>5. Sane(p, Store!Idle) /\ Store!Idle \in SaveTask /\ Store!Idle.pc \notin Store!Saving
    BY <1>2, IdleTask
  <2> QED
    BY <2>1, <2>2, <2>3, <2>4, <2>5, TaskMoves
<1>4. ASSUME NEW a \in Addr, Store!TakePort(p, a) PROVE StoreInv'
  <2>1. /\ boot = "up" /\ saves[p].pc = "idle"
        /\ UNCHANGED <<stored, boot, said, gone, count>>
    BY <1>4 DEF Store!TakePort, Store!Open, Store!At
  <2>2. PICK n \in (IF cache.pool # {} THEN {Store!Min(cache.pool)}
                    ELSE IF cache.user[a].port # Store!NoPort THEN {cache.user[a].port}
                    ELSE {cache.next} \cap Store!Port) :
          /\ cache' = [cache EXCEPT !.pool = @ \ {n}]
          /\ saves' = [saves EXCEPT ![p] = [Store!Idle EXCEPT !.pc = "made", !.addr = a, !.port = n]]
    BY <1>4 DEF Store!TakePort, Store!Become
  <2>3. cache \in Contents /\ cache.pool \in SUBSET Store!Port /\ cache.user[a] \in Row
    BY <1>1 DEF StoreTypes, Contents
  <2>4. n \in Nat
    BY <2>3, LeastPort DEF Row, Store!Port
  <2>5. cache' \in Contents /\ cache'.user = cache.user /\ cache'.next = cache.next
    <3>1. cache.pool \ {n} \in SUBSET Store!Port
      BY <2>3
    <3> QED
      BY <2>2, <2>3, <3>1 DEF Contents
  <2> DEFINE t == [Store!Idle EXCEPT !.pc = "made", !.addr = a, !.port = n]
  <2>6. t \in SaveTask /\ t.pc = "made" /\ t.wrote = {} /\ t.addr = a
    BY <2>4, IdleTask DEF SaveTask
  <2> HIDE DEF t
  <2>7. saves' = [saves EXCEPT ![p] = t]
    BY <2>2 DEF t
  <2>8. Sane(p, t) /\ t.pc \notin Store!Saving
    BY <1>2, <2>6, IdleTask
  <2>9. count' \in [ops : Nat, starts : Nat, failed : BOOLEAN] /\ count' = count
    BY <1>1, <2>1 DEF StoreTypes
  <2>10. \A b \in Addr : ~Carries(p, b)
    BY <2>1, IdleTask DEF Carries, Busy
  <2> QED
    BY <2>1, <2>5, <2>6, <2>7, <2>8, <2>9, <2>10, TaskMoves
<1> QED
  BY <1>3, <1>4

(* The user documents a transaction sees become f.                         *)
LEMMA PutTask ==
  ASSUME NEW t \in SaveTask, NEW f \in [Addr -> Row], NEW u, u = Store!Put(t, f)
  PROVE  /\ u \in SaveTask /\ u.view.user = f /\ u.view.next = t.view.next
         /\ u.wrote = t.wrote \cup {a \in Addr : f[a] # t.view.user[a]}
         /\ u.pc = t.pc /\ u.addr = t.addr /\ u.rev = t.rev /\ u.addrs = t.addrs
         /\ u.todo = t.todo /\ u.stale = t.stale
<1> DEFINE W == t.wrote \cup {a \in Addr : f[a] # t.view.user[a]}
           v == [t.view EXCEPT !.user = f]
<1>1. t.view \in Contents /\ t.wrote \in SUBSET Store!Docs
  BY DEF SaveTask
<1>2. v \in Contents /\ v.user = f /\ v.next = t.view.next
  BY <1>1 DEF Contents
<1>3. W \in SUBSET Store!Docs
  BY <1>1 DEF Store!Docs
<1>4. u = [t EXCEPT !.view = v, !.wrote = W]
  BY DEF Store!Put, SaveTask
<1> HIDE DEF v, W
<1>5. u \in SaveTask /\ u.view = v /\ u.wrote = W
  BY <1>2, <1>3, <1>4 DEF SaveTask
<1>6. /\ u.pc = t.pc /\ u.addr = t.addr /\ u.rev = t.rev /\ u.addrs = t.addrs
      /\ u.todo = t.todo /\ u.stale = t.stale
  BY <1>4 DEF SaveTask
<1> QED
  BY <1>2, <1>5, <1>6 DEF W

LEMMA NoConflict ==
  ASSUME NEW p \in Proc, NEW D, ~Store!Conflict(p, D)
  PROVE  D \cap saves[p].stale = {} /\ \A q \in Proc \ {p} : D \cap saves[q].wrote = {}
  BY DEF Store!Conflict

(* The next user document is sent.                                         *)
LEMMA StoreUserSent ==
  ASSUME StoreInv, NEW p \in Proc, NEW a \in Addr, Store!UserSent(p, a)
  PROVE  StoreInv'
<1> DEFINE t == saves[p]
           f == [t.view.user EXCEPT ![a] = Store!Doc(a)]
           u == Store!Put(t, f)
           w == [u EXCEPT !.todo = @ \ {a}]
<1>1. /\ StoreTypes /\ Exclusive /\ CacheRows /\ ViewRows /\ ViewPorts /\ StoredPorts
  BY DEF StoreInv
<1>2. /\ t.pc = "users" /\ a \in t.todo /\ ~Store!Conflict(p, u.wrote \ t.wrote)
      /\ saves' = [saves EXCEPT ![p] = w]
      /\ UNCHANGED <<cache, stored, boot, said, gone, count>>
  BY DEF Store!UserSent, Store!At, Store!Become
<1>3. boot = "up" /\ t \in SaveTask /\ cache.user \in [Addr -> Row] /\ Busy(p)
  BY <1>1, <1>2, Upward DEF StoreTypes, Contents, Busy, Store!Saving
<1>4. Store!Doc(a) \in Row /\ Store!Doc(a).rev = cache.user[a].rev
      /\ Store!Doc(a).port <= cache.user[a].port
      /\ (cache.user[a] # Store!None => Store!Doc(a) = cache.user[a])
  BY <1>3, NoRow DEF Store!Doc, Row
<1>5. f \in [Addr -> Row] /\ f[a] = Store!Doc(a) /\ \A b \in Addr : b # a => f[b] = t.view.user[b]
  BY <1>3, <1>4 DEF SaveTask, Contents
<1> HIDE DEF f
<1>6. /\ u \in SaveTask /\ u.view.user = f /\ u.view.next = t.view.next
      /\ u.wrote = t.wrote \cup {b \in Addr : f[b] # t.view.user[b]}
      /\ u.pc = t.pc /\ u.addr = t.addr /\ u.rev = t.rev /\ u.addrs = t.addrs
      /\ u.todo = t.todo /\ u.stale = t.stale
  BY <1>3, <1>5, PutTask
<1> HIDE DEF u
<1>7. /\ w \in SaveTask /\ w.todo = t.todo \ {a} /\ w.view = u.view /\ w.wrote = u.wrote
      /\ w.pc = t.pc /\ w.addr = t.addr /\ w.rev = t.rev /\ w.addrs = t.addrs
      /\ w.stale = t.stale
  <2>1. u.todo \ {a} \in SUBSET Addr
    BY <1>6 DEF SaveTask
  <2> QED
    BY <1>6, <2>1 DEF SaveTask
<1>8. w.wrote = t.wrote \cup {b \in {a} : f[a] # t.view.user[a]} /\ w.view.user = f
      /\ w.view.next = t.view.next
  BY <1>5, <1>6, <1>7
<1>9. saves'[p] = w
  BY <1>1, <1>2 DEF StoreTypes
<1>10. /\ (w.wrote \ t.wrote) \cap t.stale = {}
       /\ \A q \in Proc \ {p} : (w.wrote \ t.wrote) \cap saves[q].wrote = {}
  BY <1>2, <1>7, NoConflict
<1> HIDE DEF w
<1>11. /\ t.wrote \cap t.stale = {} /\ t.wrote \subseteq t.addrs /\ t.todo \subseteq t.addrs
       /\ "ports" \notin t.wrote /\ t.addr \in Addr
       /\ \A q \in Proc \ {p} : t.wrote \cap saves[q].wrote = {}
  BY <1>1, <1>2, <1>3 DEF Exclusive
<1>12. Sane(p, w)
  <2>1. w.wrote \subseteq t.addrs /\ "ports" \notin w.wrote
    BY <1>2, <1>8, <1>11, BoundsAssumption
  <2>2. w.wrote \cap w.stale = {} /\ \A q \in Proc \ {p} : w.wrote \cap saves[q].wrote = {}
    BY <1>7, <1>10, <1>11
  <2> QED
    BY <1>2, <1>7, <1>11, <2>1, <2>2 DEF Sane, Store!Saving
<1>13. OwnRow(p) /\ (\A b \in Addr : ViewRow(p, b)) /\ ViewPort(p)
  BY <1>1, <1>3 DEF ViewRows, ViewPorts
<1>14. OwnRow(p)'
  BY <1>2, <1>4, <1>5, <1>7, <1>8, <1>9, <1>11, <1>13 DEF OwnRow
<1>15. ASSUME NEW b \in Addr PROVE ViewRow(p, b)'
  <2>1. CASE b = a
    <3>1. Newer(cache.user[a], stored.content.user[a], gone[a])
          /\ (gone[a] = 0 /\ cache.user[a].rev = stored.content.user[a].rev
                => cache.user[a] = stored.content.user[a])
          /\ cache.user[a].rev <= count.ops
      BY <1>1, <1>3 DEF CacheRows
    <3>2. gone[a] = 0 => cache.user[a] # Store!None
      BY <1>2, <1>11, <1>13 DEF ViewRow
    <3>3. a \in w.wrote \/ (f[a] = t.view.user[a] /\ a \notin t.wrote)
      BY <1>8
    <3>4. f[a].rev = cache.user[a].rev /\ (gone[a] = 0 => f[a] = cache.user[a])
      BY <1>4, <1>5, <3>2
    <3>5. /\ f[a].rev <= count.ops /\ Newer(cache.user[a], f[a], gone[a])
          /\ Newer(f[a], stored.content.user[a], gone[a])
      <4>1. cache.user[a].rev \in Nat
        BY <1>3 DEF Row
      <4> QED
        BY <3>1, <3>4, <4>1 DEF Newer
    <3>6. a \notin w.wrote => Newer(stored.content.user[a], f[a], gone[a])
      BY <1>13, <3>3 DEF ViewRow
    <3>7. a \in t.addrs
      BY <1>2, <1>11
    <3>8. saves'[p].view.user[a] = f[a] /\ saves'[p].wrote = w.wrote /\ saves'[p].addrs = t.addrs
      BY <1>7, <1>8, <1>9
    <3> QED
      BY <1>2, <2>1, <3>2, <3>4, <3>5, <3>6, <3>7, <3>8 DEF ViewRow
  <2>2. CASE b # a
    BY <1>2, <1>5, <1>7, <1>8, <1>9, <1>13, <2>2 DEF ViewRow, Newer
  <2> QED
    BY <2>1, <2>2
<1>16. ViewPort(p)'
  <2>1. \A b \in Addr : f[b].port < cache.next
    <3>1. cache.user[a].port < cache.next /\ cache.next \in Nat /\ cache.user[a].port \in Nat
      BY <1>1, <1>3 DEF StoredPorts, PortsBelow, StoreTypes, Contents, Row
    <3>2. Store!Doc(a).port \in Nat
      BY <1>4 DEF Row
    <3> QED
      BY <1>4, <1>5, <1>13, <3>1, <3>2 DEF ViewPort
  <2>2. "ports" \notin w.wrote
    BY <1>2, <1>7, <1>12 DEF Sane
  <2> QED
    BY <1>2, <1>7, <1>8, <1>9, <1>11, <1>13, <2>1, <2>2 DEF ViewPort
<1>17. ASSUME NEW b \in Addr, gone[b] = 0, Carries(p, b)
       PROVE  Carries(p, b)' \/ stored.content.user[b] = cache.user[b]
  <2>1. CASE b # a
    BY <1>2, <1>3, <1>5, <1>7, <1>8, <1>9, <1>17, <2>1 DEF Carries, Busy
  <2>2. CASE b = a
    <3>1. cache.user[a] # Store!None /\ f[a] = cache.user[a]
      BY <1>2, <1>4, <1>5, <1>11, <1>13, <1>17, <2>2 DEF ViewRow
    <3>2. CASE a \in w.wrote
      BY <1>2, <1>3, <1>7, <1>8, <1>9, <2>2, <3>1, <3>2 DEF Carries, Busy
    <3>3. CASE a \notin w.wrote
      <4>1. a \notin t.wrote /\ t.view.user[a] = cache.user[a]
        BY <1>8, <3>1, <3>3
      <4>2. Newer(stored.content.user[a], cache.user[a], 0) /\ Newer(cache.user[a], stored.content.user[a], 0)
        BY <1>1, <1>3, <1>13, <1>17, <2>2, <4>1 DEF ViewRow, CacheRows
      <4>3. stored.content.user[a].rev \in Nat /\ cache.user[a].rev \in Nat
        BY <1>1 DEF StoreTypes, Contents, Row
      <4>4. stored.content.user[a].rev = cache.user[a].rev
        BY <4>2, <4>3 DEF Newer
      <4> QED
        BY <1>1, <1>3, <1>17, <2>2, <4>4 DEF CacheRows
    <3> QED
      BY <3>2, <3>3
  <2> QED
    BY <2>1, <2>2
<1>18. cache' \in Contents /\ count' \in [ops : Nat, starts : Nat, failed : BOOLEAN]
  BY <1>1, <1>2 DEF StoreTypes
<1> QED
  BY <1>2, <1>3, <1>7, <1>12, <1>14, <1>15, <1>16, <1>17, <1>18, TaskMoves

(* The users that were not in the cache at the begin are deleted.          *)
LEMMA StoreOthersDeleted ==
  ASSUME StoreInv, NEW p \in Proc, Store!OthersDeleted(p)
  PROVE  StoreInv'
<1> DEFINE t == saves[p]
           f == [a \in Addr |-> IF a \in t.addrs THEN t.view.user[a] ELSE Store!None]
           u == Store!Put(t, f)
           w == [u EXCEPT !.pc = "ports"]
<1>1. /\ StoreTypes /\ Exclusive /\ CacheRows /\ ViewRows /\ ViewPorts /\ StoredPorts
  BY DEF StoreInv
<1>2. /\ t.pc = "users" /\ t.todo = {} /\ ~Store!Conflict(p, u.wrote \ t.wrote)
      /\ saves' = [saves EXCEPT ![p] = w]
      /\ UNCHANGED <<cache, stored, boot, said, gone, count>>
  BY DEF Store!OthersDeleted, Store!At, Store!Become
<1>3. boot = "up" /\ t \in SaveTask /\ cache.user \in [Addr -> Row] /\ Busy(p)
  BY <1>1, <1>2, Upward DEF StoreTypes, Contents, Busy, Store!Saving
<1>4. f \in [Addr -> Row] /\ \A b \in Addr : f[b] = IF b \in t.addrs THEN t.view.user[b] ELSE Store!None
  BY <1>3, NoRow DEF SaveTask, Contents
<1> HIDE DEF f
<1>5. /\ u \in SaveTask /\ u.view.user = f /\ u.view.next = t.view.next
      /\ u.wrote = t.wrote \cup {b \in Addr : f[b] # t.view.user[b]}
      /\ u.pc = t.pc /\ u.addr = t.addr /\ u.rev = t.rev /\ u.addrs = t.addrs
      /\ u.todo = t.todo /\ u.stale = t.stale
  BY <1>3, <1>4, PutTask
<1> HIDE DEF u
<1>6. /\ w \in SaveTask /\ w.pc = "ports" /\ w.todo = {} /\ w.view = u.view /\ w.wrote = u.wrote
      /\ w.addr = t.addr /\ w.rev = t.rev /\ w.addrs = t.addrs /\ w.stale = t.stale
  BY <1>2, <1>5 DEF SaveTask, Store!Saving
<1>7. saves'[p] = w
  BY <1>1, <1>2 DEF StoreTypes
<1>8. /\ (w.wrote \ t.wrote) \cap t.stale = {}
      /\ \A q \in Proc \ {p} : (w.wrote \ t.wrote) \cap saves[q].wrote = {}
  BY <1>2, <1>6, NoConflict
<1> HIDE DEF w
<1>9. /\ t.wrote \cap t.stale = {} /\ t.wrote \subseteq t.addrs
      /\ "ports" \notin t.wrote /\ t.addr \in Addr
      /\ \A q \in Proc \ {p} : t.wrote \cap saves[q].wrote = {}
  BY <1>1, <1>2, <1>3 DEF Exclusive
<1>10. Sane(p, w)
  <2>1. "ports" \notin w.wrote
    BY <1>5, <1>6, <1>9, BoundsAssumption
  <2>2. w.wrote \cap w.stale = {} /\ \A q \in Proc \ {p} : w.wrote \cap saves[q].wrote = {}
    BY <1>6, <1>8, <1>9
  <2> QED
    BY <1>6, <1>9, <2>1, <2>2 DEF Sane, Store!Saving
<1>11. OwnRow(p) /\ (\A b \in Addr : ViewRow(p, b)) /\ ViewPort(p)
  BY <1>1, <1>3 DEF ViewRows, ViewPorts
<1>12. OwnRow(p)'
  BY <1>2, <1>4, <1>5, <1>6, <1>7, <1>9, <1>11 DEF OwnRow
<1>13. ASSUME NEW b \in Addr PROVE ViewRow(p, b)'
  <2>1. /\ saves'[p].view.user[b] = f[b] /\ saves'[p].wrote = w.wrote
        /\ saves'[p].addrs = t.addrs /\ saves'[p].stale = t.stale
    BY <1>5, <1>6, <1>7
  <2>2. CASE b \in t.addrs
    <3>1. f[b] = t.view.user[b] /\ (b \in w.wrote <=> b \in t.wrote)
      BY <1>4, <1>5, <1>6, <2>2
    <3> QED
      BY <1>2, <1>11, <2>1, <3>1 DEF ViewRow, Newer
  <2>3. CASE b \notin t.addrs
    <3>1. f[b] = Store!None /\ Store!None.rev = 0 /\ b \notin t.wrote
      BY <1>4, <1>9, <2>3, NoRow
    <3>2. b \in w.wrote => stored.content.user[b].rev <= gone[b]
      BY <1>8, <1>11, <2>3, <3>1 DEF ViewRow
    <3>3. /\ gone[b] \in Nat /\ count.ops \in Nat /\ stored.content.user[b].rev \in Nat
          /\ cache.user[b].rev \in Nat
      BY <1>1 DEF StoreTypes, Contents, Row
    <3>4. /\ Newer(cache.user[b], f[b], gone[b]) /\ Newer(stored.content.user[b], f[b], gone[b])
          /\ f[b].rev <= count.ops
          /\ b \in w.wrote => Newer(f[b], stored.content.user[b], gone[b])
      BY <3>1, <3>2, <3>3 DEF Newer
    <3>5. gone[b] = 0 /\ cache.user[b].rev = f[b].rev => cache.user[b] = f[b]
      BY <1>11, <2>3, <3>1, <3>3 DEF ViewRow
    <3> QED
      BY <1>2, <1>11, <2>1, <2>3, <3>4, <3>5 DEF ViewRow
  <2> QED
    BY <2>2, <2>3
<1>14. ViewPort(p)'
  <2>1. ASSUME NEW b \in Addr PROVE f[b].port < cache.next
    <3>1. cache.user[b].port < cache.next /\ cache.next \in Nat /\ cache.user[b].port \in Nat
      BY <1>1, <1>3 DEF StoredPorts, PortsBelow, StoreTypes, Contents, Row
    <3>2. t.view.user[b].port < cache.next /\ 0 < cache.next
      BY <1>11, <3>1 DEF ViewPort
    <3> QED
      BY <1>4, <3>2, NoRow
  <2> QED
    BY <1>2, <1>5, <1>6, <1>7, <1>9, <1>10, <1>11, <2>1 DEF ViewPort, Sane
<1>15. ASSUME NEW b \in Addr, Carries(p, b)
       PROVE  Carries(p, b)'
  <2>1. b \in t.wrote /\ t.view.user[b] = cache.user[b]
    BY <1>2, <1>15 DEF Carries
  <2>2. b \in w.wrote /\ w.view.user[b] = cache.user[b]
    BY <1>4, <1>5, <1>6, <1>9, <2>1
  <2> QED
    BY <1>2, <1>6, <1>7, <2>2 DEF Carries, Busy, Store!Saving
<1>16. cache' \in Contents /\ count' \in [ops : Nat, starts : Nat, failed : BOOLEAN]
  BY <1>1, <1>2 DEF StoreTypes
<1> QED
  BY <1>2, <1>3, <1>6, <1>10, <1>12, <1>13, <1>14, <1>15, <1>16, TaskMoves

(* The ports are sent.                                                     *)
LEMMA StorePortsSent ==
  ASSUME StoreInv, NEW p \in Proc, Store!PortsSent(p)
  PROVE  StoreInv'
<1> DEFINE t == saves[p]
           same == t.view.next = cache.next /\ t.view.pool = cache.pool
           v == [t.view EXCEPT !.next = cache.next, !.pool = cache.pool]
           W == IF same THEN t.wrote ELSE t.wrote \cup {"ports"}
           w == [t EXCEPT !.view = v, !.wrote = W, !.pc = "commit"]
<1>1. /\ StoreTypes /\ Exclusive /\ CacheRows /\ ViewRows /\ ViewPorts /\ StoredPorts
  BY DEF StoreInv
<1>2. /\ t.pc = "ports" /\ (same \/ ~Store!Conflict(p, {"ports"}))
      /\ saves' = [saves EXCEPT ![p] = w]
      /\ UNCHANGED <<cache, stored, boot, said, gone, count>>
  BY DEF Store!PortsSent, Store!At, Store!Become
<1>3. boot = "up" /\ t \in SaveTask /\ cache \in Contents /\ Busy(p)
  BY <1>1, <1>2, Upward DEF StoreTypes, Busy, Store!Saving
<1>4. v \in Contents /\ v.user = t.view.user /\ v.next = cache.next
  BY <1>3 DEF SaveTask, Contents
<1>5. W \in SUBSET Store!Docs
  BY <1>3 DEF SaveTask, Store!Docs
<1> HIDE DEF v, W
<1>6. /\ w \in SaveTask /\ w.pc = "commit" /\ w.view = v /\ w.wrote = W /\ w.addr = t.addr
      /\ w.rev = t.rev /\ w.addrs = t.addrs /\ w.stale = t.stale
  BY <1>3, <1>4, <1>5 DEF SaveTask, Store!Saving
<1> HIDE DEF w
<1>7. saves'[p] = w
  BY <1>1, <1>2 DEF StoreTypes
<1>8. /\ t.wrote \cap t.stale = {} /\ "ports" \notin t.wrote /\ t.addr \in Addr
      /\ \A q \in Proc \ {p} : t.wrote \cap saves[q].wrote = {}
  BY <1>1, <1>2, <1>3 DEF Exclusive
<1>9. ASSUME NEW a \in Addr PROVE a \in W <=> a \in t.wrote
  BY BoundsAssumption DEF W
<1>10. Sane(p, w)
  <2>1. CASE same
    BY <1>6, <1>8, <2>1 DEF Sane, W, Store!Saving
  <2>2. CASE ~same
    <3>1. {"ports"} \cap t.stale = {} /\ \A q \in Proc \ {p} : {"ports"} \cap saves[q].wrote = {}
      BY <1>2, <2>2, NoConflict
    <3>2. W \cap t.stale = {} /\ \A q \in Proc \ {p} : W \cap saves[q].wrote = {}
      BY <1>8, <2>2, <3>1 DEF W
    <3> QED
      BY <1>6, <1>8, <3>2 DEF Sane, Store!Saving
  <2> QED
    BY <2>1, <2>2
<1>11. OwnRow(p) /\ (\A b \in Addr : ViewRow(p, b)) /\ ViewPort(p)
  BY <1>1, <1>3 DEF ViewRows, ViewPorts
<1>12. OwnRow(p)'
  BY <1>2, <1>4, <1>6, <1>7, <1>11 DEF OwnRow
<1>13. ASSUME NEW b \in Addr PROVE ViewRow(p, b)'
  BY <1>2, <1>4, <1>6, <1>7, <1>9, <1>11 DEF ViewRow, Newer
<1>14. ViewPort(p)'
  <2>1. \A a \in Addr : v.user[a].port < v.next
    BY <1>4, <1>11 DEF ViewPort
  <2>2. stored.content.next <= cache.next
    BY <1>1, <1>3 DEF StoredPorts
  <2>3. "ports" \notin W => cache.next <= stored.content.next
    BY <1>8, <1>11 DEF W, ViewPort
  <2>4. cache.next <= cache.next
    BY <1>3 DEF Contents
  <2> QED
    BY <1>2, <1>4, <1>6, <1>7, <2>1, <2>2, <2>3, <2>4 DEF ViewPort, PortsBelow
<1>15. ASSUME NEW b \in Addr, Carries(p, b)
       PROVE  Carries(p, b)'
  BY <1>2, <1>4, <1>6, <1>7, <1>9, <1>15 DEF Carries, Busy, Store!Saving
<1>16. cache' \in Contents /\ count' \in [ops : Nat, starts : Nat, failed : BOOLEAN]
  BY <1>1, <1>2 DEF StoreTypes
<1> QED
  BY <1>2, <1>3, <1>6, <1>10, <1>12, <1>13, <1>14, <1>15, <1>16, TaskMoves

(* A transaction begins with cache c, the records of the database in view: *)
(* p's part of the invariant holds with it, if c is ahead of the database. *)
LEMMA StoreBegun ==
  ASSUME StoreTypes, StoredRows', StoredPorts', CacheRows', boot' = "up", UNCHANGED stored,
         NEW p \in Proc, NEW c \in Contents, cache' = c, count'.ops \in Nat,
         NEW b \in SaveTask, saves'[p] = b, gone' \in [Addr -> Nat],
         b.pc = "users", b.addrs = Store!Keys(c), b.todo = Store!Keys(c),
         b.view = stored.content, b.wrote = {}, b.stale = {}, b.addr \in Addr,
         b.rev <= count'.ops, b.rev > gone'[b.addr] => c.user[b.addr].rev >= b.rev
  PROVE  OwnRow(p)' /\ (\A a \in Addr : ViewRow(p, a)') /\ ViewPort(p)'
<1>1. c.user \in [Addr -> Row] /\ stored.content \in Contents
  BY DEF StoreTypes, Contents
<1>2. OwnRow(p)'
  <2>1. ASSUME b.rev > gone'[b.addr] PROVE b.addr \in Store!Keys(c)
    <3>1. c.user[b.addr].rev > 0
      BY <1>1, <2>1 DEF SaveTask, Row
    <3> QED
      BY <3>1, NoRow DEF Store!Keys
  <2> QED
    BY <2>1 DEF OwnRow
<1>3. ASSUME NEW a \in Addr PROVE ViewRow(p, a)'
  <2>1. /\ Newer(c.user[a], stored.content.user[a], gone'[a])
        /\ gone'[a] = 0 /\ c.user[a].rev = stored.content.user[a].rev
             => c.user[a] = stored.content.user[a]
        /\ stored.content.user[a].rev <= count'.ops
    BY DEF CacheRows, StoredRows, Newer
  <2>2. Newer(stored.content.user[a], stored.content.user[a], gone'[a])
    BY <1>1 DEF Newer, Contents, Row
  <2>3. a \in Store!Keys(c) <=> c.user[a] # Store!None
    BY DEF Store!Keys
  <2>4. a \notin Store!Keys(c) => stored.content.user[a].rev <= gone'[a]
    <3> SUFFICES ASSUME c.user[a] = Store!None PROVE stored.content.user[a].rev <= gone'[a]
      BY <2>3
    <3>1. c.user[a].rev = 0 /\ stored.content.user[a].rev \in Nat /\ gone'[a] \in Nat
      BY <1>1, NoRow DEF Contents, Row
    <3> QED
      BY <2>1, <3>1 DEF Newer
  <2> QED
    BY <2>1, <2>2, <2>3, <2>4 DEF ViewRow, Newer
<1>4. ViewPort(p)'
  <2>1. stored.content.next <= c.next /\ c.next \in Nat /\ stored.content.next \in Nat
    BY <1>1 DEF StoredPorts, Contents
  <2>2. ASSUME NEW a \in Addr PROVE stored.content.user[a].port < c.next
    <3>1. stored.content.user[a].port < stored.content.next
      BY DEF StoredPorts, PortsBelow
    <3> QED
      BY <1>1, <2>1, <3>1 DEF Contents, Row
  <2> QED
    BY <2>1, <2>2 DEF ViewPort
<1> QED
  BY <1>2, <1>3, <1>4

(* A conflict: the callback runs again.                                    *)
LEMMA StoreRetry ==
  ASSUME StoreInv, NEW p \in Proc, Store!Retry(p)
  PROVE  StoreInv'
<1> DEFINE t == saves[p]
           b == Store!Begun(t, cache)
<1>1. /\ StoreTypes /\ Exclusive /\ CacheRows /\ ViewRows /\ ViewPorts /\ StoredPorts /\ StoredRows
  BY DEF StoreInv
<1>2. /\ t.pc \in {"users", "ports"} /\ saves' = [saves EXCEPT ![p] = b]
      /\ UNCHANGED <<cache, stored, boot, said, gone, count>>
  BY DEF Store!Retry, Store!Become
<1>3. boot = "up" /\ t \in SaveTask /\ cache \in Contents /\ Busy(p) /\ stored.content \in Contents
  BY <1>1, <1>2, Upward DEF StoreTypes, Busy, Store!Saving
<1>4. /\ b \in SaveTask /\ b.pc = "users" /\ b.addrs = Store!Keys(cache)
      /\ b.todo = Store!Keys(cache) /\ b.view = stored.content /\ b.wrote = {}
      /\ b.stale = {} /\ b.addr = t.addr /\ b.rev = t.rev
  BY <1>3, BegunTask
<1> HIDE DEF b
<1>5. saves'[p] = b
  BY <1>1, <1>2 DEF StoreTypes
<1>6. t.addr \in Addr
  BY <1>1, <1>3 DEF Exclusive
<1>7. Sane(p, b)
  BY <1>4, <1>6 DEF Sane
<1>8. OwnRow(p) /\ \A a \in Addr : ViewRow(p, a)
  BY <1>1, <1>3 DEF ViewRows
<1>9. OwnRow(p)' /\ (\A a \in Addr : ViewRow(p, a)') /\ ViewPort(p)'
  <2>1. StoredRows' /\ StoredPorts' /\ CacheRows'
    BY <1>1, <1>2 DEF StoredRows, StoredPorts, CacheRows, PortsBelow, Newer
  <2>2. t.rev <= count.ops /\ (t.rev > gone[t.addr] => cache.user[t.addr].rev >= t.rev)
    BY <1>8 DEF OwnRow
  <2>3. count.ops \in Nat /\ gone \in [Addr -> Nat]
    BY <1>1 DEF StoreTypes
  <2> QED
    BY <1>1, <1>2, <1>3, <1>4, <1>5, <1>6, <2>1, <2>2, <2>3, StoreBegun
<1>10. ASSUME NEW a \in Addr, gone[a] = 0, Carries(p, a)
       PROVE  Carries(p, a)' \/ stored.content.user[a] = cache.user[a]
  <2>1. CASE cache.user[a] # Store!None
    <3>1. a \in b.todo
      BY <1>4, <2>1 DEF Store!Keys
    <3> QED
      BY <1>4, <1>5, <3>1 DEF Carries
  <2>2. CASE cache.user[a] = Store!None
    <3>1. cache.user[a].rev = 0 /\ stored.content.user[a].rev \in Nat
      BY <1>3, <2>2, NoRow DEF Contents, Row
    <3>2. stored.content.user[a].rev = 0
      BY <1>1, <1>3, <1>10, <3>1 DEF CacheRows, Newer
    <3> QED
      BY <1>1, <1>3, <1>10, <3>1, <3>2 DEF CacheRows
  <2> QED
    BY <2>1, <2>2
<1>11. cache' \in Contents /\ count' \in [ops : Nat, starts : Nat, failed : BOOLEAN]
  BY <1>1, <1>2 DEF StoreTypes
<1> QED
  BY <1>2, <1>3, <1>4, <1>7, <1>9, <1>10, <1>11, TaskMoves

(* An operation on a has changed the cache to c, and begins its save.      *)
LEMMA StoreSaved ==
  ASSUME StoreInv, boot = "up", NEW p \in Proc, NEW a \in Addr, NEW c \in Contents, NEW n,
         n = count.ops + 1, ~Busy(p), Store!Save(p, a, c, n), Store!Count,
         UNCHANGED <<stored, boot, said>>,
         \A x \in Addr : x # a => c.user[x] = cache.user[x],
         \/ c.user[a].rev = n /\ UNCHANGED gone
         \/ c.user[a] = Store!None /\ gone' = [gone EXCEPT ![a] = n],
         cache.next <= c.next, PortsBelow(c)
  PROVE  StoreInv'
<1> DEFINE t == [Store!Idle EXCEPT !.addr = a, !.rev = n]
           b == Store!Begun(t, c)
<1>1. /\ StoreTypes /\ Exclusive /\ CacheRows /\ ViewRows /\ ViewPorts /\ StoredPorts
      /\ StoredRows /\ Settling
  BY DEF StoreInv
<1>2. cache' = c /\ saves' = [saves EXCEPT ![p] = b]
  BY DEF Store!Save, Store!Become
<1>3. /\ count' \in [ops : Nat, starts : Nat, failed : BOOLEAN] /\ count'.ops = n
      /\ count'.failed = count.failed /\ n \in Nat /\ count.ops \in Nat
  BY <1>1 DEF StoreTypes, Store!Count
<1>4. t \in SaveTask /\ t.addr = a /\ t.rev = n
  BY <1>3, IdleTask DEF SaveTask
<1>5. stored.content \in Contents /\ cache \in Contents
  BY <1>1 DEF StoreTypes
<1> HIDE DEF t, b
<1>6. /\ b \in SaveTask /\ b.pc = "users" /\ b.addrs = Store!Keys(c)
      /\ b.todo = Store!Keys(c) /\ b.view = stored.content /\ b.wrote = {}
      /\ b.stale = {} /\ b.addr = a /\ b.rev = n
  <2>1. PICK s \in SaveTask : s = t
    BY <1>4
  <2>2. b = [s EXCEPT !.pc = "users", !.addrs = Store!Keys(c), !.todo = Store!Keys(c),
                      !.view = stored.content, !.wrote = {}, !.stale = {}]
    BY <2>1 DEF b, Store!Begun
  <2>3. Store!Keys(c) \in SUBSET Addr /\ {} \in SUBSET Store!Docs /\ "users" \in Store!Saving
    BY DEF Store!Keys, Store!Saving
  <2>4. b \in SaveTask
    BY <1>5, <2>2, <2>3 DEF SaveTask
  <2> QED
    BY <1>4, <2>1, <2>2, <2>4 DEF SaveTask
<1>7. /\ saves' \in [Proc -> SaveTask] /\ saves'[p] = b
      /\ \A q \in Proc : q # p => saves'[q] = saves[q]
  BY <1>1, <1>2, <1>6 DEF StoreTypes
<1>8. /\ gone' \in [Addr -> Nat] /\ \A x \in Addr : x # a => gone'[x] = gone[x]
      /\ (c.user[a].rev = n /\ gone'[a] = gone[a]) \/ (c.user[a] = Store!None /\ gone'[a] = n)
  BY <1>1, <1>3 DEF StoreTypes
<1>9. \A x \in Addr : /\ stored.content.user[x].rev \in Nat /\ stored.content.user[x].rev < n
                      /\ said[x] \in Nat /\ said[x] < n /\ gone[x] \in Nat /\ gone'[x] \in Nat
                      /\ cache.user[x].rev \in Nat /\ cache.user[x].rev < n
                      /\ c.user[x].rev \in Nat
  BY <1>1, <1>3, <1>5, <1>8 DEF StoredRows, CacheRows, StoreTypes, Contents, Row
<1>10. StoreTypes'
  BY <1>1, <1>2, <1>3, <1>7, <1>8 DEF StoreTypes
<1>11. Exclusive'
  BY <1>1, <1>6, <1>7 DEF Exclusive, Busy
<1>12. StoredRows'
  BY <1>1, <1>3, <1>8, <1>9 DEF StoredRows
<1>13. CacheRows'
  <2> SUFFICES ASSUME NEW x \in Addr
               PROVE  /\ Newer(c.user[x], stored.content.user[x], gone'[x])
                      /\ c.user[x].rev <= n
                      /\ gone'[x] = 0 /\ c.user[x].rev = stored.content.user[x].rev
                           => c.user[x] = stored.content.user[x]
    BY <1>2, <1>3 DEF CacheRows, Newer
  <2>1. CASE x # a
    BY <1>1, <1>8, <1>9, <2>1 DEF CacheRows, Newer
  <2>2. CASE x = a
    BY <1>3, <1>8, <1>9, <2>2, NoRow DEF Newer
  <2> QED
    BY <2>1, <2>2
<1>14. StoredPorts'
  <2>1. stored.content.next <= cache.next /\ PortsBelow(stored.content)
    BY <1>1 DEF StoredPorts
  <2>2. stored.content.next <= c.next
    BY <1>5, <2>1 DEF Contents
  <2> QED
    BY <1>2, <2>1, <2>2 DEF StoredPorts, PortsBelow
<1>15. OwnRow(p)' /\ (\A x \in Addr : ViewRow(p, x)') /\ ViewPort(p)'
  <2>1. b.rev <= count'.ops
    BY <1>3, <1>6
  <2>2. b.rev > gone'[b.addr] => c.user[b.addr].rev >= b.rev
    BY <1>3, <1>6, <1>8
  <2> QED
    BY <1>1, <1>2, <1>3, <1>6, <1>7, <1>8, <1>12, <1>13, <1>14, <2>1, <2>2, StoreBegun
<1>16. ASSUME NEW q \in Proc, Busy(q), q # p
       PROVE  OwnRow(q)' /\ (\A x \in Addr : ViewRow(q, x)') /\ ViewPort(q)'
  <2>1. OwnRow(q) /\ (\A x \in Addr : ViewRow(q, x)) /\ ViewPort(q) /\ saves'[q] = saves[q]
    BY <1>1, <1>7, <1>16 DEF ViewRows, ViewPorts
  <2>2. /\ saves[q].view \in Contents /\ saves[q].rev \in Nat /\ saves[q].addr \in Addr
    BY <1>1, <1>16 DEF StoreTypes, SaveTask, Exclusive
  <2>3. OwnRow(q)'
    <3> DEFINE x == saves[q].addr
    <3>1. saves[q].rev <= n /\ (saves[q].rev > gone'[x] => saves[q].rev > gone[x])
      BY <1>3, <1>8, <1>9, <2>1, <2>2 DEF OwnRow
    <3>2. saves[q].rev > gone'[x] => c.user[x].rev >= saves[q].rev
      <4>1. CASE x # a
        BY <1>8, <2>1, <2>2, <4>1 DEF OwnRow
      <4>2. CASE x = a
        <5>1. CASE c.user[a].rev = n
          BY <3>1, <4>2, <5>1
        <5>2. CASE gone'[a] = n
          <6>1. saves[q].rev <= n /\ saves[q].rev \in Nat
            BY <2>2, <3>1
          <6> HIDE DEF x
          <6>2. ~(saves[q].rev > gone'[x])
            BY <1>3, <4>2, <5>2, <6>1
          <6> QED
            BY <6>2
        <5> QED
          BY <1>8, <5>1, <5>2
      <4> QED
        BY <4>1, <4>2
    <3> QED
      BY <1>2, <1>3, <2>1, <3>1, <3>2 DEF OwnRow
  <2>4. ASSUME NEW x \in Addr PROVE ViewRow(q, x)'
    <3> DEFINE v == saves[q].view.user[x]
    <3>1. v.rev \in Nat /\ v.rev < n /\ v.rev <= n
      BY <1>3, <2>1, <2>2 DEF ViewRow, Contents, Row
    <3>2. ViewRow(q, x)
      BY <2>1
    <3>3. CASE x # a
      <4>1. c.user[x] = cache.user[x] /\ gone'[x] = gone[x]
        BY <1>8, <3>3
      <4> QED
        BY <1>2, <1>3, <2>1, <3>1, <3>2, <4>1 DEF ViewRow, Newer
    <3>4. CASE x = a /\ c.user[a].rev = n /\ gone'[a] = gone[a]
      <4>1. /\ Newer(c.user[x], v, gone'[x]) /\ c.user[x] # Store!None
            /\ c.user[x].rev # v.rev /\ c.user[x].rev > 0
        BY <1>3, <3>1, <3>4, NoRow DEF Newer
      <4> QED
        BY <1>2, <1>3, <2>1, <3>1, <3>2, <3>4, <4>1 DEF ViewRow, Newer
    <3>5. CASE x = a /\ gone'[a] = n
      <4>1. /\ ~(v.rev > gone'[x]) /\ ~(stored.content.user[x].rev > gone'[x])
            /\ stored.content.user[x].rev <= gone'[x] /\ gone'[x] # 0
        BY <1>3, <1>9, <3>1, <3>5
      <4> QED
        BY <1>2, <1>3, <2>1, <3>1, <4>1 DEF ViewRow, Newer
    <3> QED
      BY <1>8, <3>3, <3>4, <3>5
  <2>5. ViewPort(q)'
    <3>1. ASSUME NEW x \in Addr PROVE saves[q].view.user[x].port < c.next
      BY <1>5, <2>1, <2>2 DEF ViewPort, Contents, Row
    <3>2. saves[q].view.next <= c.next
      BY <1>5, <2>1, <2>2 DEF ViewPort, Contents
    <3> QED
      BY <1>2, <2>1, <3>1, <3>2 DEF ViewPort, PortsBelow
  <2> QED
    BY <2>3, <2>4, <2>5
<1>17. ViewRows' /\ ViewPorts'
  BY <1>7, <1>15, <1>16 DEF ViewRows, ViewPorts, Busy
<1>18. Settling'
  <2> SUFFICES ASSUME ~count.failed, NEW x \in Addr, gone'[x] = 0 PROVE Settles(x)'
    BY <1>3 DEF Settling
  <2>1. CASE x = a
    <3>1. c.user[a].rev = n
      BY <1>3, <1>8, <2>1
    <3>2. a \in Store!Keys(c)
      BY <1>3, <3>1, NoRow DEF Store!Keys
    <3> QED
      BY <1>6, <1>7, <2>1, <3>2 DEF Settles, Carries
  <2>2. CASE x # a
    <3>1. Settles(x) /\ c.user[x] = cache.user[x]
      BY <1>1, <1>8, <2>2 DEF Settling
    <3>2. CASE stored.content.user[x] = cache.user[x]
      BY <1>2, <3>1, <3>2 DEF Settles
    <3>3. ASSUME NEW q \in Proc, Carries(q, x) PROVE Settles(x)'
      <4>1. Busy(q)
        BY <3>3 DEF Carries, Busy, Store!Saving
      <4>2. saves'[q] = saves[q]
        BY <1>7, <4>1
      <4> QED
        BY <1>2, <3>1, <3>3, <4>2 DEF Settles, Carries, Busy
    <3> QED
      BY <3>1, <3>2, <3>3 DEF Settles
  <2> QED
    BY <2>1, <2>2
<1> QED
  BY <1>10, <1>11, <1>12, <1>13, <1>14, <1>17, <1>18 DEF StoreInv

(* The operations that change a record: each begins a save.                *)
LEMMA StoreOperates ==
  ASSUME StoreInv, "early" \notin Faults, NEW p \in Proc,
         \/ Store!Recorded(p)
         \/ \E a \in Addr : Store!Stop(p, a) \/ Store!Start(p, a) \/ Store!Destroy(p, a)
                            \/ Store!Remove(p, a)
  PROVE  StoreInv'
<1>1. StoreTypes /\ Exclusive /\ StoredPorts /\ saves[p] \in SaveTask /\ cache \in Contents
  BY DEF StoreInv, StoreTypes
<1>2. PICK n \in Nat : n = count.ops + 1
  BY <1>1 DEF StoreTypes
<1>3. ASSUME Store!Recorded(p) PROVE StoreInv'
  <2>1. saves[p].pc = "made" /\ ~Busy(p) /\ boot = "up"
    BY <1>3, Upward, IdleTask DEF Store!Recorded, Store!At, Busy
  <2>2. PICK a \in Addr, k \in Nat : a = saves[p].addr /\ k = saves[p].port
    BY <1>1, <2>1 DEF Exclusive, SaveTask
  <2>3. PICK r \in Row : r = [port |-> k, status |-> "running", rev |-> n]
    BY DEF Row, Store!Status
  <2>4. PICK m \in Nat : m = (IF k + 1 > cache.next THEN k + 1 ELSE cache.next)
    BY <1>1 DEF Contents
  <2>5. PICK c : c = [cache EXCEPT !.user[a] = r, !.next = m]
    OBVIOUS
  <2>6. Store!Save(p, a, c, n) /\ Store!Count /\ UNCHANGED <<stored, boot, said, gone>>
    BY <1>2, <1>3, <2>2, <2>3, <2>4, <2>5
       DEF Store!Recorded, Store!Save, Store!Become, Store!Begun, Store!Keys
  <2>7. c \in Contents /\ c.user = [cache.user EXCEPT ![a] = r] /\ c.next = m
    BY <1>1, <2>5 DEF Contents
  <2>8. cache.next <= m /\ r.rev = n /\ r.port < m
    BY <1>1, <2>3, <2>4 DEF Contents
  <2>9. c.user[a] = r /\ \A x \in Addr : x # a => c.user[x] = cache.user[x]
    BY <1>1, <2>7 DEF Contents
  <2>10. PortsBelow(c)
    <3> SUFFICES ASSUME NEW x \in Addr, x # a PROVE cache.user[x].port < m
      BY <2>7, <2>8, <2>9 DEF PortsBelow
    <3>1. cache.user[x].port < cache.next /\ cache.user[x].port \in Nat /\ cache.next \in Nat
      BY <1>1, <2>1 DEF StoredPorts, PortsBelow, Contents, Row
    <3> QED
      BY <2>8, <3>1
  <2> QED
    BY <1>2, <2>1, <2>6, <2>7, <2>8, <2>9, <2>10, StoreSaved
<1>4. ASSUME NEW a \in Addr, NEW from, NEW to \in Store!Status, Store!SetStatus(p, a, from, to)
      PROVE  StoreInv'
  <2>1. ~Busy(p) /\ boot = "up"
    BY <1>4, IdleTask DEF Store!SetStatus, Store!Open, Store!At, Busy
  <2>2. cache.user[a] \in Row
    BY <1>1 DEF Contents
  <2>3. PICK r : r = [cache.user[a] EXCEPT !.status = to, !.rev = n]
    OBVIOUS
  <2>4. r \in Row /\ r.rev = n /\ r.port = cache.user[a].port
    BY <2>2, <2>3 DEF Row
  <2>5. PICK c : c = [cache EXCEPT !.user[a] = r]
    OBVIOUS
  <2>6. Store!Save(p, a, c, n) /\ Store!Count /\ UNCHANGED <<stored, boot, said, gone>>
    <3>1. [cache EXCEPT !.user[a] = [@ EXCEPT !.status = to, !.rev = n]] = c
      BY <1>1, <2>3, <2>5 DEF Contents
    <3> QED
      BY <1>2, <1>4, <3>1 DEF Store!SetStatus
  <2>7. c \in Contents /\ c.user = [cache.user EXCEPT ![a] = r] /\ c.next = cache.next
    BY <1>1, <2>4, <2>5 DEF Contents
  <2>8. c.user[a] = r /\ \A x \in Addr : x # a => c.user[x] = cache.user[x]
    BY <1>1, <2>7 DEF Contents
  <2>9. PortsBelow(c) /\ cache.next <= c.next
    BY <1>1, <2>1, <2>4, <2>7, <2>8 DEF StoredPorts, PortsBelow, Contents
  <2> QED
    BY <1>2, <2>1, <2>4, <2>6, <2>7, <2>8, <2>9, StoreSaved
<1>5. ASSUME NEW a \in Addr, Store!Remove(p, a) PROVE StoreInv'
  <2>1. ~Busy(p) /\ boot = "up"
    BY <1>5, IdleTask DEF Store!Remove, Store!Open, Store!At, Busy
  <2>2. PICK S : S = cache.pool \cup ({cache.user[a].port} \cap Store!Port)
    OBVIOUS
  <2>3. S \in SUBSET Store!Port
    BY <1>1, <2>2 DEF Contents
  <2>4. PICK c : c = [cache EXCEPT !.user[a] = Store!None, !.pool = S]
    OBVIOUS
  <2>5. /\ Store!Save(p, a, c, n) /\ Store!Count /\ UNCHANGED <<stored, boot, said>>
        /\ gone' = [gone EXCEPT ![a] = n]
    <3>1. [cache EXCEPT !.user[a] = Store!None,
                        !.pool = @ \cup ({cache.user[a].port} \cap Store!Port)] = c
      BY <1>1, <2>2, <2>4 DEF Contents
    <3> QED
      BY <1>2, <1>5, <3>1 DEF Store!Remove
  <2>6. c \in Contents /\ c.user = [cache.user EXCEPT ![a] = Store!None] /\ c.next = cache.next
    BY <1>1, <2>3, <2>4, NoRow DEF Contents
  <2>7. c.user[a] = Store!None /\ \A x \in Addr : x # a => c.user[x] = cache.user[x]
    BY <1>1, <2>6 DEF Contents
  <2>8. PortsBelow(c) /\ cache.next <= c.next
    <3>1. cache.user[a].port < cache.next /\ cache.user[a].port \in Nat /\ cache.next \in Nat
      BY <1>1, <2>1 DEF StoredPorts, PortsBelow, Contents, Row
    <3>2. 0 < cache.next
      BY <3>1
    <3> QED
      BY <1>1, <2>1, <2>6, <2>7, <3>1, <3>2, NoRow DEF StoredPorts, PortsBelow
  <2> QED
    BY <1>2, <2>1, <2>5, <2>6, <2>7, <2>8, StoreSaved
<1>6. {"stopped", "running", "destroyed"} \subseteq Store!Status
  BY DEF Store!Status
<1> QED
  BY <1>3, <1>4, <1>5, <1>6 DEF Store!Stop, Store!Start, Store!Destroy

(* A commit: the database takes what the transaction has written, which is *)
(* newer, and leaves the others behind in nothing they have written.       *)
LEMMA StoreCommit ==
  ASSUME StoreInv, NEW p \in Proc, Store!Commit(p)
  PROVE  StoreInv'
<1>1. /\ StoreTypes /\ Exclusive /\ StoredRows /\ CacheRows /\ ViewRows
      /\ StoredPorts /\ ViewPorts /\ Settling
  BY DEF StoreInv
<1>2. PICK t \in SaveTask : t = saves[p]
  BY <1>1 DEF StoreTypes
<1>3. t.pc = "commit" /\ UNCHANGED <<cache, boot, gone, count>>
  BY <1>2 DEF Store!Commit, Store!At
<1>4. PICK d \in Contents : d = stored.content
  BY <1>1 DEF StoreTypes
<1>5. PICK e : e = [user |-> [a \in Addr |-> IF a \in t.wrote THEN t.view.user[a] ELSE d.user[a]],
                    next |-> IF "ports" \in t.wrote THEN t.view.next ELSE d.next,
                    pool |-> IF "ports" \in t.wrote THEN t.view.pool ELSE d.pool]
  OBVIOUS
<1>6. /\ \A a \in Addr : e.user[a] = IF a \in t.wrote THEN t.view.user[a] ELSE d.user[a]
      /\ e.next = IF "ports" \in t.wrote THEN t.view.next ELSE d.next
  BY <1>5
<1>7. t.view \in Contents
  BY DEF SaveTask
<1>8. e \in Contents
  BY <1>5, <1>7 DEF Contents
<1>9. stored' = [stored EXCEPT !.content = e]
  BY <1>2, <1>4, <1>5 DEF Store!Commit, Store!Merged
<1>10. /\ stored' \in [content : Contents, schema : BOOLEAN] /\ stored'.content = e
  BY <1>1, <1>8, <1>9 DEF StoreTypes
<1>11. /\ saves' = [q \in Proc |-> IF q = p THEN Store!Idle
                     ELSE IF saves[q].pc \in Store!Saving
                          THEN [saves[q] EXCEPT !.stale = @ \cup t.wrote] ELSE saves[q]]
       /\ said' = [said EXCEPT ![t.addr] = IF t.rev > @ THEN t.rev ELSE @]
  BY <1>2 DEF Store!Commit
<1>12. saves'[p] = Store!Idle /\ ~Busy(p)'
  BY <1>11, IdleTask DEF Busy
<1>13. ASSUME NEW q \in Proc, q # p
       PROVE  /\ saves'[q] \in SaveTask
              /\ saves'[q].pc = saves[q].pc /\ saves'[q].wrote = saves[q].wrote
              /\ saves'[q].addr = saves[q].addr /\ saves'[q].rev = saves[q].rev
              /\ saves'[q].addrs = saves[q].addrs /\ saves'[q].todo = saves[q].todo
              /\ saves'[q].view = saves[q].view
              /\ saves'[q].stale \subseteq saves[q].stale \cup t.wrote
              /\ Busy(q) => saves'[q].stale = saves[q].stale \cup t.wrote
  <2>1. saves[q] \in SaveTask
    BY <1>1 DEF StoreTypes
  <2>2. saves[q].stale \cup t.wrote \in SUBSET Store!Docs
    BY <2>1 DEF SaveTask
  <2>3. saves'[q] = IF Busy(q) THEN [saves[q] EXCEPT !.stale = saves[q].stale \cup t.wrote]
                    ELSE saves[q]
    BY <1>11, <1>13 DEF Busy
  <2> QED
    BY <2>1, <2>2, <2>3 DEF SaveTask
<1>14. boot = "up" /\ Busy(p) /\ t.addr \in Addr /\ t.rev \in Nat
  BY <1>1, <1>2, <1>3, Upward DEF Exclusive, Busy, Store!Saving, SaveTask
<1>15. OwnRow(p) /\ (\A a \in Addr : ViewRow(p, a)) /\ ViewPort(p)
  BY <1>1, <1>14 DEF ViewRows, ViewPorts
<1>16. \A a \in Addr : /\ t.view.user[a] \in Row /\ d.user[a] \in Row /\ e.user[a] \in Row
                       /\ cache.user[a] \in Row /\ gone[a] \in Nat /\ said[a] \in Nat
  BY <1>1, <1>4, <1>7, <1>8 DEF StoreTypes, Contents
<1>17. ASSUME NEW a \in Addr
       PROVE  /\ Newer(e.user[a], d.user[a], gone[a])
              /\ Newer(e.user[a], t.view.user[a], gone[a])
              /\ Newer(cache.user[a], e.user[a], gone[a])
              /\ e.user[a].rev <= count.ops
              /\ gone[a] = 0 /\ cache.user[a].rev = e.user[a].rev
                   => cache.user[a] = e.user[a]
  <2>1. ViewRow(p, a) /\ t.view.user[a].rev \in Nat /\ d.user[a].rev \in Nat
    BY <1>15, <1>16 DEF Row
  <2>2. /\ Newer(cache.user[a], d.user[a], gone[a]) /\ d.user[a].rev <= count.ops
        /\ gone[a] = 0 /\ cache.user[a].rev = d.user[a].rev => cache.user[a] = d.user[a]
    BY <1>1, <1>4, <1>14 DEF CacheRows, StoredRows
  <2>3. CASE a \in t.wrote
    <3>1. e.user[a] = t.view.user[a]
      BY <1>6, <2>3
    <3> QED
      BY <1>2, <1>4, <2>1, <2>3, <3>1 DEF ViewRow, Newer
  <2>4. CASE a \notin t.wrote
    <3>1. e.user[a] = d.user[a]
      BY <1>6, <2>4
    <3> QED
      BY <1>2, <1>4, <2>1, <2>2, <2>4, <3>1 DEF ViewRow, Newer
  <2> QED
    BY <2>3, <2>4
<1>18. /\ d.next <= e.next /\ t.view.next <= e.next /\ e.next <= cache.next
       /\ d.next \in Nat /\ e.next \in Nat /\ t.view.next \in Nat
  BY <1>1, <1>2, <1>4, <1>6, <1>7, <1>8, <1>14, <1>15 DEF ViewPort, StoredPorts, Contents
<1>19. StoreTypes'
  <2>1. said' \in [Addr -> Nat]
    BY <1>1, <1>11, <1>14 DEF StoreTypes
  <2>2. \A q \in Proc : saves'[q] \in SaveTask
    BY <1>12, <1>13, IdleTask
  <2>3. saves' \in [Proc -> SaveTask]
    BY <1>11, <2>2
  <2> QED
    BY <1>1, <1>3, <1>10, <2>1, <2>3 DEF StoreTypes
<1>20. Exclusive'
  <2>1. ASSUME NEW q \in Proc, q # p
        PROVE  /\ ~Busy(q)' => saves'[q].wrote = {}
               /\ saves'[q].wrote \cap saves'[q].stale = {}
               /\ saves'[q].pc = "users" => /\ saves'[q].wrote \subseteq saves'[q].addrs
                                            /\ saves'[q].todo \subseteq saves'[q].addrs
               /\ saves'[q].pc # "commit" => "ports" \notin saves'[q].wrote
               /\ Busy(q)' \/ saves'[q].pc = "made" => saves'[q].addr \in Addr
    <3>1. saves[q].wrote \cap t.wrote = {} /\ saves[q].wrote \cap saves[q].stale = {}
      BY <1>1, <1>2, <2>1 DEF Exclusive
    <3> QED
      BY <1>1, <1>13, <2>1, <3>1 DEF Exclusive, Busy
  <2>2. \A q, x \in Proc : q # x => saves'[q].wrote \cap saves'[x].wrote = {}
    BY <1>1, <1>12, <1>13, IdleTask DEF Exclusive
  <2> QED
    BY <1>3, <1>12, <1>14, <2>1, <2>2, IdleTask DEF Exclusive, Busy
<1>21. StoredRows'
  <2> SUFFICES ASSUME NEW a \in Addr
               PROVE  /\ said'[a] > gone[a] => e.user[a].rev >= said'[a]
                      /\ e.user[a].rev <= count.ops /\ said'[a] <= count.ops
    BY <1>3, <1>10 DEF StoredRows
  <2>1. e.user[a].rev \in Nat /\ d.user[a].rev \in Nat /\ t.view.user[a].rev \in Nat
    BY <1>16 DEF Row
  <2>2. /\ said[a] > gone[a] => d.user[a].rev >= said[a]
        /\ said[a] <= count.ops
    BY <1>1, <1>4 DEF StoredRows
  <2>3. CASE said'[a] = said[a]
    BY <1>16, <1>17, <2>1, <2>2, <2>3 DEF Newer
  <2>4. CASE a = t.addr /\ said'[a] = t.rev
    <3>1. t.rev <= count.ops /\ (t.rev > gone[a] => t.view.user[a].rev >= t.rev)
      BY <1>2, <1>3, <1>15, <2>4 DEF OwnRow
    <3> QED
      BY <1>14, <1>16, <1>17, <2>1, <2>4, <3>1 DEF Newer
  <2> QED
    BY <1>1, <1>11, <2>3, <2>4 DEF StoreTypes
<1>22. CacheRows'
  BY <1>1, <1>3, <1>10, <1>17 DEF CacheRows, Newer
<1>23. StoredPorts'
  <2>1. ASSUME NEW a \in Addr PROVE e.user[a].port < e.next
    <3>1. d.user[a].port < d.next /\ t.view.user[a].port < t.view.next
      BY <1>1, <1>2, <1>3, <1>4, <1>15 DEF StoredPorts, ViewPort, PortsBelow
    <3> QED
      BY <1>6, <1>16, <1>18, <3>1 DEF Row
  <2> QED
    BY <1>1, <1>3, <1>10, <1>14, <1>18, <2>1 DEF StoredPorts, PortsBelow
<1>24. ASSUME NEW q \in Proc, Busy(q)'
       PROVE  OwnRow(q)' /\ (\A a \in Addr : ViewRow(q, a)') /\ ViewPort(q)'
  <2>1. q # p
    BY <1>12, <1>24
  <2>2. Busy(q)
    BY <1>13, <1>24, <2>1 DEF Busy
  <2>3. OwnRow(q) /\ (\A a \in Addr : ViewRow(q, a)) /\ ViewPort(q)
    BY <1>1, <2>2 DEF ViewRows, ViewPorts
  <2>4. saves[q].wrote \cap t.wrote = {}
    BY <1>1, <1>2, <2>1 DEF Exclusive
  <2>5. saves'[q].stale = saves[q].stale \cup t.wrote
    BY <1>13, <2>1, <2>2
  <2>6. saves[q].view \in Contents
    BY <1>1 DEF StoreTypes, SaveTask
  <2>7. OwnRow(q)'
    BY <1>3, <1>13, <2>1, <2>3 DEF OwnRow
  <2>8. ASSUME NEW a \in Addr PROVE ViewRow(q, a)'
    <3> DEFINE v == saves[q].view.user[a]
    <3>1. ViewRow(q, a) /\ v.rev \in Nat
      BY <2>3, <2>6 DEF Contents, Row
    <3>2. a \in saves[q].wrote => Newer(v, e.user[a], gone[a])
      BY <1>4, <1>6, <2>4, <3>1 DEF ViewRow
    <3>3. a \notin saves[q].wrote => Newer(e.user[a], v, gone[a])
      <4>1. /\ Newer(e.user[a], d.user[a], gone[a]) /\ e.user[a].rev \in Nat
            /\ d.user[a].rev \in Nat /\ gone[a] \in Nat
        BY <1>16, <1>17 DEF Row
      <4>2. a \notin saves[q].wrote => Newer(d.user[a], v, gone[a])
        BY <1>4, <3>1 DEF ViewRow
      <4> QED
        BY <3>1, <4>1, <4>2 DEF Newer
    <3>4. a \notin saves[q].addrs /\ a \notin saves'[q].stale => e.user[a].rev <= gone[a]
      BY <1>4, <1>6, <2>5, <3>1 DEF ViewRow
    <3> QED
      BY <1>3, <1>10, <1>13, <2>1, <3>1, <3>2, <3>3, <3>4 DEF ViewRow, Newer
  <2>9. ViewPort(q)'
    <3>1. IF "ports" \in saves[q].wrote THEN e.next <= saves[q].view.next
          ELSE saves[q].view.next <= e.next
      <4>1. CASE "ports" \in saves[q].wrote
        BY <1>4, <1>6, <2>3, <2>4, <4>1 DEF ViewPort
      <4>2. CASE "ports" \notin saves[q].wrote
        BY <1>4, <1>18, <2>3, <2>6, <4>2 DEF ViewPort, Contents
      <4> QED
        BY <4>1, <4>2
    <3> QED
      BY <1>3, <1>10, <1>13, <2>1, <2>3, <3>1 DEF ViewPort, PortsBelow
  <2> QED
    BY <2>7, <2>8, <2>9
<1>25. Settling'
  <2> SUFFICES ASSUME ~count.failed, NEW a \in Addr, gone[a] = 0 PROVE Settles(a)'
    BY <1>3 DEF Settling
  <2>1. Settles(a)
    BY <1>1, <1>14 DEF Settling
  <2>2. e.user[a].rev \in Nat /\ d.user[a].rev \in Nat /\ cache.user[a].rev \in Nat
    BY <1>16 DEF Row
  <2>3. CASE d.user[a] = cache.user[a]
    <3>1. e.user[a].rev = cache.user[a].rev
      BY <1>17, <2>2, <2>3 DEF Newer
    <3> QED
      BY <1>3, <1>10, <1>17, <3>1 DEF Settles
  <2>4. CASE Carries(p, a)
    <3>1. e.user[a] = cache.user[a]
      BY <1>2, <1>3, <1>6, <2>4 DEF Carries
    <3> QED
      BY <1>3, <1>10, <3>1 DEF Settles
  <2>5. ASSUME NEW q \in Proc, q # p, Carries(q, a) PROVE Settles(a)'
    BY <1>3, <1>13, <2>5 DEF Settles, Carries, Busy
  <2> QED
    BY <1>4, <2>1, <2>3, <2>4, <2>5 DEF Settles
<1> QED
  BY <1>19, <1>20, <1>21, <1>22, <1>23, <1>24, <1>25 DEF StoreInv, ViewRows, ViewPorts

-----------------------------------------------------------------------------
(* The start of the server: nothing is being saved, and the cache is read  *)
(* from the database before requests are served.                           *)

StoreQuiet == /\ StoreTypes /\ StoredRows /\ PortsBelow(stored.content)
              /\ \A p \in Proc : saves[p].pc = "idle" /\ saves[p].wrote = {}
              /\ boot = "up" => cache = stored.content

LEMMA QuietStore == StoreQuiet => StoreInv
<1> SUFFICES ASSUME StoreQuiet PROVE StoreInv
  OBVIOUS
<1> USE DEF StoreQuiet
<1>1. \A p \in Proc : /\ ~Busy(p) /\ saves[p].pc = "idle" /\ saves[p].wrote = {}
  BY IdleTask DEF Busy
<1>2. Exclusive /\ ViewRows /\ ViewPorts
  BY <1>1 DEF Exclusive, ViewRows, ViewPorts
<1>3. stored.content \in Contents
  BY DEF StoreTypes
<1>4. CacheRows
  <2> SUFFICES ASSUME NEW a \in Addr, cache = stored.content
               PROVE  Newer(cache.user[a], stored.content.user[a], gone[a])
                      /\ cache.user[a].rev <= count.ops
    BY DEF CacheRows
  <2>1. stored.content.user[a].rev \in Nat
    BY <1>3 DEF Contents, Row
  <2> QED
    BY <2>1 DEF Newer, StoredRows
<1>5. StoredPorts
  BY <1>3 DEF StoredPorts, Contents
<1>6. Settling
  BY DEF Settling, Settles
<1> QED
  BY <1>2, <1>4, <1>5, <1>6 DEF StoreInv

LEMMA StoreFirst == Store!Init => StoreInv
<1> SUFFICES ASSUME Store!Init PROVE StoreInv
  OBVIOUS
<1>1. /\ cache = Store!File /\ stored = [content |-> Store!Empty, schema |-> FALSE]
      /\ saves = [p \in Proc |-> Store!Idle] /\ boot = "migrate"
      /\ said = [a \in Addr |-> 0] /\ gone = [a \in Addr |-> 0]
      /\ count = [ops |-> 0, starts |-> 1, failed |-> FALSE]
  BY DEF Store!Init
<1>2. FALSE \in BOOLEAN
  OBVIOUS
<1>3. StoreTypes
  BY <1>1, <1>2, IdleTask, FileContents, EmptyContents DEF StoreTypes
<1>4. StoredRows
  BY <1>1, EmptyContents, NoRow DEF StoredRows
<1>5. PortsBelow(stored.content)
  <2>1. stored.content = Store!Empty /\ Store!Empty.next = 1
    BY <1>1 DEF Store!Empty
  <2>2. \A a \in Addr : Store!Empty.user[a].port = 0
    BY EmptyContents, NoRow
  <2> QED
    BY <2>1, <2>2 DEF PortsBelow
<1> QED
  BY <1>1, <1>3, <1>4, <1>5, IdleTask, QuietStore DEF StoreQuiet

LEMMA StoreBoots ==
  ASSUME StoreInv, Store!Migrate \/ Store!Hydrate \/ Store!Restart
  PROVE  StoreInv'
<1>1. StoreTypes /\ StoredRows /\ PortsBelow(stored.content) /\ Exclusive
  BY DEF StoreInv, StoredPorts
<1>2. ASSUME boot # "up"
      PROVE  \A p \in Proc : saves[p].pc = "idle" /\ saves[p].wrote = {}
  BY <1>1, <1>2, IdleTask DEF Exclusive, Busy
<1>3. CASE Store!Migrate /\ (stored.schema \/ stored.content # Store!Empty)
  <2>1. boot # "up" /\ boot' # "up" /\ UNCHANGED <<stored, cache, saves, said, gone, count>>
    BY <1>3 DEF Store!Migrate
  <2>2. StoreQuiet'
    BY <1>1, <1>2, <2>1 DEF StoreQuiet, StoreTypes, StoredRows, PortsBelow
  <2> QED
    BY <2>2, QuietStore, PTL
<1>4. CASE Store!Migrate /\ ~(stored.schema \/ stored.content # Store!Empty)
  <2>1. /\ boot # "up" /\ boot' = "hydrate" /\ UNCHANGED <<cache, saves, said, gone, count>>
        /\ stored' = [content |-> Store!File, schema |-> TRUE]
        /\ stored.content = Store!Empty
    BY <1>4 DEF Store!Migrate
  <2>2. TRUE \in BOOLEAN
    OBVIOUS
  <2>3. StoreTypes'
    BY <1>1, <2>1, <2>2, FileContents DEF StoreTypes
  <2>4. StoredRows'
    <3> SUFFICES ASSUME NEW a \in Addr
                 PROVE  /\ said[a] > gone[a] => Store!File.user[a].rev >= said[a]
                        /\ Store!File.user[a].rev <= count.ops /\ said[a] <= count.ops
      BY <2>1 DEF StoredRows
    <3>1. stored.content.user[a].rev = 0 /\ Store!File.user[a].rev = 0
      BY <2>1, EmptyContents, NoRow, FileContents
    <3> QED
      BY <1>1, <3>1 DEF StoredRows
  <2>5. StoreQuiet'
    BY <1>1, <1>2, <2>1, <2>3, <2>4, FileContents DEF StoreQuiet, PortsBelow
  <2> QED
    BY <2>5, QuietStore, PTL
<1>5. CASE Store!Hydrate
  <2>1. boot # "up" /\ cache' = stored.content /\ UNCHANGED <<stored, saves, said, gone, count>>
    BY <1>5 DEF Store!Hydrate
  <2>2. StoreQuiet'
    BY <1>1, <1>2, <2>1 DEF StoreQuiet, StoreTypes, StoredRows, PortsBelow
  <2> QED
    BY <2>2, QuietStore, PTL
<1>6. CASE Store!Restart
  <2>1. /\ boot' = "migrate" /\ cache' = Store!File /\ UNCHANGED <<stored, said, gone>>
        /\ saves' = [p \in Proc |-> Store!Idle]
        /\ count' = [count EXCEPT !.starts = @ + 1, !.failed = FALSE]
    BY <1>6 DEF Store!Restart
  <2>2. FALSE \in BOOLEAN
    OBVIOUS
  <2>3. count' \in [ops : Nat, starts : Nat, failed : BOOLEAN] /\ count'.ops = count.ops
    <3>1. count \in [ops : Nat, starts : Nat, failed : BOOLEAN]
      BY <1>1 DEF StoreTypes
    <3>2. PICK m \in Nat : m = count.starts + 1
      BY <3>1
    <3>3. count' = [count EXCEPT !.starts = m, !.failed = FALSE]
      BY <2>1, <3>2
    <3> QED
      BY <2>2, <3>1, <3>2, <3>3
  <2>4. StoreQuiet'
    BY <1>1, <2>1, <2>3, IdleTask, FileContents DEF StoreQuiet, StoreTypes, StoredRows, PortsBelow
  <2> QED
    BY <2>4, QuietStore, PTL
<1> QED
  BY <1>3, <1>4, <1>5, <1>6

-----------------------------------------------------------------------------
(* The theorem.                                                            *)

LEMMA StoreNext ==
  ASSUME StoreInv, "early" \notin Faults, Store!Next PROVE StoreInv'
<1>1. ASSUME NEW p \in Proc, Store!Operate(p) \/ Store!Transact(p) PROVE StoreInv'
  <2>1. CASE Store!Operate(p)
    BY <2>1, StoreIdle, StoreOperates DEF Store!Operate
  <2>2. CASE Store!Transact(p)
    BY <2>2, StoreIdle, StoreUserSent, StoreOthersDeleted, StorePortsSent, StoreCommit, StoreRetry
       DEF Store!Transact
  <2> QED
    BY <1>1, <2>1, <2>2
<1> QED
  BY <1>1, StoreBoots DEF Store!Next

LEMMA StoreStill == StoreInv /\ UNCHANGED storeVars => StoreInv'
<1> SUFFICES ASSUME StoreInv, UNCHANGED storeVars PROVE StoreInv'
  OBVIOUS
<1>1. UNCHANGED <<cache, stored, saves, boot, said, gone, count>>
  BY DEF storeVars
<1>2. StoreTypes' /\ Exclusive' /\ StoredRows' /\ CacheRows'
  BY <1>1 DEF StoreInv, StoreTypes, Exclusive, Busy, StoredRows, CacheRows, Newer
<1>3. ViewRows'
  BY <1>1 DEF StoreInv, ViewRows, OwnRow, ViewRow, Newer, Busy
<1>4. StoredPorts' /\ ViewPorts'
  BY <1>1 DEF StoreInv, StoredPorts, ViewPorts, ViewPort, PortsBelow, Busy
<1>5. Settling'
  BY <1>1 DEF StoreInv, Settling, Settles, Carries, Busy
<1> QED
  BY <1>2, <1>3, <1>4, <1>5 DEF StoreInv

LEMMA StoreKeeps ==
  ASSUME StoreInv PROVE Store!AnsweredKept /\ Store!StoredBelowNext /\ Store!SettledRecords
<1>1. Store!AnsweredKept /\ Store!StoredBelowNext
  BY DEF StoreInv, StoredRows, StoredPorts, PortsBelow, Store!AnsweredKept, Store!StoredBelowNext
<1>2. ASSUME Store!Settled, NEW a \in Addr, gone[a] = 0
      PROVE  stored.content.user[a] = cache.user[a]
  <2>1. Settles(a)
    BY <1>2 DEF StoreInv, Settling, Store!Settled
  <2>2. ASSUME NEW p \in Proc PROVE ~Carries(p, a)
    BY <1>2 DEF Carries, Busy, Store!Settled, Store!Saving
  <2> QED
    BY <2>1, <2>2 DEF Settles
<1> QED
  BY <1>1, <1>2 DEF Store!SettledRecords

(* When no request is served before the start of the server has ended:     *)
(* the database never falls behind what a caller was told, its ports are   *)
(* below its counter, and once every save has ended it has the records of  *)
(* the cache.                                                              *)
THEOREM RecordsStay == "early" \notin Faults => (PartSpec => []RecordsKept)
<1> SUFFICES ASSUME "early" \notin Faults PROVE PartSpec => []RecordsKept
  OBVIOUS
<1> DEFINE I == part = "store" => StoreInv
           V == <<part, vars, storeVars, signedVars, queueVars, monitorVars, startVars>>
<1>1. PartInit => I
  BY StoreFirst DEF PartInit
<1>2. I /\ [PartNext]_V => I'
  <2>1. CASE PartNext
    BY <2>1, StoreNext, StoreStill DEF PartNext
  <2>2. CASE UNCHANGED V
    BY <2>2, StoreStill
  <2> QED
    BY <2>1, <2>2
<1>3. I => RecordsKept
  BY StoreKeeps DEF RecordsKept
<1> QED
  BY <1>1, <1>2, <1>3, PTL DEF PartSpec

-----------------------------------------------------------------------------
(* The types of StateStore, also with requests during the start.           *)

SavedRow == Store!Record \cup {Store!None, Store!Ghost}
TypedTask == [pc : Store!Saving \cup {"idle", "made"}, addr : Addr \cup {"none"},
              port : Store!Port \cup {0}, rev : 0 .. MaxOps, addrs : SUBSET Addr,
              todo : SUBSET Addr, view : Store!Content, wrote : SUBSET Store!Docs,
              stale : SUBSET Store!Docs]
Made(t) == t.pc = "made" => t.addr \in Addr /\ t.port \in Store!Port
StoreTyped ==
  /\ cache \in Store!Content
  /\ stored \in [content : Store!Content, schema : BOOLEAN]
  /\ saves \in [Proc -> TypedTask] /\ \A p \in Proc : Made(saves[p])
  /\ boot \in {"migrate", "hydrate", "up", "down"}
  /\ said \in [Addr -> 0 .. MaxOps] /\ gone \in [Addr -> 0 .. MaxOps]
  /\ count \in [ops : 0 .. MaxOps, starts : Nat, failed : BOOLEAN]

LEMMA ContentSet == Store!Content = [user : [Addr -> SavedRow], next : Nat, pool : SUBSET Store!Port]
  BY DEF Store!Content, SavedRow

LEMMA TypedFirst ==
  /\ Store!Empty \in Store!Content /\ Store!File \in Store!Content
  /\ Store!Idle \in TypedTask /\ Made(Store!Idle)
<1>1. Store!None \in SavedRow /\ 0 \in 0 .. MaxOps
  BY BoundsAssumption DEF SavedRow
<1>2. Store!Empty \in Store!Content
  <2>1. [a \in Addr |-> Store!None] \in [Addr -> SavedRow] /\ {} \in SUBSET Store!Port /\ 1 \in Nat
    BY <1>1
  <2> QED
    BY <2>1, ContentSet DEF Store!Empty
<1>3. Store!Idle \in TypedTask /\ Made(Store!Idle)
  <2>1. {} \in SUBSET Addr /\ {} \in SUBSET Store!Docs
    OBVIOUS
  <2> QED
    BY <1>1, <1>2, <2>1 DEF Store!Idle, TypedTask, Store!NoPort, Made
<1>4. Store!File \in Store!Content
  <2> DEFINE n == Cardinality(Known)
             Injections == {f \in [Known -> 1 .. n] : \A a, b \in Known : f[a] = f[b] => a = b}
  <2>1. n \in Nat /\ ExistsBijection(1 .. n, Known)
    BY BoundsAssumption, FS_CardinalityType
  <2>2. Injections # {}
    <3>1. PICK f \in Bijection(Known, 1 .. n) : TRUE
      BY <2>1, Fun_ExistsBijSymmetric DEF ExistsBijection
    <3> QED
      BY <3>1 DEF Bijection, Injection, IsInjective
  <2>3. Store!Cardinality(Known) = n
    BY DEF Store!Cardinality, Cardinality
  <2>4. 1 .. n \subseteq Store!Port
    BY <2>1, BoundsAssumption DEF Store!Port
  <2> HIDE DEF n
  <2> DEFINE seat == CHOOSE f \in [Known -> 1 .. n] : \A a, b \in Known : f[a] = f[b] => a = b
             row(a) == IF a \in Known THEN [port |-> seat[a], status |-> "stopped", rev |-> 0]
                       ELSE Store!None
  <2>5. Store!File = [user |-> [a \in Addr |-> row(a)], next |-> n + 1, pool |-> {}]
    BY <2>3 DEF Store!File
  <2>6. seat \in [Known -> 1 .. n]
    BY <2>2
  <2> HIDE DEF seat
  <2>7. \A a \in Addr : row(a) \in SavedRow
    BY <1>1, <2>4, <2>6 DEF SavedRow, Store!Record, Store!Status
  <2> HIDE DEF row
  <2>8. [a \in Addr |-> row(a)] \in [Addr -> SavedRow] /\ n + 1 \in Nat /\ {} \in SUBSET Store!Port
    BY <2>1, <2>7
  <2> QED
    BY <2>5, <2>8, ContentSet
<1> QED
  BY <1>2, <1>3, <1>4

(* A save that begins again, or goes on.                                   *)
LEMMA TypedBegun ==
  ASSUME StoreTyped, NEW t \in TypedTask, NEW c \in Store!Content,
         NEW b, b = Store!Begun(t, c)
  PROVE  b \in TypedTask /\ Made(b)
<1>1. b = [t EXCEPT !.pc = "users", !.addrs = Store!Keys(c), !.todo = Store!Keys(c),
                    !.view = stored.content, !.wrote = {}, !.stale = {}]
  BY DEF Store!Begun
<1>2. /\ Store!Keys(c) \in SUBSET Addr /\ {} \in SUBSET Store!Docs /\ "users" \in Store!Saving
      /\ stored.content \in Store!Content
  BY DEF Store!Keys, Store!Saving, StoreTyped
<1> QED
  BY <1>1, <1>2 DEF TypedTask, Made

LEMMA TypedMoves ==
  ASSUME StoreTyped, NEW p \in Proc, NEW t \in TypedTask, Made(t), Store!Become(p, t),
         cache' \in Store!Content, UNCHANGED <<stored, boot, said>>, gone' \in [Addr -> 0 .. MaxOps],
         count' \in [ops : 0 .. MaxOps, starts : Nat, failed : BOOLEAN]
  PROVE  StoreTyped'
<1>1. saves' \in [Proc -> TypedTask] /\ \A q \in Proc : Made(saves'[q])
  BY DEF StoreTyped, Store!Become
<1> QED
  BY <1>1 DEF StoreTyped

LEMMA TypedSave ==
  ASSUME StoreTyped, NEW p \in Proc, NEW a \in Addr, NEW c \in Store!Content,
         NEW n \in 0 .. MaxOps, n = count.ops + 1, Store!Save(p, a, c, n), Store!Count,
         UNCHANGED <<stored, boot, said>>, gone' \in [Addr -> 0 .. MaxOps]
  PROVE  StoreTyped'
<1>1. PICK t : t = [Store!Idle EXCEPT !.addr = a, !.rev = n]
  OBVIOUS
<1>2. t \in TypedTask
  BY <1>1, TypedFirst DEF TypedTask
<1>3. PICK b : b = Store!Begun(t, c)
  OBVIOUS
<1>4. b \in TypedTask /\ Made(b)
  BY <1>2, <1>3, TypedBegun
<1>5. Store!Become(p, b) /\ cache' = c
  BY <1>1, <1>3 DEF Store!Save
<1>6. count' \in [ops : 0 .. MaxOps, starts : Nat, failed : BOOLEAN]
  BY DEF StoreTyped, Store!Count
<1> QED
  BY <1>4, <1>5, <1>6, TypedMoves

LEMMA TypedOperates ==
  ASSUME StoreTyped, NEW p \in Proc, Store!Operate(p)
  PROVE  StoreTyped'
<1>1. /\ cache \in Store!Content /\ cache.user \in [Addr -> SavedRow] /\ cache.next \in Nat
      /\ cache.pool \in SUBSET Store!Port /\ saves[p] \in TypedTask /\ count.ops \in 0 .. MaxOps
      /\ cache = [user |-> cache.user, next |-> cache.next, pool |-> cache.pool]
      /\ Made(saves[p]) /\ gone \in [Addr -> 0 .. MaxOps]
      /\ count \in [ops : 0 .. MaxOps, starts : Nat, failed : BOOLEAN]
  BY ContentSet DEF StoreTyped
<1>2. ASSUME NEW u \in [Addr -> SavedRow], NEW m \in Nat, NEW P \in SUBSET Store!Port
      PROVE  [user |-> u, next |-> m, pool |-> P] \in Store!Content
  BY ContentSet
<1>3. ASSUME NEW a \in Addr, Store!TakePort(p, a) PROVE StoreTyped'
  <2>1. PICK k \in IF cache.pool # {} THEN {Store!Min(cache.pool)}
                   ELSE IF cache.user[a].port # 0 THEN {cache.user[a].port}
                   ELSE {cache.next} \cap Store!Port :
             /\ cache' = [cache EXCEPT !.pool = @ \ {k}]
             /\ Store!Become(p, [Store!Idle EXCEPT !.pc = "made", !.addr = a, !.port = k])
    BY <1>3 DEF Store!TakePort, Store!NoPort
  <2>2. k \in Store!Port
    <3>1. CASE cache.pool # {}
      BY <1>1, <2>1, <3>1, LeastPort
    <3>2. CASE cache.pool = {} /\ cache.user[a].port # 0
      <4>1. cache.user[a] \in SavedRow
        BY <1>1
      <4>2. cache.user[a].port \in Store!Port
        BY <3>2, <4>1 DEF SavedRow, Store!Record, Store!None, Store!Ghost, Store!NoPort
      <4> QED
        BY <2>1, <3>2, <4>2
    <3>3. CASE cache.pool = {} /\ cache.user[a].port = 0
      BY <2>1, <3>3
    <3> QED
      BY <3>1, <3>2, <3>3
  <2>3. PICK t : t = [Store!Idle EXCEPT !.pc = "made", !.addr = a, !.port = k]
    OBVIOUS
  <2>4. t \in TypedTask /\ Made(t)
    BY <2>2, <2>3, TypedFirst DEF TypedTask, Made
  <2>5. cache' = [user |-> cache.user, next |-> cache.next, pool |-> cache.pool \ {k}]
    BY <1>1, <2>1
  <2>6. cache' \in Store!Content
    BY <1>1, <1>2, <2>5
  <2>7. Store!Become(p, t) /\ UNCHANGED <<stored, boot, said, gone, count>>
    BY <1>3, <2>1, <2>3 DEF Store!TakePort
  <2> QED
    BY <1>1, <2>4, <2>6, <2>7, TypedMoves
<1>4. ASSUME NEW a \in Addr, NEW r \in SavedRow, NEW m \in Nat, NEW P \in SUBSET Store!Port,
             NEW n \in 0 .. MaxOps, n = count.ops + 1, NEW c,
             c = [user |-> [cache.user EXCEPT ![a] = r], next |-> m, pool |-> P],
             Store!Save(p, a, c, n), Store!Count, UNCHANGED <<stored, boot, said>>,
             gone' \in [Addr -> 0 .. MaxOps]
      PROVE  StoreTyped'
  <2>1. [cache.user EXCEPT ![a] = r] \in [Addr -> SavedRow]
    BY <1>1, <1>4
  <2>2. c \in Store!Content
    BY <1>2, <1>4, <2>1
  <2> QED
    BY <1>4, <2>2, TypedSave
<1>5. PICK n : n = count.ops + 1
  OBVIOUS
<1>6. n <= MaxOps => n \in 0 .. MaxOps
  BY <1>1, <1>5, BoundsAssumption
<1>7. ASSUME Store!Recorded(p) PROVE StoreTyped'
  <2>1. PICK a, k : a = saves[p].addr /\ k = saves[p].port
    OBVIOUS
  <2>2. a \in Addr /\ k \in Store!Port /\ k \in Nat
    BY <1>1, <1>7, <2>1 DEF Store!Recorded, Store!At, Made, Store!Port
  <2>3. n \in 0 .. MaxOps
    BY <1>5, <1>6, <1>7 DEF Store!Recorded
  <2>4. PICK r : r = [port |-> k, status |-> "running", rev |-> n]
    OBVIOUS
  <2>5. r \in SavedRow
    BY <2>2, <2>3, <2>4 DEF SavedRow, Store!Record, Store!Status
  <2>6. PICK m \in Nat : m = (IF k + 1 > cache.next THEN k + 1 ELSE cache.next)
    BY <1>1, <2>2
  <2>7. PICK c : c = [cache EXCEPT !.user[a] = r, !.next = m]
    OBVIOUS
  <2>8. c = [user |-> [cache.user EXCEPT ![a] = r], next |-> m, pool |-> cache.pool]
    BY <1>1, <2>7
  <2>9. Store!Save(p, a, c, n) /\ Store!Count /\ UNCHANGED <<stored, boot, said, gone>>
    BY <1>5, <1>7, <2>1, <2>4, <2>6, <2>7
       DEF Store!Recorded, Store!Save, Store!Become, Store!Begun, Store!Keys
  <2> QED
    BY <1>1, <1>4, <1>5, <2>2, <2>3, <2>5, <2>8, <2>9
<1>8. ASSUME NEW a \in Addr, NEW from \in Store!Status, NEW to \in Store!Status,
             Store!SetStatus(p, a, from, to)
      PROVE  StoreTyped'
  <2>1. n \in 0 .. MaxOps /\ cache.user[a].status = from
    BY <1>5, <1>6, <1>8 DEF Store!SetStatus
  <2>2. cache.user[a] \in Store!Record
    <3>1. cache.user[a] \in SavedRow
      BY <1>1
    <3> QED
      BY <1>8, <2>1, <3>1 DEF SavedRow, Store!None, Store!Ghost, Store!Status
  <2>3. PICK r : r = [cache.user[a] EXCEPT !.status = to, !.rev = n]
    OBVIOUS
  <2>4. r \in SavedRow
    BY <1>8, <2>1, <2>2, <2>3 DEF SavedRow, Store!Record
  <2>5. PICK c : c = [cache EXCEPT !.user[a] = r]
    OBVIOUS
  <2>6. c = [user |-> [cache.user EXCEPT ![a] = r], next |-> cache.next, pool |-> cache.pool]
    BY <1>1, <2>5
  <2>7. Store!Save(p, a, c, n) /\ Store!Count /\ UNCHANGED <<stored, boot, said, gone>>
    <3>1. [cache EXCEPT !.user[a] = [@ EXCEPT !.status = to, !.rev = n]] = c
      BY <1>1, <2>3, <2>5
    <3> QED
      BY <1>5, <1>8, <3>1 DEF Store!SetStatus
  <2> QED
    BY <1>1, <1>4, <1>5, <2>1, <2>4, <2>6, <2>7
<1>9. ASSUME NEW a \in Addr, Store!Remove(p, a) PROVE StoreTyped'
  <2>1. n \in 0 .. MaxOps
    BY <1>5, <1>6, <1>9 DEF Store!Remove
  <2>2. PICK S : S = cache.pool \cup ({cache.user[a].port} \cap Store!Port)
    OBVIOUS
  <2>3. S \in SUBSET Store!Port
    BY <1>1, <2>2
  <2>4. PICK c : c = [cache EXCEPT !.user[a] = Store!None, !.pool = S]
    OBVIOUS
  <2>5. c = [user |-> [cache.user EXCEPT ![a] = Store!None], next |-> cache.next, pool |-> S]
    BY <1>1, <2>4
  <2>6. /\ Store!Save(p, a, c, n) /\ Store!Count /\ UNCHANGED <<stored, boot, said>>
        /\ gone' = [gone EXCEPT ![a] = n]
    <3>1. [cache EXCEPT !.user[a] = Store!None,
                        !.pool = @ \cup ({cache.user[a].port} \cap Store!Port)] = c
      BY <1>1, <2>2, <2>4
    <3> QED
      BY <1>5, <1>9, <3>1 DEF Store!Remove
  <2>7. Store!None \in SavedRow /\ gone' \in [Addr -> 0 .. MaxOps]
    BY <1>1, <2>1, <2>6 DEF SavedRow
  <2> QED
    BY <1>1, <1>4, <1>5, <2>1, <2>3, <2>5, <2>6, <2>7
<1>10. {"stopped", "running", "destroyed"} \subseteq Store!Status
  BY DEF Store!Status
<1> QED
  BY <1>3, <1>7, <1>8, <1>9, <1>10 DEF Store!Operate, Store!Stop, Store!Start, Store!Destroy

(* A transaction's task: the writes keep its documents and its image.      *)
LEMMA TypedTaskMoves ==
  ASSUME StoreTyped, NEW p \in Proc, NEW t \in TypedTask, t.pc # "made", Store!Become(p, t),
         UNCHANGED <<cache, stored, boot, said, gone>>,
         count' \in [ops : 0 .. MaxOps, starts : Nat, failed : BOOLEAN]
  PROVE  StoreTyped'
  BY TypedMoves DEF StoreTyped, Made

LEMMA TypedPut ==
  ASSUME NEW t \in TypedTask, NEW f \in [Addr -> SavedRow], NEW u, u = Store!Put(t, f)
  PROVE  u \in TypedTask
<1> DEFINE W == t.wrote \cup {a \in Addr : f[a] # t.view.user[a]}
           v == [t.view EXCEPT !.user = f]
<1>1. t.view \in Store!Content /\ t.wrote \in SUBSET Store!Docs
  BY DEF TypedTask
<1>2. v \in Store!Content
  BY <1>1, ContentSet
<1>3. W \in SUBSET Store!Docs
  BY <1>1 DEF Store!Docs
<1>4. u = [t EXCEPT !.view = v, !.wrote = W]
  BY DEF Store!Put, TypedTask
<1> HIDE DEF v, W
<1> QED
  BY <1>2, <1>3, <1>4 DEF TypedTask

LEMMA TypedTransacts ==
  ASSUME StoreTyped, NEW p \in Proc, Store!Transact(p)
  PROVE  StoreTyped'
<1>1. /\ cache \in Store!Content /\ cache.user \in [Addr -> SavedRow] /\ cache.next \in Nat
      /\ cache.pool \in SUBSET Store!Port /\ saves \in [Proc -> TypedTask] /\ saves[p] \in TypedTask
      /\ count \in [ops : 0 .. MaxOps, starts : Nat, failed : BOOLEAN]
      /\ stored \in [content : Store!Content, schema : BOOLEAN]
  BY ContentSet DEF StoreTyped
<1>2. PICK t \in TypedTask : t = saves[p]
  BY <1>1
<1>3. /\ t.view \in Store!Content /\ t.view.user \in [Addr -> SavedRow] /\ t.view.next \in Nat
      /\ t.view.pool \in SUBSET Store!Port /\ t.wrote \in SUBSET Store!Docs
      /\ t.view = [user |-> t.view.user, next |-> t.view.next, pool |-> t.view.pool]
  BY ContentSet DEF TypedTask
<1>4. Store!None \in SavedRow /\ Store!Ghost \in SavedRow
  BY DEF SavedRow
<1>5. ASSUME NEW a \in Addr, Store!UserSent(p, a) PROVE StoreTyped'
  <2>1. PICK f : f = [t.view.user EXCEPT ![a] = Store!Doc(a)]
    OBVIOUS
  <2>2. Store!Doc(a) \in SavedRow
    BY <1>1, <1>4 DEF Store!Doc
  <2>3. f \in [Addr -> SavedRow]
    BY <1>3, <2>1, <2>2
  <2>4. PICK u : u = Store!Put(t, f)
    OBVIOUS
  <2>5. u \in TypedTask
    BY <2>3, <2>4, TypedPut
  <2>6. PICK w : w = [u EXCEPT !.todo = @ \ {a}]
    OBVIOUS
  <2>7. w \in TypedTask /\ w.pc = u.pc
    BY <2>5, <2>6 DEF TypedTask
  <2>8. Store!Become(p, w) /\ t.pc = "users" /\ UNCHANGED <<cache, stored, boot, said, gone, count>>
    BY <1>2, <1>5, <2>1, <2>4, <2>6 DEF Store!UserSent, Store!At
  <2>9. u.pc = t.pc
    BY <2>4, <1>2 DEF Store!Put, TypedTask
  <2> QED
    BY <1>1, <2>7, <2>8, <2>9, TypedTaskMoves
<1>6. ASSUME Store!OthersDeleted(p) PROVE StoreTyped'
  <2>1. PICK f : f = [a \in Addr |-> IF a \in t.addrs THEN t.view.user[a] ELSE Store!None]
    OBVIOUS
  <2>2. f \in [Addr -> SavedRow]
    BY <1>3, <1>4, <2>1
  <2>3. PICK u : u = Store!Put(t, f)
    OBVIOUS
  <2>4. u \in TypedTask
    BY <2>2, <2>3, TypedPut
  <2>5. PICK w : w = [u EXCEPT !.pc = "ports"]
    OBVIOUS
  <2>6. w \in TypedTask /\ w.pc = "ports"
    BY <2>4, <2>5 DEF TypedTask, Store!Saving
  <2>7. Store!Become(p, w) /\ UNCHANGED <<cache, stored, boot, said, gone, count>>
    BY <1>2, <1>6, <2>1, <2>3, <2>5 DEF Store!OthersDeleted
  <2> QED
    BY <1>1, <2>6, <2>7, TypedTaskMoves
<1>7. ASSUME Store!PortsSent(p) PROVE StoreTyped'
  <2>1. PICK v : v = [t.view EXCEPT !.next = cache.next, !.pool = cache.pool]
    OBVIOUS
  <2>2. v \in Store!Content
    <3>1. v = [user |-> t.view.user, next |-> cache.next, pool |-> cache.pool]
      BY <1>3, <2>1
    <3> QED
      BY <1>1, <1>3, <3>1, ContentSet
  <2>3. PICK W : W = IF t.view.next = cache.next /\ t.view.pool = cache.pool
                     THEN t.wrote ELSE t.wrote \cup {"ports"}
    OBVIOUS
  <2>4. W \in SUBSET Store!Docs
    BY <1>3, <2>3 DEF Store!Docs
  <2>5. PICK w : w = [t EXCEPT !.view = v, !.wrote = W, !.pc = "commit"]
    OBVIOUS
  <2>6. w \in TypedTask /\ w.pc = "commit"
    BY <2>2, <2>4, <2>5 DEF TypedTask, Store!Saving
  <2>7. Store!Become(p, w) /\ UNCHANGED <<cache, stored, boot, said, gone, count>>
    <3>1. w = [saves[p] EXCEPT !.view = [@ EXCEPT !.next = cache.next, !.pool = cache.pool],
                 !.wrote = IF saves[p].view.next = cache.next /\ saves[p].view.pool = cache.pool
                           THEN @ ELSE @ \cup {"ports"},
                 !.pc = "commit"]
      BY <1>2, <2>1, <2>3, <2>5
    <3> QED
      BY <1>7, <3>1 DEF Store!PortsSent
  <2> QED
    BY <1>1, <2>6, <2>7, TypedTaskMoves
<1>8. ASSUME Store!Commit(p) PROVE StoreTyped'
  <2>1. Store!Merged(t) \in Store!Content
    <3>1. PICK c \in Store!Content : c = stored.content
      BY <1>1
    <3>2. c.user \in [Addr -> SavedRow] /\ c.next \in Nat /\ c.pool \in SUBSET Store!Port
      BY <3>1, ContentSet
    <3>3. [a \in Addr |-> IF a \in t.wrote THEN t.view.user[a] ELSE c.user[a]] \in [Addr -> SavedRow]
      BY <1>3, <3>2
    <3>4. (IF "ports" \in t.wrote THEN t.view.next ELSE c.next) \in Nat
      BY <1>3, <3>2
    <3>5. (IF "ports" \in t.wrote THEN t.view.pool ELSE c.pool) \in SUBSET Store!Port
      BY <1>3, <3>2
    <3> QED
      BY <3>1, <3>3, <3>4, <3>5, ContentSet DEF Store!Merged
  <2>2. PICK m \in Store!Content : m = Store!Merged(t)
    BY <2>1
  <2>3. stored' \in [content : Store!Content, schema : BOOLEAN]
    BY <1>1, <1>2, <1>8, <2>2 DEF Store!Commit
  <2>4. ASSUME NEW q \in Proc
        PROVE  saves'[q] \in TypedTask /\ Made(saves'[q])
    <3>1. saves'[q] = IF q = p THEN Store!Idle
                      ELSE IF saves[q].pc \in Store!Saving
                           THEN [saves[q] EXCEPT !.stale = @ \cup t.wrote] ELSE saves[q]
      BY <1>2, <1>8 DEF Store!Commit
    <3>2. PICK u \in TypedTask : u = saves[q]
      BY <1>1
    <3>3. [u EXCEPT !.stale = @ \cup t.wrote] \in TypedTask
          /\ [u EXCEPT !.stale = @ \cup t.wrote].pc = u.pc
      <4>1. PICK S \in SUBSET Store!Docs : S = u.stale \cup t.wrote
        BY <1>3, <3>2 DEF TypedTask
      <4>2. [u EXCEPT !.stale = @ \cup t.wrote] = [u EXCEPT !.stale = S]
        BY <4>1
      <4>3. [u EXCEPT !.stale = S] \in TypedTask /\ [u EXCEPT !.stale = S].pc = u.pc
        BY <3>2 DEF TypedTask
      <4> QED
        BY <4>2, <4>3
    <3>4. Made(saves[q]) /\ "made" \notin Store!Saving
      BY DEF StoreTyped, Store!Saving
    <3> QED
      BY <3>1, <3>2, <3>3, <3>4, TypedFirst DEF Made
  <2>5. saves' \in [Proc -> TypedTask]
    <3>1. saves' = [q \in Proc |-> saves'[q]]
      BY <1>8 DEF Store!Commit
    <3> QED
      BY <2>4, <3>1
  <2>6. said' \in [Addr -> 0 .. MaxOps]
    <3>1. said \in [Addr -> 0 .. MaxOps] /\ t.rev \in 0 .. MaxOps
      BY DEF StoreTyped, TypedTask
    <3>2. PICK x : x = IF t.rev > said[t.addr] THEN t.rev ELSE said[t.addr]
      OBVIOUS
    <3>3. said' = [said EXCEPT ![t.addr] = x]
      BY <1>2, <1>8, <3>2 DEF Store!Commit
    <3>4. t.addr \in Addr => x \in 0 .. MaxOps
      BY <3>1, <3>2
    <3> QED
      BY <3>1, <3>3, <3>4
  <2> QED
    BY <1>8, <2>3, <2>4, <2>5, <2>6 DEF StoreTyped, Store!Commit
<1>9. ASSUME Store!Retry(p) PROVE StoreTyped'
  <2>1. PICK b : b = Store!Begun(t, cache)
    OBVIOUS
  <2>2. b \in TypedTask /\ Made(b)
    BY <1>1, <2>1, TypedBegun
  <2>3. Store!Become(p, b) /\ UNCHANGED <<cache, stored, boot, said, gone, count>>
    BY <1>2, <1>9, <2>1 DEF Store!Retry
  <2> QED
    BY <1>1, <2>2, <2>3, TypedMoves DEF StoreTyped
<1>10. ASSUME Store!Fail(p) PROVE StoreTyped'
  <2>1. Store!Become(p, Store!Idle) /\ UNCHANGED <<cache, stored, boot, said, gone>>
        /\ count' \in [ops : 0 .. MaxOps, starts : Nat, failed : BOOLEAN]
    BY <1>1, <1>10 DEF Store!Fail
  <2> QED
    BY <1>1, <2>1, TypedFirst, TypedMoves DEF StoreTyped
<1> QED
  BY <1>5, <1>6, <1>7, <1>8, <1>9, <1>10 DEF Store!Transact

LEMMA TypedBoots ==
  ASSUME StoreTyped, Store!Migrate \/ Store!Hydrate \/ Store!Restart
  PROVE  StoreTyped'
<1>1. /\ stored \in [content : Store!Content, schema : BOOLEAN]
      /\ count \in [ops : 0 .. MaxOps, starts : Nat, failed : BOOLEAN]
  BY DEF StoreTyped
<1>2. CASE Store!Migrate
  <2>1. \/ stored' = stored
        \/ stored' = [content |-> Store!File, schema |-> TRUE]
    BY <1>2 DEF Store!Migrate
  <2>2. stored' \in [content : Store!Content, schema : BOOLEAN]
    <3>1. PICK f \in Store!Content : f = Store!File
      BY TypedFirst
    <3>2. [content |-> f, schema |-> TRUE] \in [content : Store!Content, schema : BOOLEAN]
      OBVIOUS
    <3> QED
      BY <1>1, <2>1, <3>1, <3>2
  <2> QED
    BY <1>2, <2>2 DEF StoreTyped, Store!Migrate
<1>3. CASE Store!Hydrate
  BY <1>1, <1>3 DEF StoreTyped, Store!Hydrate
<1>4. CASE Store!Restart
  <2>1. count' \in [ops : 0 .. MaxOps, starts : Nat, failed : BOOLEAN]
    <3>1. PICK n \in Nat : n = count.starts + 1
      BY <1>1
    <3>2. count' = [count EXCEPT !.starts = n, !.failed = FALSE]
      BY <1>4, <3>1 DEF Store!Restart
    <3> QED
      BY <1>1, <3>1, <3>2
  <2>2. saves' \in [Proc -> TypedTask] /\ \A p \in Proc : Made(saves'[p])
    BY <1>4, TypedFirst DEF Store!Restart
  <2> QED
    BY <1>4, <2>1, <2>2, TypedFirst DEF StoreTyped, Store!Restart
<1> QED
  BY <1>2, <1>3, <1>4

LEMMA TypedInit == Store!Init => StoreTyped
<1> SUFFICES ASSUME Store!Init PROVE StoreTyped
  OBVIOUS
<1>1. saves \in [Proc -> TypedTask] /\ \A p \in Proc : Made(saves[p])
  BY TypedFirst DEF Store!Init
<1>2. stored \in [content : Store!Content, schema : BOOLEAN] /\ 0 \in 0 .. MaxOps
  BY TypedFirst, BoundsAssumption DEF Store!Init
<1> QED
  BY <1>1, <1>2, TypedFirst DEF Store!Init, StoreTyped

(* The part of StateStore is typed in every state.                         *)
LEMMA StoreTypesOK == PartSpec => [](part = "store" => Store!TypeOK)
<1> DEFINE I == part = "store" => StoreTyped
<1>1. PartInit => I
  BY TypedInit DEF PartInit
<1>2. I /\ [PartNext]_<<part, vars, storeVars, signedVars, queueVars, monitorVars, startVars>> => I'
  <2> SUFFICES ASSUME I, [PartNext]_<<part, vars, storeVars, signedVars, queueVars, monitorVars,
                                      startVars>>, part' = "store"
               PROVE  StoreTyped'
    OBVIOUS
  <2>1. StoreTyped /\ (Store!Next \/ UNCHANGED storeVars)
    BY DEF PartNext
  <2>2. CASE UNCHANGED storeVars
    BY <2>1, <2>2 DEF StoreTyped, storeVars
  <2> QED
    BY <2>1, <2>2, TypedOperates, TypedTransacts, TypedBoots DEF Store!Next
<1>3. I => (part = "store" => Store!TypeOK)
  <2> SUFFICES ASSUME StoreTyped PROVE Store!TypeOK
    OBVIOUS
  <2>1. \A p \in Proc : /\ saves[p].pc \in Store!Saving \cup {"idle", "made"}
                        /\ saves[p].view \in Store!Content
                        /\ saves[p].wrote \cup saves[p].stale \subseteq Store!Docs
    BY DEF StoreTyped, TypedTask
  <2> QED
    BY <2>1 DEF StoreTyped, Store!TypeOK
<1> QED
  BY <1>1, <1>2, <1>3, PTL DEF PartSpec
=============================================================================
