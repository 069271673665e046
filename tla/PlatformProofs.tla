--------------------------- MODULE PlatformProofs ---------------------------
(***************************************************************************)
(* Theorems about the parts of MCPlatform, for any wallets, tenants,       *)
(* volumes and bounds; those of the CWT applications and of the store are  *)
(* in CwtApprovalProofs and StoreProofs.  A part has an inductive          *)
(* invariant of its own; that of PartSpec is that the chosen part is in it.*)
(***************************************************************************)
EXTENDS CwtApprovalProofs, StoreProofs, SequenceTheorems

-----------------------------------------------------------------------------
(* SignedRequests.  A number is honoured by a handler that finds it in a   *)
(* pool, as a pending operation or among the tickets: so these hold only   *)
(* numbers that were never honoured, under the purpose, the wallet and the *)
(* operation they were issued for.  Those of the gateway's check alone may *)
(* be answered again.                                                      *)

Grant == [purpose : Signed!Purpose \cup {"ticket"}, addr : Wallet, op : Op \cup {NoOp}]

SignedTypes ==
  /\ issued \in Seq(Grant) /\ Len(issued) <= MaxNonce
  /\ \E k \in 0 .. Len(issued) : old = 1 .. k
  /\ done \in [Signed!Nonce -> [times : Nat, ops : SUBSET (Op \cup {NoOp})]]
  /\ pool \in [Signed!Slot -> Nat] /\ DOMAIN pending = Wallet

Unused(n) == done[n].times = 0 /\ done[n].ops = {}

Pooled(s) == pool[s] # 0 => /\ pool[s] \in DOMAIN issued /\ Signed!SlotOf(pool[s]) = s
                            /\ issued[pool[s]].purpose # "gateway" => Unused(pool[s])
Asked(a) == pending[a].nonce # 0 =>
                /\ pending[a].nonce \in DOMAIN issued
                /\ issued[pending[a].nonce].op = pending[a].op
                /\ issued[pending[a].nonce].purpose = "admin"
                /\ issued[pending[a].nonce].addr = a
Held == /\ \A s \in Signed!Slot : Pooled(s)
        /\ \A a \in Wallet : Asked(a)
        /\ \A n \in tickets : n \in DOMAIN issued /\ issued[n].purpose = "ticket" /\ Unused(n)

Granted == /\ \A n \in DOMAIN issued : issued[n].purpose # "admin" => issued[n].op = NoOp
           /\ \A n \in Signed!Nonce \ DOMAIN issued : Unused(n)

SignedInv == SignedTypes /\ Held /\ Granted /\ Signed!SignedOnce /\ Signed!LastWorks

LEMMA SignedStart == Signed!Init => SignedInv
<1> SUFFICES ASSUME Signed!Init PROVE SignedInv
  OBVIOUS
<1>1. issued = <<>> /\ DOMAIN issued = {} /\ Len(issued) = 0 /\ issued \in Seq(Grant)
  BY DEF Signed!Init
<1>2. SignedTypes
  BY <1>1, BoundsAssumption DEF Signed!Init, SignedTypes
<1>3. Held
  BY DEF Signed!Init, Held, Pooled, Asked, Signed!NoPending
<1>4. Granted
  BY <1>1 DEF Signed!Init, Granted, Unused
<1> QED
  BY <1>1, <1>2, <1>3, <1>4 DEF SignedInv, Signed!SignedOnce, Signed!LastWorks

(* The numbers: those of a sequence, and the next one.                     *)
LEMMA Numbers ==
  ASSUME SignedInv
  PROVE  /\ DOMAIN issued = 1 .. Len(issued) /\ Len(issued) \in Nat
         /\ DOMAIN issued \subseteq Signed!Nonce /\ old \subseteq DOMAIN issued
         /\ 0 \notin DOMAIN issued
         /\ \A n \in DOMAIN issued : issued[n] \in Grant
  BY BoundsAssumption DEF SignedInv, SignedTypes, Signed!Nonce

(* A number is handed out.                                                 *)
LEMMA SignedNumber ==
  ASSUME SignedInv, NEW g \in Grant, Len(issued) + 1 \in Signed!Nonce,
         issued' = Append(issued, g), g.purpose # "admin" => g.op = NoOp,
         UNCHANGED <<old, done, spent>>
  PROVE  LET n == Len(issued) + 1 IN
         /\ n \notin DOMAIN issued /\ DOMAIN issued' = DOMAIN issued \cup {n} /\ issued'[n] = g
         /\ \A m \in DOMAIN issued : issued'[m] = issued[m] /\ m < n
         /\ n \notin old /\ Unused(n) /\ n # 0
         /\ pool' \in [Signed!Slot -> Nat] /\ DOMAIN pending' = Wallet => SignedTypes'
         /\ Granted' /\ Signed!SignedOnce'
<1> DEFINE n == Len(issued) + 1
<1>1. DOMAIN issued = 1 .. Len(issued) /\ Len(issued) \in Nat /\ old \subseteq DOMAIN issued
  BY Numbers
<1>2. issued \in Seq(Grant) /\ issued' \in Seq(Grant) /\ Len(issued') = n
  BY DEF SignedInv, SignedTypes
<1>3. /\ n \notin DOMAIN issued /\ DOMAIN issued' = DOMAIN issued \cup {n} /\ issued'[n] = g
      /\ \A m \in DOMAIN issued : issued'[m] = issued[m] /\ m < n
  BY <1>1, <1>2
<1>4. Unused(n)
  BY <1>3 DEF SignedInv, Granted
<1>5. n <= MaxNonce
  BY BoundsAssumption DEF Signed!Nonce
<1>6. ASSUME pool' \in [Signed!Slot -> Nat], DOMAIN pending' = Wallet
      PROVE  SignedTypes'
  <2>1. PICK k \in 0 .. Len(issued) : old = 1 .. k
    BY DEF SignedInv, SignedTypes
  <2>2. k \in 0 .. Len(issued') /\ old' = 1 .. k
    BY <1>1, <1>2, <2>1
  <2> QED
    BY <1>2, <1>5, <1>6, <2>2 DEF SignedInv, SignedTypes
<1> HIDE DEF n
<1>7. Granted'
  BY <1>3 DEF SignedInv, Granted, Unused
<1>8. Signed!SignedOnce'
  BY <1>3, <1>4 DEF SignedInv, Signed!SignedOnce, Unused
<1> QED
  BY <1>1, <1>3, <1>4, <1>6, <1>7, <1>8 DEF n

LEMMA SlotFacts ==
  ASSUME NEW m, NEW g, issued[m] = g
  PROVE  Signed!SlotOf(m) = <<g.purpose, g.addr>>
  BY DEF Signed!SlotOf

LEMMA FreshFacts ==
  ASSUME SignedTypes
  PROVE  /\ Signed!Fresh \in [Signed!Slot -> Nat]
         /\ \A s \in Signed!Slot : /\ Signed!Fresh[s] \in {0, pool[s]}
                                   /\ pool[s] \notin old => Signed!Fresh[s] = pool[s]
  BY DEF SignedTypes, Signed!Fresh

(* A challenge: the pools and the pending operations get it, others stay.  *)
LEMMA SignedChallenge ==
  ASSUME SignedInv, NEW p \in Signed!Purpose, NEW a \in Wallet, NEW o \in Op \cup {NoOp},
         Len(issued) + 1 \in Signed!Nonce, p # "admin" => o = NoOp,
         Signed!Record(p, a, o), UNCHANGED <<tickets, old, admins, done, spent>>,
         pool' = [Signed!Fresh EXCEPT ![<<p, a>>] = Len(issued) + 1],
         pending' = IF p = "admin"
                    THEN [pending EXCEPT ![a] = [nonce |-> Len(issued) + 1, op |-> o]]
                    ELSE pending
  PROVE  SignedInv'
<1> DEFINE n == Len(issued) + 1
           g == [purpose |-> p, addr |-> a, op |-> o]
<1>0. g \in Grant /\ g.purpose = p /\ g.addr = a /\ g.op = o /\ issued' = Append(issued, g)
  BY DEF Grant, Signed!Record
<1> HIDE DEF g
<1>1. /\ n \notin DOMAIN issued /\ DOMAIN issued' = DOMAIN issued \cup {n} /\ issued'[n] = g
      /\ \A m \in DOMAIN issued : issued'[m] = issued[m] /\ m < n
      /\ n \notin old /\ Unused(n) /\ n # 0
      /\ pool' \in [Signed!Slot -> Nat] /\ DOMAIN pending' = Wallet => SignedTypes'
      /\ Granted' /\ Signed!SignedOnce'
  BY <1>0, SignedNumber
<1>2. /\ SignedTypes /\ Held /\ Signed!LastWorks /\ n \in Nat
      /\ 0 \notin DOMAIN issued /\ \A m \in DOMAIN issued : issued[m] \in Grant
  BY Numbers DEF SignedInv
<1>3. /\ Signed!Fresh \in [Signed!Slot -> Nat]
      /\ \A s \in Signed!Slot : /\ Signed!Fresh[s] \in {0, pool[s]}
                                /\ pool[s] \notin old => Signed!Fresh[s] = pool[s]
  BY <1>2, FreshFacts
<1> HIDE DEF n
<1>4. <<p, a>> \in Signed!Slot
  BY DEF Signed!Slot
<1>5. pool' = [Signed!Fresh EXCEPT ![<<p, a>>] = n]
  BY DEF n
<1>6. pool'[<<p, a>>] = n /\ \A s \in Signed!Slot : s # <<p, a>> => pool'[s] = Signed!Fresh[s]
  BY <1>3, <1>4, <1>5
<1>7. pending' = IF p = "admin" THEN [pending EXCEPT ![a] = [nonce |-> n, op |-> o]] ELSE pending
  BY DEF n
<1>8. SignedTypes'
  <2>1. pool' \in [Signed!Slot -> Nat]
    BY <1>2, <1>3, <1>5
  <2>2. DOMAIN pending' = Wallet
    BY <1>2, <1>7 DEF SignedTypes
  <2> QED
    BY <1>1, <2>1, <2>2
<1>9. ASSUME NEW s \in Signed!Slot
      PROVE  Pooled(s)'
  <2>1. CASE s = <<p, a>>
    BY <1>0, <1>1, <1>6, <2>1 DEF Pooled, Unused, Signed!SlotOf
  <2>2. CASE s # <<p, a>>
    <3>1. Pooled(s) /\ pool'[s] \in {0, pool[s]}
      BY <1>2, <1>3, <1>6, <2>2 DEF Held
    <3> QED
      BY <1>1, <3>1 DEF Pooled, Unused, Signed!SlotOf
  <2> QED
    BY <2>1, <2>2
<1>10. ASSUME NEW b \in Wallet
       PROVE  Asked(b)'
  <2>1. CASE p = "admin" /\ b = a
    <3>1. pending'[b] = [nonce |-> n, op |-> o]
      BY <1>2, <1>7, <2>1 DEF SignedTypes
    <3> QED
      BY <1>0, <1>1, <2>1, <3>1 DEF Asked
  <2>2. CASE ~(p = "admin" /\ b = a)
    <3>1. pending'[b] = pending[b]
      BY <1>2, <1>7, <2>2 DEF SignedTypes
    <3> QED
      BY <1>1, <1>2, <3>1 DEF Held, Asked
  <2> QED
    BY <2>1, <2>2
<1>11. \A m \in tickets' : m \in DOMAIN issued' /\ issued'[m].purpose = "ticket" /\ Unused(m)'
  BY <1>1, <1>2 DEF Held, Unused
<1>12. ASSUME NEW m \in DOMAIN issued' \ (old \cup spent),
              issued'[m].purpose \in Signed!Purpose \ {"gateway"}, Signed!Last(m)',
              done[m].times = 0
       PROVE  /\ Signed!Valid(m)'
              /\ issued'[m].purpose = "admin" =>
                   Signed!Pended(m)' /\ pending'[issued'[m].addr].op = issued'[m].op
  <2>1. CASE m = n
    <3>1. Signed!SlotOf(m)' = <<p, a>>
      BY <1>0, <1>1, <2>1 DEF Signed!SlotOf
    <3>2. p = "admin" => pending'[a].nonce = n /\ pending'[a].op = o
      BY <1>2, <1>7 DEF SignedTypes
    <3> QED
      BY <1>0, <1>1, <1>6, <2>1, <3>1, <3>2 DEF Signed!Valid, Signed!Pended
  <2>2. CASE m # n
    <3>1. m \in DOMAIN issued /\ issued'[m] = issued[m] /\ m < n
      BY <1>1, <2>2
    <3>2. Signed!SlotOf(m)' = Signed!SlotOf(m)
      BY <3>1 DEF Signed!SlotOf
    <3>3. Signed!SlotOf(m) # <<p, a>>
      <4>1. \A k \in DOMAIN issued' : k > m =>
              <<issued'[k].purpose, issued'[k].addr>> # <<issued[m].purpose, issued[m].addr>>
        BY <1>12, <3>1 DEF Signed!Last, Signed!SlotOf
      <4>2. n \in DOMAIN issued' /\ n > m
        BY <1>1, <1>2, <3>1, Numbers
      <4> QED
        BY <1>0, <1>1, <4>1, <4>2 DEF Signed!SlotOf
    <3>4. Signed!Last(m)
      BY <1>1, <1>12, <3>1 DEF Signed!Last, Signed!SlotOf
    <3>5. /\ Signed!Valid(m)
          /\ issued[m].purpose = "admin" =>
               Signed!Pended(m) /\ pending[issued[m].addr].op = issued[m].op
      BY <1>2, <1>12, <3>1, <3>4 DEF Signed!LastWorks
    <3>6. issued[m] \in Grant /\ Signed!SlotOf(m) = <<issued[m].purpose, issued[m].addr>>
      BY <1>2, <3>1 DEF Signed!SlotOf
    <3>7. Signed!SlotOf(m) \in Signed!Slot
      BY <1>12, <3>1, <3>6 DEF Grant, Signed!Slot
    <3>8. Signed!Valid(m)'
      BY <1>3, <1>6, <3>2, <3>3, <3>5, <3>7 DEF Signed!Valid
    <3>9. issued[m].purpose = "admin" => pending'[issued[m].addr] = pending[issued[m].addr]
      BY <1>2, <1>7, <3>3, <3>6 DEF SignedTypes, Grant
    <3> QED
      BY <3>1, <3>5, <3>8, <3>9 DEF Signed!Pended
  <2> QED
    BY <2>1, <2>2
<1>13. Signed!LastWorks'
  BY <1>12 DEF Signed!LastWorks
<1>14. Held'
  BY <1>9, <1>10, <1>11 DEF Held
<1> QED
  BY <1>1, <1>8, <1>13, <1>14 DEF SignedInv

(* A number is presented: it may leave the pools, and is honoured at most  *)
(* when it has left them, unless the gateway checks it.                    *)
LEMMA SignedRedeemed ==
  ASSUME SignedInv, NEW n \in DOMAIN issued, UNCHANGED <<issued, old>>,
         spent \subseteq spent', tickets' \subseteq tickets,
         pool' \in [Signed!Slot -> Nat], DOMAIN pending' = Wallet,
         \A s \in Signed!Slot : pool'[s] # pool[s] => pool'[s] = 0 /\ pool[s] = n,
         \A a \in Wallet : \/ pending'[a] = pending[a]
                           \/ pending'[a] = Signed!NoPending /\ pending[a].nonce = n,
         \/ done' = done
         \/ /\ Signed!Honour(n, issued[n].op)
            /\ \/ issued[n].purpose = "gateway"
               \/ Unused(n) /\ n \notin tickets' /\ \A s \in Signed!Slot : pool'[s] # n,
         \/ n \in spent' \/ done'[n].times # 0 \/ issued[n].purpose = "gateway"
         \/ pool' = pool /\ pending' = pending
  PROVE  SignedInv'
<1>1. /\ SignedTypes /\ Held /\ Granted /\ Signed!SignedOnce /\ Signed!LastWorks
      /\ 0 \notin DOMAIN issued /\ n \in Signed!Nonce
      /\ \A m \in DOMAIN issued : issued[m] \in Grant
  BY Numbers DEF SignedInv
<1>2. /\ done' \in [Signed!Nonce -> [times : Nat, ops : SUBSET (Op \cup {NoOp})]]
      /\ \A m \in Signed!Nonce : m # n => done'[m] = done[m]
  <2>1. CASE done' = done
    BY <1>1, <2>1 DEF SignedTypes
  <2>2. CASE Signed!Honour(n, issued[n].op)
    <3>1. issued[n].op \in Op \cup {NoOp} /\ done[n].times \in Nat
          /\ done[n].ops \in SUBSET (Op \cup {NoOp})
      BY <1>1 DEF Grant, SignedTypes
    <3> QED
      BY <1>1, <2>2, <3>1 DEF SignedTypes, Signed!Honour
  <2> QED
    BY <2>1, <2>2
<1>3. done' # done => /\ done'[n].times # 0 /\ done'[n].ops \subseteq {issued[n].op}
                      /\ issued[n].purpose # "gateway" => done'[n].times = 1
  <2> SUFFICES ASSUME done' # done
               PROVE  /\ done'[n].times # 0 /\ done'[n].ops \subseteq {issued[n].op}
                      /\ issued[n].purpose # "gateway" => done'[n].times = 1
    OBVIOUS
  <2>1. done'[n] = [times |-> done[n].times + 1, ops |-> done[n].ops \cup {issued[n].op}]
    BY <1>1 DEF SignedTypes, Signed!Honour
  <2>2. done[n].times \in Nat /\ done[n].ops \subseteq {issued[n].op}
    BY <1>1 DEF SignedTypes, Signed!SignedOnce
  <2> QED
    BY <2>1, <2>2 DEF Unused
<1>4. \A m \in Signed!Nonce : done' = done \/ m # n => done'[m] = done[m]
  BY <1>2
<1>5. SignedTypes'
  BY <1>1, <1>2 DEF SignedTypes
<1>6. ASSUME NEW s \in Signed!Slot
      PROVE  Pooled(s)'
  <2>1. pool'[s] # 0 => /\ pool'[s] = pool[s]
                        /\ done' # done => pool[s] # n \/ issued[n].purpose = "gateway"
    OBVIOUS
  <2>2. pool[s] # 0 => pool[s] \in Signed!Nonce
    BY <1>1, Numbers DEF Held, Pooled
  <2> QED
    BY <1>1, <1>4, <2>1, <2>2 DEF Held, Pooled, Unused, Signed!SlotOf
<1>7. ASSUME NEW a \in Wallet
      PROVE  Asked(a)'
  BY <1>1 DEF Held, Asked, Signed!NoPending
<1>8. ASSUME NEW m \in tickets'
      PROVE  m \in DOMAIN issued' /\ issued'[m].purpose = "ticket" /\ Unused(m)'
  <2>1. m \in DOMAIN issued /\ m \in Signed!Nonce /\ (done' # done => m # n)
    BY <1>1, Numbers DEF Held
  <2> QED
    BY <1>1, <1>4, <2>1 DEF Held, Unused
<1>9. Held'
  BY <1>6, <1>7, <1>8 DEF Held
<1>10. Granted'
  BY <1>1, <1>2 DEF Granted, Unused
<1>11. Signed!SignedOnce'
  <2>1. ASSUME NEW m \in DOMAIN issued
        PROVE  /\ done'[m].ops \subseteq {issued[m].op}
               /\ issued[m].purpose # "gateway" => done'[m].times <= 1
    <3>1. m \in Signed!Nonce
      BY Numbers
    <3> QED
      BY <1>1, <1>3, <1>4, <3>1 DEF Signed!SignedOnce
  <2> QED
    BY <2>1 DEF Signed!SignedOnce
<1>12. ASSUME NEW m \in DOMAIN issued \ (old \cup spent'),
              issued[m].purpose \in Signed!Purpose \ {"gateway"}, Signed!Last(m),
              done'[m].times = 0
       PROVE  /\ Signed!Valid(m)'
              /\ issued[m].purpose = "admin" =>
                   Signed!Pended(m)' /\ pending'[issued[m].addr].op = issued[m].op
  <2>1. m \in Signed!Nonce /\ done[m].times = 0
    BY <1>3, <1>4, <1>12, Numbers
  <2>2. /\ Signed!Valid(m)
        /\ issued[m].purpose = "admin" =>
             Signed!Pended(m) /\ pending[issued[m].addr].op = issued[m].op
    BY <1>1, <1>12, <2>1 DEF Signed!LastWorks
  <2>3. Signed!SlotOf(m) \in Signed!Slot /\ issued[m].addr \in Wallet
    BY <1>1, <1>12 DEF Grant, Signed!Slot, Signed!SlotOf
  <2>4. Signed!SlotOf(m)' = Signed!SlotOf(m)
    BY DEF Signed!SlotOf
  <2>5. CASE m = n
    <3>1. pool' = pool /\ pending' = pending
      BY <1>12, <2>5
    <3> QED
      BY <2>2, <2>4, <3>1 DEF Signed!Valid, Signed!Pended
  <2>6. CASE m # n
    <3>1. pool'[Signed!SlotOf(m)] = pool[Signed!SlotOf(m)]
      BY <2>2, <2>3, <2>6 DEF Signed!Valid
    <3>2. issued[m].purpose = "admin" => pending'[issued[m].addr] = pending[issued[m].addr]
      BY <2>2, <2>3, <2>6 DEF Signed!Pended
    <3> QED
      BY <2>2, <2>4, <3>1, <3>2 DEF Signed!Valid, Signed!Pended
  <2> QED
    BY <2>5, <2>6
<1>13. Signed!LastWorks'
  <2>1. \A m \in DOMAIN issued : Signed!Last(m)' => Signed!Last(m)
    BY DEF Signed!Last, Signed!SlotOf
  <2> QED
    BY <1>12, <2>1 DEF Signed!LastWorks
<1> QED
  BY <1>5, <1>9, <1>10, <1>11, <1>13 DEF SignedInv

(* consumeChallenge: the number is in no pool any more.                    *)
LEMMA ConsumedFacts ==
  ASSUME SignedInv, NEW n \in DOMAIN issued, Signed!Valid(n), Signed!Consumed(n)
  PROVE  /\ pool' \in [Signed!Slot -> Nat]
         /\ \A s \in Signed!Slot : pool'[s] # pool[s] => pool'[s] = 0 /\ pool[s] = n
         /\ \A s \in Signed!Slot : pool'[s] # n
<1> DEFINE x == Signed!SlotOf(n)
<1>1. /\ pool \in [Signed!Slot -> Nat] /\ n # 0 /\ pool[x] = n /\ pool' = [pool EXCEPT ![x] = 0]
      /\ \A s \in Signed!Slot : pool[s] = n => s = x
  BY Numbers DEF SignedInv, SignedTypes, Held, Pooled, Signed!Valid, Signed!Consumed
<1> HIDE DEF x
<1> QED
  BY <1>1

(* The handlers that verify and consume, in either order.                  *)
LEMMA SignedLogins ==
  ASSUME SignedInv, NEW n \in Signed!Nonce,
         Signed!Connect(n) \/ Signed!Login(n) \/ \E bad \in BOOLEAN : Signed!Configure(n, bad)
  PROVE  SignedInv'
<1>1. /\ n \in DOMAIN issued /\ issued[n].purpose \in {"connect", "login", "config"}
      /\ Signed!Valid(n) /\ Signed!Consumed(n) /\ UNCHANGED <<pending, tickets, issued, old>>
      /\ \/ Signed!Honour(n, NoOp) /\ UNCHANGED spent
         \/ Signed!Spend(n) /\ UNCHANGED done
  BY DEF Signed!Connect, Signed!Login, Signed!Configure, Signed!Presented, Signed!IsIssued
<1>2. /\ pool' \in [Signed!Slot -> Nat]
      /\ \A s \in Signed!Slot : pool'[s] # pool[s] => pool'[s] = 0 /\ pool[s] = n
      /\ \A s \in Signed!Slot : pool'[s] # n
  BY <1>1, ConsumedFacts
<1>3. /\ Held /\ SignedTypes /\ issued[n].op = NoOp /\ n # 0 /\ issued[n] \in Grant
  BY <1>1, Numbers DEF SignedInv, Granted
<1>4. Unused(n) /\ n \notin tickets
  <2>1. Signed!SlotOf(n) \in Signed!Slot
    BY <1>1, <1>3 DEF Grant, Signed!Slot, Signed!SlotOf, Signed!Purpose
  <2> QED
    BY <1>1, <1>3, <2>1 DEF Held, Pooled, Signed!Valid
<1>5. CASE Signed!Honour(n, NoOp) /\ UNCHANGED spent
  <2>1. done'[n].times # 0
    BY <1>4, <1>5, <1>3 DEF Signed!Honour, SignedTypes, Unused
  <2> QED
    BY <1>1, <1>2, <1>3, <1>4, <1>5, <2>1, SignedRedeemed DEF SignedTypes
<1>6. CASE Signed!Spend(n) /\ UNCHANGED done
  BY <1>1, <1>2, <1>3, <1>6, SignedRedeemed DEF Signed!Spend, SignedTypes
<1> QED
  BY <1>1, <1>5, <1>6

(* The gateway's verification consumes what it can.                        *)
LEMMA SignedVerify ==
  ASSUME SignedInv, NEW n \in Signed!Nonce, Signed!Verify(n)
  PROVE  SignedInv'
<1>1. /\ n \in DOMAIN issued /\ issued[n].purpose = "gateway" /\ Signed!Honour(n, NoOp)
      /\ UNCHANGED <<pending, tickets, issued, old, spent>>
  BY DEF Signed!Verify, Signed!Presented, Signed!IsIssued
<1>2. SignedTypes /\ pool \in [Signed!Slot -> Nat] /\ issued[n].op = NoOp
  BY <1>1 DEF SignedInv, SignedTypes, Granted
<1>3. /\ pool' \in [Signed!Slot -> Nat]
      /\ \A s \in Signed!Slot : pool'[s] # pool[s] => pool'[s] = 0 /\ pool[s] = n
  <2>1. CASE Signed!Valid(n)
    BY <1>1, <2>1, ConsumedFacts DEF Signed!Verify, Signed!Consumed
  <2>2. CASE ~Signed!Valid(n)
    <3>1. pool' = pool
      BY <1>2, <2>2 DEF Signed!Verify
    <3> QED
      BY <1>2, <3>1
  <2> QED
    BY <2>1, <2>2
<1> QED
  BY <1>1, <1>2, <1>3, SignedRedeemed DEF SignedTypes

(* requireAdminSignature.                                                  *)
LEMMA SignedAdmin ==
  ASSUME SignedInv, NEW n \in Signed!Nonce, NEW o \in Op, NEW bad \in BOOLEAN,
         Signed!AdminOp(n, o, bad)
  PROVE  SignedInv'
<1> DEFINE a == issued[n].addr
<1>1. /\ n \in DOMAIN issued /\ issued[n].purpose = "admin" /\ Signed!Pended(n)
      /\ pending' = [pending EXCEPT ![a] = Signed!NoPending]
      /\ UNCHANGED <<tickets, issued, old>>
  BY DEF Signed!AdminOp, Signed!Presented, Signed!IsIssued
<1>2. /\ SignedTypes /\ Held /\ issued[n] \in Grant /\ a \in Wallet /\ pending[a].nonce = n
      /\ n # 0
  BY <1>1, Numbers DEF SignedInv, Signed!Pended, Grant
<1> HIDE DEF a
<1>3. /\ DOMAIN pending' = Wallet
      /\ \A b \in Wallet : \/ pending'[b] = pending[b]
                           \/ pending'[b] = Signed!NoPending /\ pending[b].nonce = n
  BY <1>1, <1>2 DEF SignedTypes
<1>4. \/ Signed!Spend(n) /\ UNCHANGED <<pool, done>>
      \/ /\ Signed!Binding(n, o)
         /\ pool' = [pool EXCEPT ![Signed!SlotOf(n)] = IF Signed!Valid(n) THEN 0 ELSE @]
         /\ \/ Signed!Spend(n) /\ UNCHANGED done
            \/ Signed!Valid(n) /\ Signed!Honour(n, o) /\ UNCHANGED spent
  BY DEF Signed!AdminOp
<1>5. /\ pool' \in [Signed!Slot -> Nat]
      /\ \A s \in Signed!Slot : pool'[s] # pool[s] => pool'[s] = 0 /\ pool[s] = n
  <2>1. CASE pool' = pool
    BY <1>2, <2>1 DEF SignedTypes
  <2>2. CASE pool' = [pool EXCEPT ![Signed!SlotOf(n)] = IF Signed!Valid(n) THEN 0 ELSE @]
    <3>1. CASE Signed!Valid(n)
      BY <1>1, <2>2, <3>1, ConsumedFacts DEF Signed!Consumed
    <3>2. CASE ~Signed!Valid(n)
      <4>1. pool' = pool
        BY <1>2, <2>2, <3>2 DEF SignedTypes
      <4> QED
        BY <1>2, <4>1 DEF SignedTypes
    <3> QED
      BY <3>1, <3>2
  <2> QED
    BY <1>4, <2>1, <2>2
<1>6. CASE Signed!Spend(n) /\ UNCHANGED done
  BY <1>1, <1>3, <1>5, <1>6, SignedRedeemed DEF Signed!Spend
<1>7. CASE ~(Signed!Spend(n) /\ UNCHANGED done)
  <2>1. /\ Signed!Binding(n, o) /\ Signed!Valid(n) /\ Signed!Honour(n, o) /\ UNCHANGED spent
        /\ Signed!Consumed(n)
    BY <1>4, <1>7 DEF Signed!Consumed
  <2>2. \A s \in Signed!Slot : pool'[s] # n
    BY <1>1, <2>1, ConsumedFacts
  <2>3. o = issued[n].op
    BY <1>1, <1>2, <2>1 DEF Signed!Binding, Held, Asked, a
  <2>4. Signed!SlotOf(n) \in Signed!Slot
    BY <1>1, <1>2 DEF Grant, Signed!Slot, Signed!SlotOf, Signed!Purpose
  <2>5. Unused(n) /\ n \notin tickets
    BY <1>1, <1>2, <2>1, <2>4 DEF Held, Pooled, Signed!Valid
  <2>6. done'[n].times # 0
    BY <1>2, <2>1, <2>5 DEF Signed!Honour, SignedTypes, Unused
  <2> QED
    BY <1>1, <1>3, <1>5, <2>1, <2>2, <2>3, <2>5, <2>6, SignedRedeemed
<1> QED
  BY <1>6, <1>7

(* tryTicket.                                                              *)
LEMMA SignedEnter ==
  ASSUME SignedInv, NEW n \in Signed!Nonce, NEW w \in Wallet, Signed!Enter(n, w)
  PROVE  SignedInv'
<1>1. /\ n \in tickets /\ tickets' = tickets \ {n} /\ UNCHANGED <<pool, pending, issued, old>>
      /\ \/ Signed!Spend(n) /\ UNCHANGED done
         \/ Signed!Honour(n, NoOp) /\ UNCHANGED spent
  BY DEF Signed!Enter
<1>2. /\ SignedTypes /\ Held /\ Granted /\ n \in DOMAIN issued /\ n # 0
      /\ issued[n].purpose = "ticket" /\ Unused(n) /\ issued[n].op = NoOp
  BY <1>1, Numbers DEF SignedInv, Held, Granted
<1>3. \A s \in Signed!Slot : pool[s] # n
  <2>1. Signed!SlotOf(n) \notin Signed!Slot
    BY <1>2 DEF Signed!SlotOf, Signed!Slot, Signed!Purpose
  <2> QED
    BY <1>2, <2>1 DEF Held, Pooled
<1>4. pool' \in [Signed!Slot -> Nat] /\ DOMAIN pending' = Wallet
  BY <1>1, <1>2 DEF SignedTypes
<1> QED
  BY <1>1, <1>2, <1>3, <1>4, SignedRedeemed DEF Signed!Spend

LEMMA SignedTicket ==
  ASSUME SignedInv, NEW a \in Wallet, Signed!IssueTicket(a)
  PROVE  SignedInv'
<1> DEFINE n == Len(issued) + 1
           g == [purpose |-> "ticket", addr |-> a, op |-> NoOp]
<1>1. /\ n \in Signed!Nonce /\ tickets' = tickets \cup {n} /\ issued' = Append(issued, g)
      /\ UNCHANGED <<pool, pending, old, done, spent>>
  BY DEF Signed!IssueTicket, Signed!Record
<1>2. g \in Grant /\ g.purpose = "ticket" /\ g.addr = a /\ g.op = NoOp
  BY DEF Grant
<1> HIDE DEF g
<1>3. /\ n \notin DOMAIN issued /\ DOMAIN issued' = DOMAIN issued \cup {n} /\ issued'[n] = g
      /\ \A m \in DOMAIN issued : issued'[m] = issued[m] /\ m < n
      /\ n \notin old /\ Unused(n) /\ n # 0
      /\ pool' \in [Signed!Slot -> Nat] /\ DOMAIN pending' = Wallet => SignedTypes'
      /\ Granted' /\ Signed!SignedOnce'
  BY <1>1, <1>2, SignedNumber
<1> HIDE DEF n
<1>4. SignedTypes /\ Held /\ Signed!LastWorks
  BY DEF SignedInv
<1>5. SignedTypes'
  BY <1>1, <1>3, <1>4 DEF SignedTypes
<1>6. Held'
  <2>1. \A s \in Signed!Slot : Pooled(s)'
    BY <1>1, <1>3, <1>4 DEF Held, Pooled, Unused, Signed!SlotOf
  <2>2. \A b \in Wallet : Asked(b)'
    BY <1>1, <1>3, <1>4 DEF Held, Asked
  <2>3. \A m \in tickets' : m \in DOMAIN issued' /\ issued'[m].purpose = "ticket" /\ Unused(m)'
    BY <1>1, <1>2, <1>3, <1>4 DEF Held, Unused
  <2> QED
    BY <2>1, <2>2, <2>3 DEF Held
<1>7. ASSUME NEW m \in DOMAIN issued' \ (old \cup spent),
             issued'[m].purpose \in Signed!Purpose \ {"gateway"}, Signed!Last(m)',
             done[m].times = 0
      PROVE  /\ Signed!Valid(m)'
             /\ issued'[m].purpose = "admin" =>
                  Signed!Pended(m)' /\ pending'[issued'[m].addr].op = issued'[m].op
  <2>1. m \in DOMAIN issued /\ issued'[m] = issued[m]
    BY <1>2, <1>3, <1>7 DEF Signed!Purpose
  <2>2. Signed!Last(m)
    BY <1>3, <1>7, <2>1 DEF Signed!Last, Signed!SlotOf
  <2>3. /\ Signed!Valid(m)
        /\ issued[m].purpose = "admin" =>
             Signed!Pended(m) /\ pending[issued[m].addr].op = issued[m].op
    BY <1>4, <1>7, <2>1, <2>2 DEF Signed!LastWorks
  <2> QED
    BY <1>1, <2>1, <2>3 DEF Signed!Valid, Signed!Pended, Signed!SlotOf
<1>8. Signed!LastWorks'
  BY <1>1, <1>7 DEF Signed!LastWorks
<1> QED
  BY <1>3, <1>5, <1>6, <1>8 DEF SignedInv

LEMMA SignedSame == SignedInv /\ UNCHANGED signedVars => SignedInv'
<1> SUFFICES ASSUME SignedInv, UNCHANGED signedVars PROVE SignedInv'
  OBVIOUS
<1> USE DEF signedVars
<1>1. SignedTypes' /\ Held' /\ Granted'
  BY DEF SignedInv, SignedTypes, Held, Pooled, Asked, Granted, Unused, Signed!SlotOf
<1>2. Signed!SignedOnce' /\ Signed!LastWorks'
  BY DEF SignedInv, Signed!SignedOnce, Signed!LastWorks, Signed!Last, Signed!Valid,
         Signed!Pended, Signed!SlotOf
<1> QED
  BY <1>1, <1>2 DEF SignedInv

(* The clean-up of the pools loses old numbers only.                       *)
LEMMA SignedOverloaded ==
  ASSUME SignedInv, Signed!Overloaded
  PROVE  SignedInv'
<1>1. /\ pool' = Signed!Fresh /\ UNCHANGED <<pending, tickets, issued, old, admins, done, spent>>
      /\ SignedTypes /\ Held /\ Granted /\ Signed!SignedOnce /\ Signed!LastWorks
  BY DEF Signed!Overloaded, SignedInv
<1>2. /\ pool' \in [Signed!Slot -> Nat]
      /\ \A s \in Signed!Slot : pool'[s] \in {0, pool[s]} /\ (pool[s] \notin old => pool'[s] = pool[s])
  BY <1>1, FreshFacts
<1>3. SignedTypes' /\ Granted' /\ Signed!SignedOnce'
  BY <1>1, <1>2 DEF SignedTypes, Granted, Unused, Signed!SignedOnce
<1>4. Held'
  BY <1>1, <1>2 DEF Held, Pooled, Asked, Unused, Signed!SlotOf
<1>5. ASSUME NEW m \in DOMAIN issued, issued[m].purpose \in Signed!Purpose, Signed!Valid(m)
      PROVE  Signed!Valid(m)'
  <2>1. Signed!SlotOf(m) \in Signed!Slot
    BY <1>5, Numbers DEF Grant, Signed!Slot, Signed!SlotOf
  <2> QED
    BY <1>1, <1>2, <1>5, <2>1 DEF Signed!Valid, Signed!SlotOf
<1>6. Signed!LastWorks'
  BY <1>1, <1>5 DEF Signed!LastWorks, Signed!Last, Signed!Pended, Signed!SlotOf
<1> QED
  BY <1>3, <1>4, <1>6 DEF SignedInv

(* An instance has the standard modules for itself.                        *)
LEMMA SameCardinality ==
  ASSUME NEW S
  PROVE  Signed!Cardinality(S) = Cardinality(S)
  BY DEF Signed!Cardinality, Cardinality

LEMMA SignedAge ==
  ASSUME SignedInv, Signed!Age
  PROVE  SignedInv'
<1>1. /\ old # DOMAIN issued /\ old' = old \cup {Cardinality(old) + 1}
      /\ UNCHANGED <<pool, pending, tickets, issued, admins, done, spent>>
  BY SameCardinality DEF Signed!Age
<1>2. PICK k \in 0 .. Len(issued) : old = 1 .. k
  BY DEF SignedInv, SignedTypes
<1>3. DOMAIN issued = 1 .. Len(issued) /\ Len(issued) \in Nat
  BY Numbers
<1>4. Cardinality(old) = k
  <2>1. k \in Int /\ 0 <= k
    BY <1>2, <1>3
  <2>2. Cardinality(1 .. k) = IF 1 > k THEN 0 ELSE k - 1 + 1
    BY <2>1, FS_Interval
  <2> QED
    BY <1>2, <2>1, <2>2
<1>5. k + 1 \in 0 .. Len(issued) /\ old' = 1 .. (k + 1)
  <2>1. k # Len(issued)
    BY <1>1, <1>2, <1>3
  <2>2. old' = (1 .. k) \cup {k + 1}
    <3>1. old' = old \cup {k + 1}
      BY <1>1, <1>4
    <3> QED
      BY <1>2, <3>1
  <2>3. k \in Int /\ 0 <= k /\ k < Len(issued)
    <3>1. k \in 0 .. Len(issued) /\ Len(issued) \in Nat
      BY <1>2, <1>3
    <3> QED
      BY <2>1, <3>1
  <2>4. (1 .. k) \cup {k + 1} = 1 .. (k + 1)
    BY <2>3
  <2> QED
    BY <1>3, <2>2, <2>3, <2>4
<1>6. SignedTypes'
  <2>1. \E j \in 0 .. Len(issued') : old' = 1 .. j
    BY <1>1, <1>5
  <2> QED
    BY <1>1, <2>1 DEF SignedInv, SignedTypes
<1>8. Granted' /\ Held' /\ Signed!SignedOnce'
  BY <1>1 DEF SignedInv, Granted, Held, Pooled, Asked, Unused, Signed!SlotOf, Signed!SignedOnce
<1>7. Signed!LastWorks'
  BY <1>1 DEF SignedInv, Signed!LastWorks, Signed!Last, Signed!Valid, Signed!Pended, Signed!SlotOf
<1> QED
  BY <1>6, <1>7, <1>8 DEF SignedInv

LEMMA SignedNext == SignedInv /\ Signed!Next => SignedInv'
<1> SUFFICES ASSUME SignedInv, Signed!Next PROVE SignedInv'
  OBVIOUS
<1>1. ASSUME NEW a \in Wallet, NEW p \in Signed!Purpose, Signed!Issue(p, a)
      PROVE  SignedInv'
  BY <1>1, SignedChallenge DEF Signed!Issue
<1>2. ASSUME NEW a \in Wallet, NEW o \in Op, Signed!IssueAdmin(a, o)
      PROVE  SignedInv'
  BY <1>2, SignedChallenge DEF Signed!IssueAdmin, Signed!Purpose
<1>3. ASSUME NEW a \in Wallet, Signed!Promote(a) \/ Signed!Demote(a)
      PROVE  SignedInv'
  <2>1. UNCHANGED <<pool, pending, tickets, issued, old, done, spent>>
    BY <1>3 DEF Signed!Promote, Signed!Demote
  <2>2. SignedTypes' /\ Granted' /\ Held' /\ Signed!SignedOnce'
    BY <2>1 DEF SignedInv, SignedTypes, Granted, Held, Pooled, Asked, Unused,
       Signed!SlotOf, Signed!SignedOnce
  <2>3. Signed!LastWorks'
    BY <2>1 DEF SignedInv, Signed!LastWorks, Signed!Last, Signed!Valid, Signed!Pended, Signed!SlotOf
  <2> QED
    BY <2>2, <2>3 DEF SignedInv
<1>4. ASSUME NEW n \in Signed!Nonce,
             \/ Signed!Connect(n) \/ Signed!Login(n) \/ Signed!Verify(n)
             \/ \E a \in Wallet : Signed!Enter(n, a)
             \/ \E bad \in BOOLEAN : \/ Signed!Configure(n, bad)
                                     \/ \E o \in Op : Signed!AdminOp(n, o, bad)
      PROVE  SignedInv'
  BY <1>4, SignedLogins, SignedVerify, SignedEnter, SignedAdmin
<1> QED
  BY <1>1, <1>2, <1>3, <1>4, SignedTicket, SignedOverloaded, SignedAge DEF Signed!Next

(* What the parts of a behaviour are.                                      *)
PartVars == <<part, vars, storeVars, signedVars, queueVars, monitorVars, startVars>>

LEMMA SignedPart == PartSpec => [](part = "signed" => SignedInv)
<1> DEFINE I == part = "signed" => SignedInv
<1>1. PartInit => I
  BY SignedStart DEF PartInit
<1>2. I /\ [PartNext]_PartVars => I'
  <2> SUFFICES ASSUME I, [PartNext]_PartVars, part' = "signed" PROVE SignedInv'
    OBVIOUS
  <2>1. part = "signed"
    BY DEF PartNext, PartVars
  <2>2. Signed!Next \/ UNCHANGED signedVars
    BY <2>1 DEF PartNext, PartVars
  <2> QED
    BY <2>1, <2>2, SignedNext, SignedSame
<1> QED
  BY <1>1, <1>2, PTL DEF PartSpec, PartVars

(* What a wallet signed is done at most once, and is what it signed, for   *)
(* any number of wallets, challenges and operations                        *)
(* (admin-signature.middleware.js:31); the answers of the gateway's check, *)
(* which may be repeated, carry no operation.                              *)
THEOREM HonouredOnce == PartSpec => []SignedOnce
<1>1. (part = "signed" => SignedInv) => SignedOnce
  BY DEF SignedInv, SignedOnce
<1> QED
  BY <1>1, SignedPart, PTL

(* The last challenge a wallet got for a purpose works until it is used,   *)
(* spoilt or too old (tenant-config.service.js:116).                       *)
THEOREM LastChallengeWorks == PartSpec => []LastWorks
<1>1. (part = "signed" => SignedInv) => LastWorks
  BY DEF SignedInv, LastWorks
<1> QED
  BY <1>1, SignedPart, PTL

-----------------------------------------------------------------------------
(* ResourceMonitor, the rounds: the flag lets one round be under way, and  *)
(* what it has asked about has not been raised since its last cooldown.    *)

Rounds == [pc : {"idle", "next", "stats", "upgrade"}, addr : Volume \cup {NoVolume},
           tier : Int, todo : SUBSET Volume]

RoundTypes == /\ tiers \in [Volume -> [tier : Int, cool : BOOLEAN]]
              /\ round \in [Round -> Rounds] /\ monitor \in BOOLEAN
              /\ raised \in [Volume -> {0, 1}]
OneRound == \A r \in Round : round[r].pc # "idle" =>
              /\ monitor
              /\ \A q \in Round : round[q].pc # "idle" => q = r
Asking(r) == round[r].pc \in {"stats", "upgrade"} =>
               round[r].addr \in Volume /\ raised[round[r].addr] = 0
RoundInv == /\ RoundTypes /\ OneRound
            /\ \A a \in Volume : raised[a] = 1 => tiers[a].cool
            /\ \A r \in Round : Asking(r)

LEMMA IdleRound == Monitor!IdleJob \in Rounds /\ Monitor!IdleJob.pc = "idle"
<1>1. {} \in SUBSET Volume
  OBVIOUS
<1> QED
  BY <1>1 DEF Monitor!IdleJob, Rounds

LEMMA RoundStart == Monitor!Init => RoundInv
<1> SUFFICES ASSUME Monitor!Init PROVE RoundInv
  OBVIOUS
<1>1. Monitor!IdleJob \in Rounds
  BY IdleRound
<1>2. RoundTypes
  <2>1. round = [r \in Round |-> Monitor!IdleJob]
    BY DEF Monitor!Init
  <2>2. round \in [Round -> Rounds]
    BY <1>1, <2>1
  <2>3. FALSE \in BOOLEAN /\ 1 \in Int /\ 0 \in {0, 1}
    OBVIOUS
  <2>4. [tier |-> 1, cool |-> FALSE] \in [tier : Int, cool : BOOLEAN]
    BY <2>3
  <2>5. tiers \in [Volume -> [tier : Int, cool : BOOLEAN]]
    BY <2>4 DEF Monitor!Init
  <2>6. monitor \in BOOLEAN /\ raised \in [Volume -> {0, 1}]
    BY <2>3 DEF Monitor!Init
  <2> QED
    BY <2>2, <2>5, <2>6 DEF RoundTypes
<1> QED
  BY <1>2 DEF Monitor!Init, Monitor!IdleJob, RoundInv, OneRound, Asking

(* A round moves to j, with what it does to the records.                   *)
LEMMA RoundMoves ==
  ASSUME RoundInv, NEW r \in Round, NEW j \in Rounds, Monitor!Become(r, j),
         round[r].pc # "idle" \/ ~monitor, monitor' = (j.pc # "idle"),
         \/ UNCHANGED <<tiers, raised>>
         \/ \E a \in Volume : /\ tiers' \in [Volume -> [tier : Int, cool : BOOLEAN]]
                              /\ tiers'[a].cool /\ raised[a] = 0
                              /\ \A b \in Volume : b # a => tiers'[b] = tiers[b]
                              /\ raised' = [raised EXCEPT ![a] = 1],
         j.pc \in {"stats", "upgrade"} =>
           j.addr \in Volume /\ raised'[j.addr] = 0
  PROVE  RoundInv'
<1>1. RoundTypes /\ OneRound /\ \A a \in Volume : raised[a] = 1 => tiers[a].cool
  BY DEF RoundInv
<1>2. round'[r] = j /\ round' \in [Round -> Rounds] /\ \A q \in Round : q # r => round'[q] = round[q]
  BY <1>1 DEF Monitor!Become, RoundTypes
<1>3. \A q \in Round : q # r => round[q].pc = "idle"
  BY <1>1 DEF OneRound
<1>4. OneRound'
  BY <1>2, <1>3 DEF OneRound
<1>5. RoundTypes'
  BY <1>1, <1>2 DEF RoundTypes
<1>6. \A a \in Volume : raised'[a] = 1 => tiers'[a].cool
  BY <1>1 DEF RoundTypes
<1>7. ASSUME NEW q \in Round
      PROVE  Asking(q)'
  BY <1>2, <1>3 DEF Asking
<1> QED
  BY <1>4, <1>5, <1>6, <1>7 DEF RoundInv

LEMMA RoundNext == RoundInv /\ Monitor!Watch => RoundInv'
<1> SUFFICES ASSUME RoundInv, Monitor!Watch PROVE RoundInv'
  OBVIOUS
<1>1. /\ RoundTypes /\ OneRound /\ (\A a \in Volume : raised[a] = 1 => tiers[a].cool)
      /\ \A r \in Round : Asking(r)
  BY DEF RoundInv
<1>2. ASSUME NEW r \in Round, Monitor!Fire(r)
      PROVE  RoundInv'
  <2> DEFINE j == [Monitor!IdleJob EXCEPT !.pc = "next", !.todo = Volume]
  <2>1. j \in Rounds /\ j.pc = "next"
    <3>1. Volume \in SUBSET Volume
      OBVIOUS
    <3> QED
      BY <3>1, IdleRound DEF Rounds
  <2>2. ~monitor /\ monitor' = TRUE /\ Monitor!Become(r, j) /\ UNCHANGED <<tiers, raised>>
    BY <1>2 DEF Monitor!Fire
  <2> HIDE DEF j
  <2> QED
    BY <2>1, <2>2, RoundMoves
<1>3. ASSUME NEW r \in Round, NEW a \in Volume, Monitor!Visit(r, a)
      PROVE  RoundInv'
  <2> DEFINE rest == [round[r] EXCEPT !.todo = @ \ {a}]
             asks == [rest EXCEPT !.pc = "stats", !.addr = a, !.tier = tiers[a].tier + 1]
  <2>1. round[r] \in Rounds /\ tiers[a].tier \in Int /\ round[r].pc = "next"
    BY <1>1, <1>3 DEF RoundTypes, Monitor!Visit, Monitor!At
  <2>2. rest \in Rounds /\ rest.pc = "next"
    <3>1. round[r].todo \in SUBSET Volume
      BY <2>1 DEF Rounds
    <3>2. round[r].todo \ {a} \in SUBSET Volume
      BY <3>1
    <3> QED
      BY <2>1, <3>2 DEF Rounds
  <2>3. asks \in Rounds /\ asks.pc = "stats" /\ asks.addr = a
    <3>1. rest.todo \in SUBSET Volume
      BY <2>2 DEF Rounds
    <3>2. tiers[a].tier + 1 \in Int
      BY <2>1
    <3> HIDE DEF rest
    <3> QED
      BY <2>2, <3>1, <3>2 DEF Rounds
  <2>4. /\ Monitor!Become(r, IF tiers[a].tier = MaxTier \/ tiers[a].cool THEN rest ELSE asks)
        /\ UNCHANGED <<tiers, monitor, raised>>
    BY <1>3 DEF Monitor!Visit
  <2> HIDE DEF rest, asks
  <2>5. monitor = TRUE
    BY <1>1, <2>1 DEF OneRound, RoundTypes
  <2>6. CASE tiers[a].tier = MaxTier \/ tiers[a].cool
    BY <2>1, <2>2, <2>4, <2>5, <2>6, RoundMoves
  <2>7. CASE ~(tiers[a].tier = MaxTier \/ tiers[a].cool)
    <3>1. raised[a] = 0
      BY <1>1, <2>7 DEF RoundTypes
    <3> QED
      BY <2>1, <2>3, <2>4, <2>5, <2>7, <3>1, RoundMoves
  <2> QED
    BY <2>6, <2>7
<1>4. ASSUME NEW r \in Round, NEW to \in {"next", "upgrade"}, NEW from \in {"stats", "upgrade"},
             Monitor!Move(r, from, to)
      PROVE  RoundInv'
  <2> DEFINE j == [round[r] EXCEPT !.pc = to]
  <2>1. round[r] \in Rounds /\ round[r].pc = from
    BY <1>1, <1>4 DEF RoundTypes, Monitor!Move, Monitor!At
  <2>2. j \in Rounds /\ j.pc = to /\ j.addr = round[r].addr
    BY <2>1 DEF Rounds
  <2>3. Monitor!Become(r, j) /\ UNCHANGED <<tiers, monitor, raised>>
    BY <1>4 DEF Monitor!Move
  <2> HIDE DEF j
  <2>4. monitor = TRUE
    BY <1>1, <2>1 DEF OneRound, RoundTypes
  <2>5. round[r].addr \in Volume /\ raised[round[r].addr] = 0
    BY <1>1, <2>1 DEF Asking
  <2> QED
    BY <2>1, <2>2, <2>3, <2>4, <2>5, RoundMoves
<1>5. ASSUME NEW r \in Round, Monitor!Recorded(r)
      PROVE  RoundInv'
  <2> DEFINE a == round[r].addr
             j == [round[r] EXCEPT !.pc = "next"]
  <2>1. /\ round[r] \in Rounds /\ round[r].pc = "upgrade" /\ Monitor!Become(r, j)
        /\ tiers' = [tiers EXCEPT ![a].tier = round[r].tier, ![a].cool = TRUE]
        /\ raised' = [raised EXCEPT ![a] = @ + 1] /\ UNCHANGED monitor
    BY <1>1, <1>5 DEF RoundTypes, Monitor!Recorded, Monitor!At
  <2>2. a \in Volume /\ raised[a] = 0 /\ round[r].tier \in Int
    BY <1>1, <2>1 DEF Asking, Rounds
  <2>3. j \in Rounds /\ j.pc = "next" /\ monitor = TRUE
    BY <1>1, <2>1 DEF Rounds, OneRound, RoundTypes
  <2> HIDE DEF a, j
  <2>4. raised' = [raised EXCEPT ![a] = 1]
    BY <1>1, <2>1, <2>2 DEF RoundTypes
  <2>5. /\ tiers' \in [Volume -> [tier : Int, cool : BOOLEAN]] /\ tiers'[a].cool
        /\ \A b \in Volume : b # a => tiers'[b] = tiers[b]
    BY <1>1, <2>1, <2>2 DEF RoundTypes
  <2> QED
    BY <2>1, <2>2, <2>3, <2>4, <2>5, RoundMoves
<1>6. ASSUME NEW r \in Round, Monitor!RoundOver(r)
      PROVE  RoundInv'
  <2>1. /\ round[r].pc = "next" /\ monitor' = FALSE /\ Monitor!Become(r, Monitor!IdleJob)
        /\ UNCHANGED <<tiers, raised>>
    BY <1>6 DEF Monitor!RoundOver, Monitor!At
  <2> QED
    BY <2>1, IdleRound, RoundMoves
<1>7. ASSUME NEW a \in Volume, Monitor!Cooled(a)
      PROVE  RoundInv'
  <2>1. /\ tiers' = [tiers EXCEPT ![a].cool = FALSE] /\ raised' = [raised EXCEPT ![a] = 0]
        /\ UNCHANGED <<monitor, round>>
    BY <1>7 DEF Monitor!Cooled
  <2>2. /\ tiers' \in [Volume -> [tier : Int, cool : BOOLEAN]] /\ raised'[a] = 0
        /\ raised' \in [Volume -> {0, 1}]
        /\ \A b \in Volume : b # a => tiers'[b] = tiers[b] /\ raised'[b] = raised[b]
    BY <1>1, <2>1 DEF RoundTypes
  <2>3. RoundTypes' /\ OneRound'
    BY <1>1, <2>1, <2>2 DEF RoundTypes, OneRound
  <2>4. \A r \in Round : Asking(r)'
    BY <1>1, <2>1, <2>2 DEF Asking
  <2> QED
    BY <1>1, <2>2, <2>3, <2>4 DEF RoundInv
<1>8. ASSUME NEW a \in Volume, NEW t \in Monitor!Tier, Monitor!UpgradeByHand(a, t)
      PROVE  RoundInv'
  <2>1. /\ tiers' = [tiers EXCEPT ![a].tier = t] /\ UNCHANGED <<monitor, round, raised>>
        /\ t \in Int
    BY <1>8 DEF Monitor!UpgradeByHand, Monitor!Tier
  <2>2. /\ tiers' \in [Volume -> [tier : Int, cool : BOOLEAN]]
        /\ \A b \in Volume : tiers'[b].cool = tiers[b].cool
    BY <1>1, <2>1 DEF RoundTypes
  <2> QED
    BY <1>1, <2>1, <2>2 DEF RoundInv, RoundTypes, OneRound, Asking
<1> QED
  BY <1>2, <1>3, <1>4, <1>5, <1>6, <1>7, <1>8
     DEF Monitor!Watch, Monitor!Spared, Monitor!Exceeded, Monitor!UpgradeFailed

LEMMA RoundSame == RoundInv /\ UNCHANGED monitorVars => RoundInv'
<1> SUFFICES ASSUME RoundInv, UNCHANGED monitorVars PROVE RoundInv'
  OBVIOUS
<1>1. UNCHANGED <<tiers, monitor, round, raised>>
  BY DEF monitorVars
<1> QED
  BY <1>1 DEF RoundInv, RoundTypes, OneRound, Asking

(* Between two cooldowns a tenant is raised once, for any number of        *)
(* tenants, of tiers and of firings of the timer (user.service.js:940).    *)
THEOREM OneRaise == PartSpec => []RaisedOnce
<1> DEFINE I == part = "tiers" => RoundInv
<1>1. PartInit => I
  BY RoundStart DEF PartInit
<1>2. I /\ [PartNext]_PartVars => I'
  <2> SUFFICES ASSUME I, [PartNext]_PartVars, part' = "tiers" PROVE RoundInv'
    OBVIOUS
  <2>1. part = "tiers"
    BY DEF PartNext, PartVars
  <2>2. Monitor!Watch \/ UNCHANGED monitorVars
    BY <2>1 DEF PartNext, PartVars
  <2> QED
    BY <2>1, <2>2, RoundNext, RoundSame
<1>3. I => RaisedOnce
  <2> SUFFICES ASSUME RoundInv PROVE \A a \in Volume : raised[a] <= 1
    BY DEF RaisedOnce, Monitor!RaisedOnce
  <2> QED
    BY DEF RoundInv, RoundTypes
<1> QED
  BY <1>1, <1>2, <1>3, PTL DEF PartSpec, PartVars

-----------------------------------------------------------------------------
(* ResourceMonitor, the disk: a size that a listing has is right, in the   *)
(* listing that is shown and in the one a scan works on, and the two are   *)
(* one while the scan shares it.                                           *)

Measure == {e \in [volume : Volume, size : Volume \cup {NoVolume}] :
              e.size \in {NoVolume, e.volume}}
Shown == usage = [host |-> usage.host, list |-> usage.list, precise |-> usage.precise]
Scanned == scan = [at |-> scan.at, list |-> scan.list, shared |-> scan.shared]
SizesInv == /\ Shown /\ usage.list \in [DOMAIN usage.list -> Measure]
            /\ Scanned /\ scan.list \in [DOMAIN scan.list -> Measure]
            /\ scan.shared => scan.list = usage.list
            /\ host.volumes \subseteq Volume

LEMMA MeasureSet ==
  ASSUME NEW s, NEW D, s \in [D -> Measure], NEW k \in D, NEW n \in {s[k].volume, s[k].size}
  PROVE  [s EXCEPT ![k].size = n] \in [D -> Measure]
<1>1. s[k] \in Measure
  OBVIOUS
<1>2. n \in Volume \cup {NoVolume} /\ n \in {NoVolume, s[k].volume}
  BY <1>1 DEF Measure
<1>3. [s[k] EXCEPT !.size = n] \in Measure
  BY <1>1, <1>2 DEF Measure
<1> QED
  BY <1>3

LEMMA SizesStart == Monitor!Init => SizesInv
<1> SUFFICES ASSUME Monitor!Init PROVE SizesInv
  OBVIOUS
<1>1. /\ usage = [host |-> "none", list |-> <<>>, precise |-> FALSE]
      /\ scan = [at |-> 0, list |-> <<>>, shared |-> FALSE]
  BY DEF Monitor!Init, Monitor!NoUsage, Monitor!NoScan
<1>2. <<>> \in [DOMAIN <<>> -> Measure]
  OBVIOUS
<1>3. host.volumes \subseteq Volume
  BY DEF Monitor!Init
<1> QED
  BY <1>1, <1>2, <1>3 DEF SizesInv, Shown, Scanned

LEMMA SizesCollect == SizesInv /\ Monitor!Collect => SizesInv'
<1> SUFFICES ASSUME SizesInv, Monitor!Collect PROVE SizesInv'
  OBVIOUS
<1>1. PICK df \in BOOLEAN, summary \in BOOLEAN, list \in BOOLEAN,
           s \in Monitor!SetToSeqs(host.volumes) :
        usage' = IF df /\ host.space = "low" /\ summary THEN Monitor!NoUsage
                 ELSE [host |-> seen',
                       list |-> IF list THEN Monitor!Unmeasured(s) ELSE <<>>, precise |-> FALSE]
  BY DEF Monitor!Collect
<1>2. s \in [DOMAIN s -> Volume]
  <2>1. s \in [1 .. Monitor!Cardinality(host.volumes) -> host.volumes]
    BY DEF Monitor!SetToSeqs
  <2> QED
    BY <2>1 DEF SizesInv
<1>3. Monitor!Unmeasured(s) \in [DOMAIN Monitor!Unmeasured(s) -> Measure]
  <2>1. \A i \in DOMAIN s : [volume |-> s[i], size |-> NoVolume] \in Measure
    BY <1>2 DEF Measure
  <2> QED
    BY <2>1 DEF Monitor!Unmeasured
<1>4. <<>> \in [DOMAIN <<>> -> Measure]
  OBVIOUS
<1>5. usage'.list \in [DOMAIN usage'.list -> Measure] /\ Shown'
  BY <1>1, <1>3, <1>4 DEF Shown, Monitor!NoUsage
<1>6. scan' = [scan EXCEPT !.shared = FALSE] /\ UNCHANGED host
  BY DEF Monitor!Collect
<1>7. Scanned' /\ scan'.list = scan.list /\ scan'.shared = FALSE
  BY <1>6 DEF SizesInv, Scanned
<1> QED
  BY <1>5, <1>6, <1>7 DEF SizesInv

LEMMA SizesMeasured == SizesInv /\ Monitor!Measured => SizesInv'
<1> SUFFICES ASSUME SizesInv, Monitor!Measured PROVE SizesInv'
  OBVIOUS
<1> DEFINE k == scan.at
<1>1. PICK size \in {scan.list[k].volume, scan.list[k].size} :
        /\ usage' = IF scan.shared THEN [usage EXCEPT !.list[k].size = size] ELSE usage
        /\ scan' = [scan EXCEPT !.list[k].size = size, !.at = @ + 1]
  BY DEF Monitor!Measured
<1>2. k \in DOMAIN scan.list /\ UNCHANGED host
  BY DEF Monitor!Measured
<1> HIDE DEF k
<1>3. [scan.list EXCEPT ![k].size = size] \in [DOMAIN scan.list -> Measure]
  BY <1>2, MeasureSet DEF SizesInv
<1>4. Scanned' /\ scan'.list = [scan.list EXCEPT ![k].size = size] /\ scan'.shared = scan.shared
  BY <1>1 DEF SizesInv, Scanned
<1>5. CASE scan.shared
  <2>1. usage.list = scan.list
    BY <1>5 DEF SizesInv
  <2>2. Shown' /\ usage'.list = [usage.list EXCEPT ![k].size = size]
    BY <1>1, <1>5 DEF SizesInv, Shown
  <2> QED
    BY <1>2, <1>3, <1>4, <2>1, <2>2 DEF SizesInv
<1>6. CASE ~scan.shared
  <2>1. Shown' /\ usage' = usage
    BY <1>1, <1>6 DEF SizesInv, Shown
  <2> QED
    BY <1>2, <1>3, <1>4, <1>6, <2>1 DEF SizesInv
<1> QED
  BY <1>5, <1>6

LEMMA SizesNext == SizesInv /\ Monitor!Measure => SizesInv'
<1> SUFFICES ASSUME SizesInv, Monitor!Measure PROVE SizesInv'
  OBVIOUS
<1>1. ASSUME Monitor!ScanBegins PROVE SizesInv'
  BY <1>1 DEF Monitor!ScanBegins, SizesInv, Shown, Scanned
<1>2. ASSUME Monitor!ScanEnds PROVE SizesInv'
  <2>1. usage' = [usage EXCEPT !.precise = TRUE] /\ UNCHANGED host
    BY <1>2 DEF Monitor!ScanEnds
  <2>2. Shown' /\ usage'.list = usage.list
    BY <2>1 DEF SizesInv, Shown
  <2>3. scan' = [at |-> 0, list |-> <<>>, shared |-> FALSE]
    BY <1>2 DEF Monitor!ScanEnds, Monitor!NoScan
  <2>4. Scanned' /\ scan'.list \in [DOMAIN scan'.list -> Measure] /\ ~scan'.shared
    BY <2>3 DEF Scanned
  <2> QED
    BY <2>1, <2>2, <2>4 DEF SizesInv
<1>3. ASSUME Monitor!Change PROVE SizesInv'
  BY <1>3 DEF Monitor!Change, SizesInv, Shown, Scanned
<1> QED
  BY <1>1, <1>2, <1>3, SizesCollect, SizesMeasured DEF Monitor!Measure

LEMMA SizesSame == SizesInv /\ UNCHANGED monitorVars => SizesInv'
<1> SUFFICES ASSUME SizesInv, UNCHANGED monitorVars PROVE SizesInv'
  OBVIOUS
<1>1. UNCHANGED <<host, usage, scan>>
  BY DEF monitorVars
<1> QED
  BY <1>1 DEF SizesInv, Shown, Scanned

(* A size that is shown is that of its volume, for any number of volumes   *)
(* and wherever a new listing interrupts a scan (user.service.js:1032).    *)
THEOREM SizesRight == PartSpec => []SizesTrue
<1> DEFINE I == part = "disk" => SizesInv
<1>1. PartInit => I
  BY SizesStart DEF PartInit
<1>2. I /\ [PartNext]_PartVars => I'
  <2> SUFFICES ASSUME I, [PartNext]_PartVars, part' = "disk" PROVE SizesInv'
    OBVIOUS
  <2>1. part = "disk"
    BY DEF PartNext, PartVars
  <2>2. Monitor!Measure \/ UNCHANGED monitorVars
    BY <2>1 DEF PartNext, PartVars
  <2> QED
    BY <2>1, <2>2, SizesNext, SizesSame
<1>3. I => SizesTrue
  <2> SUFFICES ASSUME SizesInv, NEW i \in DOMAIN usage.list
               PROVE  usage.list[i].size \in {NoVolume, usage.list[i].volume}
    BY DEF SizesTrue, Monitor!SizesTrue
  <2>1. usage.list[i] \in Measure
    BY DEF SizesInv
  <2> QED
    BY <2>1 DEF Measure
<1> QED
  BY <1>1, <1>2, <1>3, PTL DEF PartSpec, PartVars

-----------------------------------------------------------------------------
(* Startup.  While the restore is under way, every tenant no request has   *)
(* changed is either still to be visited, and has no route yet, or agrees  *)
(* with its container; and outside the moment between the writing of a     *)
(* patch file and the restart that follows it, a container that runs has   *)
(* read the file of its tenant, or a restart of it was missed.             *)

Restores == {"restore", "publish", "bind"}
StartTypes == /\ rec \in [Guest -> {"none", "running", "stopped", "destroyed"}]
              /\ cont \in [Guest -> {"absent", "running", "exited"}]
              /\ route \in [Guest -> BOOLEAN]
              /\ file = [a \in Guest |-> file[a]] /\ loaded = [a \in Guest |-> loaded[a]]
              /\ written \in [Guest -> {"none", "running", "stopped", "destroyed"}]
              /\ stage \in {"publish", "bind", "written"} => item \in Guest
              /\ stage \in {"publish", "bind"} => item \notin todo
Suspended(a) == stage \in {"publish", "bind"} /\ a = item
Agrees(a) == (rec[a] = "running") = (cont[a] = "running" /\ route[a])
Untouched(a) ==
  /\ stage \in {"hydrate", "list"} => ~route[a]
  /\ stage \in Restores =>
       /\ a \in listed <=> cont[a] # "absent"
       /\ a \notin listed \/ a \in todo \/ Suspended(a) => ~route[a]
       /\ a \in listed /\ a \notin todo /\ ~Suspended(a) /\ a \notin skipped => Agrees(a)
       /\ Suspended(a) => cont[a] = "running"
       /\ stage = "bind" /\ a = item => rec[a] = "running"
  /\ stage = "restored" /\ a \notin skipped => Agrees(a)
Restoring == \A a \in Guest : a \notin touched => Untouched(a)
Reads(a) == cont[a] = "running" => loaded[a] = file[a] \/ (stage = "written" /\ a = item)
Reading == /\ stage = "written" => file[item] = want
           /\ \A a \in Guest : a \notin missed => Reads(a)
StartInv == StartTypes /\ Restoring /\ Reading

LEMMA StartInit == Start!Init => StartInv
<1> SUFFICES ASSUME Start!Init PROVE StartInv
  OBVIOUS
<1>1. rec \in [Guest -> {"none", "running", "stopped", "destroyed"}]
  <2> DEFINE known(a) == CASE cont[a] = "running" -> "running"
                           [] cont[a] = "exited" -> "stopped"
                           [] OTHER -> "none"
  <2>1. rec = [a \in Guest |-> known(a)]
    BY DEF Start!Init
  <2>2. \A a \in Guest : known(a) \in {"none", "running", "stopped", "destroyed"}
    OBVIOUS
  <2> HIDE DEF known
  <2> QED
    BY <2>1, <2>2
<1>2. route = [a \in Guest |-> FALSE] /\ FALSE \in BOOLEAN
  BY DEF Start!Init
<1>3. StartTypes
  BY <1>1, <1>2 DEF Start!Init, StartTypes
<1> QED
  BY <1>3 DEF Start!Init, StartInv, Restoring, Untouched, Restores, Reading, Reads

LEMMA StartBoot ==
  ASSUME StartInv,
         \/ Start!Boot \/ Start!Crash \/ Start!Hydrate
         \/ \E a \in Guest : Start!Outage(a)
  PROVE  StartInv'
<1>1. StartTypes /\ Restoring /\ Reading
  BY DEF StartInv
<1>2. ASSUME Start!Boot PROVE StartInv'
  <2>1. route' = [a \in Guest |-> FALSE] /\ FALSE \in BOOLEAN
    BY <1>2 DEF Start!Boot
  <2>2. UNCHANGED <<rec, written, cont, loaded, file, missed>> /\ stage' = "hydrate" /\ stage = "down"
    BY <1>2 DEF Start!Boot, Start!docker
  <2>3. StartTypes'
    BY <1>1, <2>1, <2>2 DEF StartTypes
  <2>4. Restoring'
    BY <2>1, <2>2 DEF Restoring, Untouched, Restores
  <2>5. Reading'
    BY <1>1, <2>2 DEF Reading, Reads
  <2> QED
    BY <2>3, <2>4, <2>5 DEF StartInv
<1>3. ASSUME Start!Crash PROVE StartInv'
  <2>1. /\ rec' = written /\ UNCHANGED <<written, cont, loaded, route, file, want>> /\ stage' = "down"
        /\ missed' = IF stage = "written" THEN missed \cup {item} ELSE missed
    BY <1>3 DEF Start!Crash, Start!docker
  <2>2. StartTypes'
    BY <1>1, <2>1 DEF StartTypes
  <2>3. Restoring'
    BY <2>1 DEF Restoring, Untouched, Restores
  <2>4. Reading'
    BY <1>1, <2>1 DEF Reading, Reads
  <2> QED
    BY <2>2, <2>3, <2>4 DEF StartInv
<1>4. ASSUME Start!Hydrate PROVE StartInv'
  <2>1. /\ stage = "hydrate" /\ stage' \in {"list", "down"}
        /\ UNCHANGED <<rec, written, cont, loaded, route, file, want, touched, missed>>
    BY <1>4 DEF Start!Hydrate, Start!docker, Start!ghosts
  <2>2. StartTypes'
    BY <1>1, <2>1 DEF StartTypes
  <2>3. Restoring'
    BY <1>1, <2>1 DEF Restoring, Untouched, Restores
  <2>4. Reading'
    BY <1>1, <2>1 DEF Reading, Reads
  <2> QED
    BY <2>2, <2>3, <2>4 DEF StartInv
<1>5. ASSUME NEW a \in Guest, Start!Outage(a) PROVE StartInv'
  <2>1. /\ stage = "down" /\ cont[a] # "absent"
        /\ cont' = [cont EXCEPT ![a] = IF cont[a] = "running" THEN "exited" ELSE "absent"]
        /\ UNCHANGED <<rec, written, loaded, route, file, stage, missed>>
    BY <1>5 DEF Start!Outage, Start!ghosts
  <2>2. StartTypes'
    BY <1>1, <2>1 DEF StartTypes
  <2>3. Restoring'
    BY <2>1 DEF Restoring, Untouched, Restores
  <2>4. Reading'
    BY <1>1, <2>1 DEF Reading, Reads, StartTypes
  <2> QED
    BY <2>2, <2>3, <2>4 DEF StartInv
<1> QED
  BY <1>2, <1>3, <1>4, <1>5

LEMMA StartRestore ==
  ASSUME StartInv,
         \/ Start!ListContainers \/ Start!Published \/ Start!Restored \/ Start!Align
         \/ \E a \in Guest : Start!NotRunning(a) \/ Start!Running(a)
  PROVE  StartInv'
<1>1. StartTypes /\ Restoring /\ Reading
  BY DEF StartInv
<1>2. ASSUME UNCHANGED <<cont, loaded, file, want, missed>>, stage # "written", stage' # "written"
      PROVE  Reading'
  BY <1>1, <1>2 DEF Reading, Reads
<1>3. ASSUME Start!ListContainers PROVE StartInv'
  <2>1. /\ stage = "list" /\ stage' \in {"restore", "sync"}
        /\ stage' = "restore" => listed' = {a \in Guest : cont[a] # "absent"} /\ todo' = listed'
        /\ UNCHANGED <<rec, written, cont, loaded, route, file, want, touched, skipped, missed>>
    BY <1>3 DEF Start!ListContainers, Start!docker, Start!ghosts
  <2>2. StartTypes'
    BY <1>1, <2>1 DEF StartTypes
  <2>3. Restoring'
    BY <1>1, <2>1 DEF Restoring, Untouched, Restores, Suspended
  <2> QED
    BY <1>2, <2>1, <2>2, <2>3 DEF StartInv
<1>4. ASSUME Start!Published PROVE StartInv'
  <2>1. /\ stage = "publish" /\ item \in Guest
        /\ \/ /\ rec' = [rec EXCEPT ![item] = "running"] /\ stage' = "bind"
              /\ UNCHANGED <<item, skipped>>
           \/ /\ stage' = "restore" /\ skipped' = skipped \cup {item} /\ UNCHANGED rec
        /\ UNCHANGED <<written, cont, loaded, route, file, want, todo, listed, touched, missed>>
    BY <1>1, <1>4 DEF Start!Published, Start!docker, StartTypes
  <2>2. StartTypes'
    BY <1>1, <2>1 DEF StartTypes
  <2>3. ASSUME NEW a \in Guest, a \notin touched' PROVE Untouched(a)'
    <3>1. Untouched(a)
      BY <1>1, <2>1, <2>3 DEF Restoring
    <3> QED
      BY <1>1, <2>1, <3>1 DEF StartTypes, Untouched, Restores, Suspended, Agrees
  <2> QED
    BY <1>2, <2>1, <2>2, <2>3 DEF StartInv, Restoring
<1>5. ASSUME Start!Restored PROVE StartInv'
  <2>1. /\ stage = "bind" /\ stage' = "restore" /\ item \in Guest /\ item \notin todo
        /\ \/ route' = [route EXCEPT ![item] = TRUE] /\ UNCHANGED rec
           \/ rec' = [rec EXCEPT ![item] = "stopped"] /\ UNCHANGED route
        /\ UNCHANGED <<written, cont, loaded, file, want, todo, listed, touched, skipped, missed>>
    BY <1>1, <1>5 DEF Start!Restored, Start!docker, Start!ghosts, StartTypes
  <2>2. StartTypes'
    BY <1>1, <2>1 DEF StartTypes
  <2>3. ASSUME NEW a \in Guest, a \notin touched' PROVE Untouched(a)'
    <3>1. Untouched(a)
      BY <1>1, <2>1, <2>3 DEF Restoring
    <3> QED
      BY <1>1, <2>1, <3>1 DEF StartTypes, Untouched, Restores, Suspended, Agrees
  <2> QED
    BY <1>2, <2>1, <2>2, <2>3 DEF StartInv, Restoring
<1>6. ASSUME Start!Align PROVE StartInv'
  <2>1. /\ stage = "restore" /\ todo = {} /\ stage' = "restored"
        /\ rec' = [a \in Guest |-> IF a \notin listed /\ rec[a] = "running" THEN "stopped" ELSE rec[a]]
        /\ written' = rec'
        /\ UNCHANGED <<cont, loaded, route, file, want, todo, item, listed, touched, skipped, missed>>
    BY <1>6 DEF Start!Align, Start!docker, Start!ghosts
  <2>2. rec' \in [Guest -> {"none", "running", "stopped", "destroyed"}]
    BY <1>1, <2>1 DEF StartTypes
  <2>3. StartTypes'
    BY <1>1, <2>1, <2>2 DEF StartTypes
  <2>4. ASSUME NEW a \in Guest, a \notin touched' PROVE Untouched(a)'
    <3>1. Untouched(a)
      BY <1>1, <2>1, <2>4 DEF Restoring
    <3> QED
      BY <1>1, <2>1, <3>1 DEF StartTypes, Untouched, Restores, Suspended, Agrees
  <2> QED
    BY <1>2, <2>1, <2>3, <2>4 DEF StartInv, Restoring
<1>7. ASSUME NEW b \in Guest, Start!NotRunning(b) PROVE StartInv'
  <2>1. /\ stage = "restore" /\ b \in todo
        /\ rec' = [rec EXCEPT ![b] = "stopped"] /\ todo' = todo \ {b}
        /\ UNCHANGED <<written, cont, loaded, route, file, want, stage, item, listed, touched, skipped, missed>>
    BY <1>7 DEF Start!NotRunning, Start!docker, Start!ghosts
  <2>2. StartTypes'
    BY <1>1, <2>1 DEF StartTypes
  <2>3. ASSUME NEW a \in Guest, a \notin touched' PROVE Untouched(a)'
    <3>1. Untouched(a)
      BY <1>1, <2>1, <2>3 DEF Restoring
    <3> QED
      BY <1>1, <2>1, <3>1 DEF StartTypes, Untouched, Restores, Suspended, Agrees
  <2> QED
    BY <1>2, <2>1, <2>2, <2>3 DEF StartInv, Restoring
<1>8. ASSUME NEW b \in Guest, Start!Running(b) PROVE StartInv'
  <2>1. /\ stage = "restore" /\ b \in todo /\ cont[b] = "running"
        /\ stage' = "publish" /\ item' = b /\ todo' = todo \ {b}
        /\ UNCHANGED <<rec, written, cont, loaded, route, file, want, listed, touched, skipped, missed>>
    BY <1>8 DEF Start!Running, Start!docker, Start!ghosts
  <2>2. StartTypes'
    BY <1>1, <2>1 DEF StartTypes
  <2>3. ASSUME NEW a \in Guest, a \notin touched' PROVE Untouched(a)'
    <3>1. Untouched(a)
      BY <1>1, <2>1, <2>3 DEF Restoring
    <3> QED
      BY <1>1, <2>1, <3>1 DEF StartTypes, Untouched, Restores, Suspended, Agrees
  <2> QED
    BY <1>2, <2>1, <2>2, <2>3 DEF StartInv, Restoring
<1> QED
  BY <1>3, <1>4, <1>5, <1>6, <1>7, <1>8

LEMMA StartSync ==
  ASSUME StartInv,
         \/ Start!BeginSync \/ Start!Refresh \/ Start!Up
         \/ \E a \in Guest : Start!UpToDate(a) \/ Start!WritePatch(a)
  PROVE  StartInv'
<1>1. StartTypes /\ Reading
  BY DEF StartInv
<1>2. stage' \in {"sync", "written", "up"} => Restoring'
  BY DEF Restoring, Untouched, Restores
<1>3. ASSUME Start!BeginSync \/ Start!Up \/ \E a \in Guest : Start!UpToDate(a)
      PROVE  StartInv'
  <2>1. /\ stage \in {"restored", "sync"} /\ stage' \in {"sync", "up"}
        /\ UNCHANGED <<rec, written, cont, loaded, route, file, want, missed>>
    BY <1>3 DEF Start!BeginSync, Start!Up, Start!UpToDate, Start!docker, Start!ghosts
  <2> QED
    BY <1>1, <1>2, <2>1 DEF StartInv, StartTypes, Reading, Reads
<1>4. ASSUME NEW b \in Guest, Start!WritePatch(b)
      PROVE  StartInv'
  <2>1. /\ stage = "sync" /\ stage' = "written" /\ item' = b
        /\ file' = [file EXCEPT ![b] = want]
        /\ UNCHANGED <<rec, written, cont, loaded, route, want, missed>>
    BY <1>4 DEF Start!WritePatch, Start!docker, Start!ghosts
  <2>2. StartTypes'
    BY <1>1, <2>1 DEF StartTypes
  <2>3. Reading'
    BY <1>1, <2>1 DEF StartTypes, Reading, Reads
  <2> QED
    BY <1>2, <2>1, <2>2, <2>3 DEF StartInv
<1>5. ASSUME Start!Refresh
      PROVE  StartInv'
  <2>1. /\ stage = "written" /\ stage' = "sync" /\ item \in Guest /\ file[item] = want
        /\ UNCHANGED <<route, file, want>>
    BY <1>1, <1>5 DEF Start!Refresh, StartTypes, Reading
  <2>2. \/ /\ cont[item] = "running" /\ loaded' = [loaded EXCEPT ![item] = want]
           /\ rec' = [rec EXCEPT ![item] = "running"] /\ written' = rec' /\ UNCHANGED <<cont, missed>>
        \/ /\ cont' \in {cont, [cont EXCEPT ![item] = "exited"]}
           /\ rec' = [rec EXCEPT ![item] = "running"] /\ written' = rec'
           /\ missed' = missed \cup {item} /\ UNCHANGED loaded
        \/ cont[item] # "running" /\ UNCHANGED <<rec, written, cont, loaded, missed>>
        \/ missed' = missed \cup {item} /\ UNCHANGED <<rec, written, cont, loaded>>
    BY <1>5 DEF Start!Refresh, Start!docker
  <2>3. rec' \in [Guest -> {"none", "running", "stopped", "destroyed"}]
        /\ written' \in [Guest -> {"none", "running", "stopped", "destroyed"}]
    BY <1>1, <2>1, <2>2 DEF StartTypes
  <2>4. cont' \in [Guest -> {"absent", "running", "exited"}]
    BY <1>1, <2>1, <2>2 DEF StartTypes
  <2>5. loaded' = [a \in Guest |-> loaded'[a]]
    BY <1>1, <2>1, <2>2 DEF StartTypes
  <2>6. StartTypes'
    BY <1>1, <2>1, <2>3, <2>4, <2>5 DEF StartTypes
  <2>7. ASSUME NEW a \in Guest, a \notin missed' PROVE Reads(a)'
    BY <1>1, <2>1, <2>2, <2>7 DEF StartTypes, Reading, Reads
  <2>8. Reading'
    BY <2>1, <2>7 DEF Reading
  <2> QED
    BY <1>2, <2>1, <2>6, <2>8 DEF StartInv
<1> QED
  BY <1>3, <1>4, <1>5

LEMMA StartEarly ==
  ASSUME StartInv, NEW b \in Guest, Start!Early(b)
  PROVE  StartInv'
<1>1. StartTypes /\ Restoring /\ Reading
  BY DEF StartInv
<1>2. /\ touched' = touched \cup {b} /\ written' = rec'
      /\ UNCHANGED <<want, stage, todo, item, listed, skipped>>
  BY DEF Start!Early
<1>3. \/ /\ cont' = [cont EXCEPT ![b] = "running"] /\ loaded' = [loaded EXCEPT ![b] = file[b]]
         /\ rec' = [rec EXCEPT ![b] = "running"] /\ route' = [route EXCEPT ![b] = TRUE]
         /\ missed' = missed \ {b} /\ UNCHANGED file
      \/ /\ cont' = [cont EXCEPT ![b] = "running"]
         /\ file' = [file EXCEPT ![b] = want] /\ loaded' = [loaded EXCEPT ![b] = want]
         /\ rec' = [rec EXCEPT ![b] = "running"] /\ route' = [route EXCEPT ![b] = TRUE]
         /\ missed' = missed \ {b}
      \/ /\ rec' = [rec EXCEPT ![b] = "running"] /\ route' = [route EXCEPT ![b] = TRUE]
         /\ UNCHANGED <<cont, loaded, file, missed>>
      \/ /\ cont' \in {[cont EXCEPT ![b] = "exited"], [cont EXCEPT ![b] = "absent"]}
         /\ rec' = [rec EXCEPT ![b] = IF cont'[b] = "exited" THEN "stopped" ELSE "destroyed"]
         /\ route' = [route EXCEPT ![b] = FALSE] /\ UNCHANGED <<loaded, file, missed>>
  BY DEF Start!Early, Start!docker
<1>4. rec' \in [Guest -> {"none", "running", "stopped", "destroyed"}]
  BY <1>1, <1>3 DEF StartTypes
<1>5. cont' \in [Guest -> {"absent", "running", "exited"}]
  BY <1>1, <1>3 DEF StartTypes
<1>6. route' \in [Guest -> BOOLEAN]
  <2>1. TRUE \in BOOLEAN /\ FALSE \in BOOLEAN
    OBVIOUS
  <2> QED
    BY <1>1, <1>3, <2>1 DEF StartTypes
<1>7. file' = [a \in Guest |-> file'[a]] /\ loaded' = [a \in Guest |-> loaded'[a]]
  BY <1>1, <1>3 DEF StartTypes
<1>8. StartTypes'
  BY <1>1, <1>2, <1>4, <1>5, <1>6, <1>7 DEF StartTypes
<1>9. \A a \in Guest : a # b => rec'[a] = rec[a] /\ cont'[a] = cont[a] /\ route'[a] = route[a]
  BY <1>1, <1>3 DEF StartTypes
<1>10. ASSUME NEW a \in Guest, a \notin touched' PROVE Untouched(a)'
  <2>1. Untouched(a) /\ a # b
    BY <1>1, <1>2, <1>10 DEF Restoring
  <2> QED
    BY <1>2, <1>9, <2>1 DEF Untouched, Restores, Suspended, Agrees
<1>11. ASSUME NEW a \in Guest, a \notin missed' PROVE Reads(a)'
  <2>1. a # b => a \notin missed
    BY <1>3, <1>11
  <2>2. a # b => cont'[a] = cont[a] /\ loaded'[a] = loaded[a] /\ file'[a] = file[a]
    BY <1>1, <1>3 DEF StartTypes
  <2>3. CASE a # b
    BY <1>1, <1>2, <2>1, <2>2, <2>3 DEF Reading, Reads
  <2>4. CASE a = b
    BY <1>1, <1>2, <1>3, <1>11, <2>4 DEF StartTypes, Reading, Reads
  <2> QED
    BY <2>3, <2>4
<1>12. stage' = "written" => file'[item'] = want'
  BY <1>1, <1>2, <1>3 DEF StartTypes, Reading
<1> QED
  BY <1>8, <1>10, <1>11, <1>12 DEF StartInv, Restoring, Reading

LEMMA StartNext == StartInv /\ Start!Next => StartInv'
  BY StartBoot, StartRestore, StartSync, StartEarly DEF Start!Next

LEMMA StartPart == PartSpec => [](part = "start" => StartInv)
<1> DEFINE I == part = "start" => StartInv
<1>1. PartInit => I
  BY StartInit DEF PartInit
<1>2. I /\ [PartNext]_PartVars => I'
  <2> SUFFICES ASSUME I, [PartNext]_PartVars, part' = "start" PROVE StartInv'
    OBVIOUS
  <2>1. part = "start"
    BY DEF PartNext, PartVars
  <2>2. Start!Next \/ UNCHANGED startVars
    BY <2>1 DEF PartNext, PartVars
  <2>3. CASE UNCHANGED startVars
    <3>1. UNCHANGED <<rec, written, cont, route, file, loaded, want, stage, todo, item,
                      listed, touched, skipped, missed>>
      BY <2>3 DEF startVars
    <3> QED
      BY <2>1, <3>1 DEF StartInv, StartTypes, Restoring, Untouched, Restores, Suspended,
         Agrees, Reading, Reads
  <2> QED
    BY <2>1, <2>2, <2>3, StartNext
<1> QED
  BY <1>1, <1>2, PTL DEF PartSpec, PartVars

(* When the restore ends, a record says running exactly for the containers *)
(* that run and are reachable, for any number of tenants, of starts and of *)
(* requests that did not wait, whatever fails (user.service.js:2341).      *)
THEOREM RestoreTrue == PartSpec => []RestoredTrue
<1>1. (part = "start" => StartInv) => RestoredTrue
  BY DEF StartInv, Restoring, Untouched, Agrees, RestoredTrue, Start!RestoredTrue
<1> QED
  BY <1>1, StartPart, PTL

(* A container that runs with an old configuration has an old file too, or *)
(* its restart was missed: the next start finds it (user.service.js:566).  *)
THEOREM PatchesTrue == PartSpec => []PatchSynced
<1>1. (part = "start" => StartInv) => PatchSynced
  BY DEF StartInv, Reading, Reads, PatchSynced, Start!PatchSynced
<1> QED
  BY <1>1, StartPart, PTL

-----------------------------------------------------------------------------
(* Capacity.  A call that was told there is room holds it until it has     *)
(* made its container: the containers and the calls that hold room are     *)
(* together fewer than the limit and all calls, those apart that a failed  *)
(* docker ps let in beyond the limit.                                      *)

Call(j) == j = [pc |-> j.pc, kind |-> j.kind, addr |-> j.addr, short |-> j.short,
                blind |-> j.blind]
Holding(j) == ~j.blind /\ (j.pc = "create" \/ (j.pc = "judge" /\ ~j.short))
Seen == boxes \ blind
Holders == {p \in Job : Holding(job[p])}
Room(B, H) == IsFiniteSet(B) /\ Cardinality(B) + Cardinality(H) < MaxBoxes + Cardinality(Job)
QueueTypes == /\ IsFiniteSet(boxes)
              /\ job = [p \in Job |-> job[p]]
              /\ \A p \in Job : Call(job[p]) /\ job[p].short \in BOOLEAN
                                 /\ job[p].blind \in BOOLEAN
QueueInv == QueueTypes /\ Room(Seen, Holders)

LEMMA SmallerRoom ==
  ASSUME NEW B, NEW H \in SUBSET Job, NEW C \in SUBSET B, NEW I \in SUBSET H, Room(B, H)
  PROVE  Room(C, I)
<1>1. IsFiniteSet(B) /\ IsFiniteSet(H)
  BY BoundsAssumption, FS_Subset DEF Room
<1>2. IsFiniteSet(C) /\ Cardinality(C) <= Cardinality(B)
  BY <1>1, FS_Subset
<1>3. IsFiniteSet(I) /\ Cardinality(I) <= Cardinality(H)
  BY <1>1, FS_Subset
<1>4. /\ Cardinality(B) \in Nat /\ Cardinality(C) \in Nat /\ Cardinality(H) \in Nat
      /\ Cardinality(I) \in Nat /\ Cardinality(Job) \in Nat
  BY <1>1, <1>2, <1>3, BoundsAssumption, FS_CardinalityType
<1> QED
  BY <1>2, <1>3, <1>4, BoundsAssumption DEF Room

(* The check itself: what holds room now are calls, however many.          *)
LEMMA CheckedRoom ==
  ASSUME NEW B, NEW H \in SUBSET Job, IsFiniteSet(B), Cardinality(B) < MaxBoxes
  PROVE  Room(B, H)
<1>1. IsFiniteSet(H) /\ Cardinality(H) <= Cardinality(Job)
  BY BoundsAssumption, FS_Subset
<1>2. Cardinality(B) \in Nat /\ Cardinality(H) \in Nat /\ Cardinality(Job) \in Nat
  BY <1>1, BoundsAssumption, FS_CardinalityType
<1> QED
  BY <1>1, <1>2, BoundsAssumption DEF Room

(* One who holds room makes one container.                                 *)
LEMMA UsedRoom ==
  ASSUME NEW B, NEW H \in SUBSET Job, NEW p \in H, NEW a, Room(B, H)
  PROVE  Room(B \cup {a}, H \ {p})
<1>1. IsFiniteSet(B) /\ IsFiniteSet(H)
  BY BoundsAssumption, FS_Subset DEF Room
<1>2. IsFiniteSet(B \cup {a}) /\ Cardinality(B \cup {a}) \in {Cardinality(B), Cardinality(B) + 1}
  BY <1>1, FS_AddElement
<1>3. Cardinality(H \ {p}) = Cardinality(H) - 1
  BY <1>1, FS_RemoveElement
<1>4. Cardinality(B) \in Nat /\ Cardinality(H) \in Nat /\ Cardinality(Job) \in Nat
  BY <1>1, BoundsAssumption, FS_CardinalityType
<1> QED
  BY <1>2, <1>3, <1>4, BoundsAssumption DEF Room

LEMMA QueueStart == Queue!Init => QueueInv
<1> SUFFICES ASSUME Queue!Init PROVE QueueInv
  OBVIOUS
<1>1. QueueTypes
  BY FS_EmptySet DEF Queue!Init, Queue!Idle, QueueTypes, Call
<1>2. Seen = {} /\ Holders = {}
  BY DEF Queue!Init, Queue!Idle, Seen, Holders, Holding
<1>3. IsFiniteSet({}) /\ Cardinality({}) = 0
  BY FS_EmptySet
<1>4. Cardinality(Job) \in Nat
  BY BoundsAssumption, FS_CardinalityType
<1>5. Room({}, {})
  BY <1>3, <1>4, BoundsAssumption DEF Room
<1> QED
  BY <1>1, <1>2, <1>5 DEF QueueInv

(* A call moves without getting room, and no container is made.            *)
LEMMA QueueMoves ==
  ASSUME QueueInv, NEW p \in Job, NEW j, Call(j), j.short \in BOOLEAN, j.blind \in BOOLEAN,
         Queue!Become(p, j), Holding(j) => Holding(job[p]),
         UNCHANGED <<boxes, blind>>
  PROVE  QueueInv'
<1>1. QueueTypes /\ Room(Seen, Holders)
  BY DEF QueueInv
<1>2. job' = [job EXCEPT ![p] = j]
  BY DEF Queue!Become
<1>3. QueueTypes'
  BY <1>1, <1>2 DEF QueueTypes
<1>4. Holders' \subseteq Holders
  BY <1>1, <1>2 DEF QueueTypes, Holders
<1>5. Seen' \subseteq Seen
  BY DEF Seen
<1>6. Holders \in SUBSET Job
  BY DEF Holders
<1>7. Room(Seen, Holders)'
  BY <1>1, <1>4, <1>5, <1>6, SmallerRoom
<1> QED
  BY <1>3, <1>7 DEF QueueInv

(* The calls that i becomes in one step.                                   *)
Near(i, a) == [pc : {i.pc, "look", "host", "boxes", "judge"}, kind : {i.kind, "connect", "round"},
               addr : {i.addr, a}, short : BOOLEAN, blind : BOOLEAN]

LEMMA NearItself ==
  ASSUME NEW i, Call(i), i.short \in BOOLEAN, i.blind \in BOOLEAN, NEW a
  PROVE  i \in Near(i, a)
  BY DEF Call, Near

LEMMA NearCall ==
  ASSUME NEW i, NEW a, NEW j \in Near(i, a)
  PROVE  Call(j) /\ j.short \in BOOLEAN /\ j.blind \in BOOLEAN
  BY DEF Call, Near

LEMMA QueueSteps ==
  ASSUME QueueInv, Mode = "enforce", NEW p \in Job,
         \/ \E a \in Tenant : Queue!Connect(p, a)
         \/ Queue!Looked(p) \/ Queue!HostChecked(p) \/ Queue!Enlist(p)
         \/ Queue!Admit(p) \/ Queue!Turn(p) \/ Queue!Shift(p)
  PROVE  QueueInv'
<1>1. QueueTypes /\ Call(job[p]) /\ job[p].short \in BOOLEAN /\ job[p].blind \in BOOLEAN
  BY DEF QueueInv, QueueTypes
<1>2. /\ Call(Queue!Idle) /\ Queue!Idle.pc = "idle"
      /\ Queue!Idle.short = FALSE /\ Queue!Idle.blind = FALSE
  BY DEF Call, Queue!Idle
<1>3. ASSUME NEW j, Call(j), j.short \in BOOLEAN, j.blind \in BOOLEAN,
             Holding(j) => Holding(job[p]), Queue!Become(p, j), UNCHANGED <<boxes, blind>>
      PROVE  QueueInv'
  BY <1>1, <1>3, QueueMoves DEF QueueTypes
<1>4. ASSUME NEW a \in Tenant, Queue!Connect(p, a) PROVE QueueInv'
  <2> DEFINE j == [Queue!Idle EXCEPT !.pc = "look", !.kind = "connect", !.addr = a]
  <2>1. Call(j) /\ j.pc = "look" /\ j.short \in BOOLEAN /\ j.blind \in BOOLEAN
    <3>1. Queue!Idle \in Near(Queue!Idle, a)
      BY <1>2, NearItself
    <3>2. j \in Near(Queue!Idle, a) /\ j.pc = "look"
      BY <3>1 DEF Near
    <3> HIDE DEF j
    <3> QED
      BY <3>2, NearCall
  <2>2. Queue!Become(p, j) /\ UNCHANGED <<boxes, blind>>
    BY <1>4 DEF Queue!Connect
  <2> HIDE DEF j
  <2> QED
    BY <1>3, <2>1, <2>2 DEF Holding
<1>5. ASSUME Queue!Looked(p) PROVE QueueInv'
  <2> DEFINE j == [job[p] EXCEPT !.pc = "host"]
  <2>1. /\ Call(j) /\ j.pc = "host" /\ j.short = job[p].short
        /\ j.blind = job[p].blind
    BY <1>1 DEF Call
  <2>2. (Queue!Become(p, j) \/ Queue!Become(p, Queue!Idle)) /\ UNCHANGED <<boxes, blind>>
    BY <1>5 DEF Queue!Looked
  <2> HIDE DEF j
  <2>3. ~Holding(j) /\ ~Holding(Queue!Idle)
    BY <1>2, <2>1 DEF Holding
  <2> QED
    BY <1>1, <1>2, <1>3, <2>1, <2>2, <2>3
<1>6. ASSUME Queue!HostChecked(p) PROVE QueueInv'
  <2>1. PICK short \in BOOLEAN : Queue!Become(p, [job[p] EXCEPT !.pc = "boxes", !.short = short])
    BY <1>6 DEF Queue!HostChecked
  <2> DEFINE j == [job[p] EXCEPT !.pc = "boxes", !.short = short]
  <2>2. Call(j) /\ j.pc = "boxes" /\ j.short \in BOOLEAN /\ j.blind \in BOOLEAN
    <3>1. job[p] \in Near(job[p], 0)
      BY <1>1, NearItself
    <3>2. j \in Near(job[p], 0) /\ j.pc = "boxes"
      BY <3>1 DEF Near
    <3> HIDE DEF j
    <3> QED
      BY <3>2, NearCall
  <2>3. Queue!Become(p, j) /\ UNCHANGED <<boxes, blind>>
    BY <1>6, <2>1 DEF Queue!HostChecked
  <2> HIDE DEF j
  <2>4. ~Holding(j)
    BY <2>2 DEF Holding
  <2> QED
    BY <1>3, <2>2, <2>3, <2>4
<1>7. ASSUME Queue!Enlist(p) PROVE QueueInv'
  <2>1. Queue!Become(p, Queue!Idle) /\ UNCHANGED <<boxes, blind>>
    BY <1>7 DEF Queue!Enlist
  <2> QED
    BY <1>2, <1>3, <2>1 DEF Holding
<1>8. ASSUME Queue!Admit(p) PROVE QueueInv'
  <2> DEFINE j == [job[p] EXCEPT !.pc = "create"]
  <2>1. Call(j) /\ j.short = job[p].short /\ j.blind = job[p].blind
    BY <1>1 DEF Call
  <2>2. /\ Queue!Become(p, j) /\ UNCHANGED <<boxes, blind>>
        /\ Holding(j) => Holding(job[p])
    BY <1>8, <2>1 DEF Queue!Admit, Queue!Judged, Queue!Refused, Queue!At, Holding
  <2> HIDE DEF j
  <2> QED
    BY <1>1, <1>3, <2>1, <2>2
<1>9. ASSUME Queue!Turn(p) PROVE QueueInv'
  <2> DEFINE j == [Queue!Idle EXCEPT !.pc = "host", !.kind = "round"]
  <2>1. Call(j) /\ j.pc = "host" /\ j.short \in BOOLEAN /\ j.blind \in BOOLEAN
    <3>1. Queue!Idle \in Near(Queue!Idle, 0)
      BY <1>2, NearItself
    <3>2. j \in Near(Queue!Idle, 0) /\ j.pc = "host"
      BY <3>1 DEF Near
    <3> HIDE DEF j
    <3> QED
      BY <3>2, NearCall
  <2>2. Queue!Become(p, j) /\ UNCHANGED <<boxes, blind>>
    BY <1>9 DEF Queue!Turn
  <2> HIDE DEF j
  <2> QED
    BY <1>3, <2>1, <2>2 DEF Holding
<1>10. ASSUME Queue!Shift(p) PROVE QueueInv'
  <2> DEFINE j == [Queue!Idle EXCEPT !.pc = "look", !.kind = "connect", !.addr = Head(queue).addr]
  <2>1. Call(j) /\ j.pc = "look" /\ j.short \in BOOLEAN /\ j.blind \in BOOLEAN
    <3>1. Queue!Idle \in Near(Queue!Idle, Head(queue).addr)
      BY <1>2, NearItself
    <3>2. j \in Near(Queue!Idle, Head(queue).addr) /\ j.pc = "look"
      BY <3>1 DEF Near
    <3> HIDE DEF j
    <3> QED
      BY <3>2, NearCall
  <2>2. (Queue!Become(p, j) \/ Queue!Become(p, Queue!Idle)) /\ UNCHANGED <<boxes, blind>>
    BY <1>10 DEF Queue!Shift
  <2> HIDE DEF j
  <2>3. ~Holding(j) /\ ~Holding(Queue!Idle)
    BY <1>2, <2>1 DEF Holding
  <2> QED
    BY <1>2, <1>3, <2>1, <2>2, <2>3
<1> QED
  BY <1>4, <1>5, <1>6, <1>7, <1>8, <1>9, <1>10

(* What a check says of a call it lets go on: there was room, or it says   *)
(* that the count had failed.                                              *)
LEMMA QueueChecks ==
  ASSUME QueueInv, NEW p \in Job, Queue!BoxesChecked(p)
  PROVE  QueueInv'
<1>1. /\ QueueTypes /\ Call(job[p]) /\ job[p].short \in BOOLEAN /\ job[p].blind \in BOOLEAN
      /\ Room(Seen, Holders) /\ UNCHANGED <<boxes, blind>>
  BY DEF QueueInv, QueueTypes, Queue!BoxesChecked
<1>2. Queue!NoBoxLeft \in BOOLEAN
  BY DEF Queue!NoBoxLeft
<1>3. PICK j : /\ Queue!Become(p, j) /\ Call(j) /\ j.short \in BOOLEAN /\ j.blind \in BOOLEAN
               /\ Queue!NoBoxLeft => ~Holding(j)
  <2> DEFINE s == job[p].short \/ Queue!NoBoxLeft
             counted == [job[p] EXCEPT !.pc = "judge", !.short = @ \/ Queue!NoBoxLeft]
             failed == [job[p] EXCEPT !.pc = "judge", !.blind = Queue!NoBoxLeft]
  <2>1. Queue!Become(p, counted) \/ Queue!Become(p, failed)
    BY DEF Queue!BoxesChecked
  <2>2. job[p] \in Near(job[p], 0) /\ s \in BOOLEAN
    BY <1>1, NearItself
  <2>3. counted \in Near(job[p], 0) /\ counted.short = s
    BY <2>2 DEF Near
  <2>4. /\ failed \in Near(job[p], 0) /\ failed.blind = Queue!NoBoxLeft
    BY <1>2, <2>2 DEF Near
  <2>5. counted.pc = "judge" /\ failed.pc = "judge"
    BY <2>2 DEF Near
  <2> HIDE DEF counted, failed
  <2>6. /\ Call(counted) /\ counted.short \in BOOLEAN /\ counted.blind \in BOOLEAN
        /\ Call(failed) /\ failed.short \in BOOLEAN /\ failed.blind \in BOOLEAN
    BY <2>3, <2>4, NearCall
  <2>7. Queue!NoBoxLeft => ~Holding(counted) /\ ~Holding(failed)
    BY <2>3, <2>4, <2>5 DEF Holding
  <2> QED
    BY <2>1, <2>6, <2>7
<1>4. CASE Queue!NoBoxLeft
  BY <1>1, <1>3, <1>4, QueueMoves
<1>5. CASE ~Queue!NoBoxLeft
  <2>1. Queue!Cardinality(boxes) = Cardinality(boxes)
    BY DEF Queue!Cardinality, Cardinality
  <2>2. IsFiniteSet(boxes) /\ Cardinality(boxes) \in Nat
    BY <1>1, FS_CardinalityType DEF QueueTypes
  <2>3. Cardinality(boxes) < MaxBoxes
    BY <1>5, <2>1, <2>2, BoundsAssumption DEF Queue!NoBoxLeft
  <2>4. IsFiniteSet(Seen) /\ Cardinality(Seen) <= Cardinality(boxes) /\ Cardinality(Seen) \in Nat
    BY <2>2, FS_Subset, FS_CardinalityType DEF Seen
  <2>5. Cardinality(Seen) < MaxBoxes /\ Holders' \in SUBSET Job
    BY <2>2, <2>3, <2>4, BoundsAssumption DEF Holders
  <2>6. QueueTypes' /\ Seen' = Seen
    BY <1>1, <1>3 DEF QueueTypes, Queue!Become, Seen
  <2>7. Room(Seen', Holders')
    BY <2>4, <2>5, <2>6, CheckedRoom
  <2> QED
    BY <2>6, <2>7 DEF QueueInv, Room
<1> QED
  BY <1>4, <1>5

LEMMA QueueCreates ==
  ASSUME QueueInv, NEW p \in Job, Queue!Create(p)
  PROVE  QueueInv'
<1>1. /\ QueueTypes /\ Room(Seen, Holders) /\ Holders \in SUBSET Job
      /\ job[p].blind \in BOOLEAN
  BY DEF QueueInv, QueueTypes, Holders
<1>2. job' = [job EXCEPT ![p] = Queue!Idle] /\ job[p].pc = "create"
  BY DEF Queue!Create, Queue!Become, Queue!At
<1>3. \/ /\ boxes' = boxes \cup {job[p].addr}
         /\ blind' = IF job[p].blind THEN blind \cup ({job[p].addr} \ boxes) ELSE blind
      \/ UNCHANGED <<boxes, blind>>
  BY DEF Queue!Create
<1>4. /\ Call(Queue!Idle) /\ Queue!Idle.pc = "idle" /\ Queue!Idle.short \in BOOLEAN
      /\ Queue!Idle.blind \in BOOLEAN
  BY DEF Queue!Idle, Call
<1>5. QueueTypes'
  <2>1. IsFiniteSet(boxes \cup {job[p].addr})
    BY <1>1, FS_AddElement DEF QueueTypes
  <2>2. IsFiniteSet(boxes')
    BY <1>1, <1>3, <2>1 DEF QueueTypes
  <2> QED
    BY <1>1, <1>2, <1>4, <2>2 DEF QueueTypes
<1>6. Holders' \subseteq Holders \ {p}
  BY <1>1, <1>2, <1>4 DEF QueueTypes, Holders, Holding
<1>7. CASE job[p].blind
  <2>1. Seen' \subseteq Seen
    BY <1>1, <1>3, <1>7 DEF QueueTypes, Seen
  <2>2. Room(Seen', Holders')
    BY <1>1, <1>6, <2>1, SmallerRoom
  <2> QED
    BY <1>5, <2>2 DEF QueueInv, Room
<1>8. CASE ~job[p].blind
  <2>1. p \in Holders
    BY <1>2, <1>8 DEF Holders, Holding
  <2>2. Seen' \subseteq Seen \cup {job[p].addr}
    BY <1>1, <1>3, <1>8 DEF QueueTypes, Seen
  <2>3. Room(Seen \cup {job[p].addr}, Holders \ {p})
    BY <1>1, <2>1, UsedRoom
  <2>4. Room(Seen', Holders')
    BY <1>1, <1>6, <2>2, <2>3, SmallerRoom
  <2> QED
    BY <1>5, <2>4 DEF QueueInv, Room
<1> QED
  BY <1>1, <1>7, <1>8

(* The tenant's own operations make no container, and time makes none.     *)
LEMMA QueueOthers ==
  ASSUME QueueInv,
         \/ \E a \in Tenant : Queue!Remove(a)
         \/ \E i \in 1 .. MaxQueue : Queue!Age(i)
         \/ UNCHANGED queueVars
  PROVE  QueueInv'
<1>1. QueueTypes /\ Room(Seen, Holders) /\ Holders \in SUBSET Job
  BY DEF QueueInv, Holders
<1>2. UNCHANGED job /\ boxes' \subseteq boxes /\ Seen' \subseteq Seen
  BY DEF Queue!Remove, Queue!Age, queueVars, Seen
<1>3. QueueTypes' /\ Holders' = Holders
  BY <1>1, <1>2, FS_Subset DEF QueueTypes, Holders
<1>4. Room(Seen', Holders')
  BY <1>1, <1>2, <1>3, SmallerRoom
<1> QED
  BY <1>3, <1>4 DEF QueueInv, Room

(* The containers that were made on a count docker answered exceed the     *)
(* limit at most by the calls under way besides one, whatever the limit,   *)
(* the calls and the tenants, however checks, creations and rounds of the  *)
(* processor overlap (user.service.js:297), and however many containers a  *)
(* failed docker ps let in besides (docker.service.js:1281).               *)
THEOREM RoomExceeded == PartSpec => []Overshoot
<1> DEFINE I == part = "queue" /\ Mode = "enforce" => QueueInv
<1>1. PartInit => I
  BY QueueStart DEF PartInit
<1>2. I /\ [PartNext]_PartVars => I'
  <2> SUFFICES ASSUME I, [PartNext]_PartVars, part' = "queue", Mode = "enforce" PROVE QueueInv'
    OBVIOUS
  <2>1. part = "queue"
    BY DEF PartNext, PartVars
  <2>2. Queue!Next \/ UNCHANGED queueVars
    BY <2>1 DEF PartNext, PartVars
  <2> QED
    BY <2>1, <2>2, QueueSteps, QueueChecks, QueueCreates, QueueOthers DEF Queue!Next
<1>3. I => Overshoot
  <2> SUFFICES ASSUME QueueInv
               PROVE  Queue!Cardinality(Seen) < MaxBoxes + Queue!Cardinality(Job)
    BY DEF Overshoot, Queue!Overshoot, Seen
  <2>1. \A S : Queue!Cardinality(S) = Cardinality(S)
    BY DEF Queue!Cardinality, Cardinality
  <2>2. Room(Seen, Holders) /\ Holders \in SUBSET Job
    BY DEF QueueInv, Holders
  <2>3. IsFiniteSet(Holders) /\ IsFiniteSet(Seen)
    BY <2>2, BoundsAssumption, FS_Subset DEF Room
  <2>4. Cardinality(Seen) \in Nat /\ Cardinality(Holders) \in Nat /\ Cardinality(Job) \in Nat
    BY <2>3, BoundsAssumption, FS_CardinalityType
  <2>5. Cardinality(Seen) < MaxBoxes + Cardinality(Job)
    BY <2>2, <2>4, BoundsAssumption DEF Room
  <2> QED
    BY <2>1, <2>5
<1> QED
  BY <1>1, <1>2, <1>3, PTL DEF PartSpec, PartVars

-----------------------------------------------------------------------------
(* The waiting list.  No tenant is in it twice and what is older than an   *)
(* hour is in front, so that to clean it is to take a suffix: a tenant     *)
(* moves up by as many places as were left, or is itself among those that  *)
(* leave.                                                                  *)

WaitEntry == [addr : Tenant, old : BOOLEAN]
CallTask == [pc : {"idle", "look", "host", "boxes", "judge", "create"},
             kind : {"none", "connect", "round"}, addr : Tenant \cup {"none"}, short : BOOLEAN,
             blind : BOOLEAN]
Distinct(q) == \A i, k \in 1 .. Len(q) : q[i].addr = q[k].addr => i = k
Aged(q, n) == \A i \in 1 .. Len(q) : q[i].old <=> i <= n
ListTypes == /\ queue \in Seq(WaitEntry) /\ Len(queue) <= MaxQueue
             /\ job \in [Job -> CallTask]
             /\ \A p \in Job : job[p].kind = "connect" => job[p].addr \in Tenant
ListInv == /\ ListTypes /\ Distinct(queue)
           /\ \E n \in 0 .. Len(queue) : Aged(queue, n)

LEMMA EntryFacts ==
  ASSUME NEW q \in Seq(WaitEntry)
  PROVE  /\ Len(q) \in Nat /\ DOMAIN q = 1 .. Len(q)
         /\ \A i \in 1 .. Len(q) : q[i] \in WaitEntry /\ q[i].addr \in Tenant /\ q[i].old \in BOOLEAN
         /\ Queue!Waiting(q) = {q[i].addr : i \in 1 .. Len(q)}
<1>1. Len(q) \in Nat /\ DOMAIN q = 1 .. Len(q) /\ \A i \in 1 .. Len(q) : q[i] \in WaitEntry
  OBVIOUS
<1>2. \A e \in WaitEntry : e.addr \in Tenant /\ e.old \in BOOLEAN
  BY DEF WaitEntry
<1> QED
  BY <1>1, <1>2 DEF Queue!Waiting

LEMMA PlaceRight ==
  ASSUME NEW q \in Seq(WaitEntry), Distinct(q), NEW i \in 1 .. Len(q)
  PROVE  Queue!Place(q, q[i].addr) = i
  BY EntryFacts DEF Distinct, Queue!Place

(* Who is not later in another list is not placed later.                   *)
LEMMA NotLater ==
  ASSUME NEW q \in Seq(WaitEntry), NEW r \in Seq(WaitEntry), Distinct(q), Distinct(r),
         NEW i \in 1 .. Len(q), NEW k \in 1 .. Len(r), q[i].addr = r[k].addr, k <= i
  PROVE  Queue!Place(r, q[i].addr) <= Queue!Place(q, q[i].addr)
<1>1. Queue!Place(q, q[i].addr) = i /\ Queue!Place(r, r[k].addr) = k
  BY PlaceRight
<1> QED
  BY <1>1

LEMMA WaitingSize ==
  ASSUME NEW q \in Seq(WaitEntry), Distinct(q)
  PROVE  Queue!Cardinality(Queue!Waiting(q)) = Len(q)
<1> DEFINE f == [i \in 1 .. Len(q) |-> q[i].addr]
<1>1. Len(q) \in Nat /\ Queue!Waiting(q) = {q[i].addr : i \in 1 .. Len(q)}
  BY EntryFacts
<1>2. f \in Bijection(1 .. Len(q), Queue!Waiting(q))
  BY <1>1 DEF Distinct, Bijection, Injection, Surjection, IsInjective
<1>3. Cardinality(Queue!Waiting(q)) = Len(q)
  BY <1>1, <1>2, FS_CountingElements DEF ExistsBijection
<1> QED
  BY <1>3 DEF Queue!Cardinality, Cardinality

LEMMA Suffix ==
  ASSUME NEW q \in Seq(WaitEntry), NEW d \in 0 .. Len(q), NEW r \in Seq(WaitEntry), Distinct(q),
         Len(r) = Len(q) - d, \A k \in 1 .. Len(r) : r[k] = q[k + d]
  PROVE  /\ Distinct(r) /\ \A k \in 1 .. Len(r) : k + d \in 1 .. Len(q)
         /\ \A a \in Queue!Waiting(q) \ Queue!Waiting(r) : Queue!Place(q, a) \in 1 .. d
<1>1. Len(q) \in Nat /\ \A k \in 1 .. Len(r) : k + d \in 1 .. Len(q) /\ r[k] = q[k + d]
  OBVIOUS
<1>2. Distinct(r)
  <2> SUFFICES ASSUME NEW i \in 1 .. Len(r), NEW k \in 1 .. Len(r), r[i].addr = r[k].addr
               PROVE  i = k
    BY DEF Distinct
  <2>1. i + d = k + d
    BY <1>1 DEF Distinct
  <2> QED
    BY <1>1, <2>1
<1>3. ASSUME NEW a \in Queue!Waiting(q) \ Queue!Waiting(r)
      PROVE  Queue!Place(q, a) \in 1 .. d
  <2>1. PICK i \in 1 .. Len(q) : a = q[i].addr
    BY EntryFacts
  <2>2. ~(i > d)
    <3> SUFFICES ASSUME i > d PROVE FALSE
      OBVIOUS
    <3>1. i - d \in 1 .. Len(r) /\ r[i - d] = q[i]
      BY <1>1
    <3>2. r[i - d].addr \in Queue!Waiting(r)
      BY <1>1, <3>1, EntryFacts
    <3> QED
      BY <2>1, <3>1, <3>2
  <2> QED
    BY <2>1, <2>2, PlaceRight
<1> QED
  BY <1>1, <1>2, <1>3

(* The function that Fresh chooses: what is kept of the first i entries.   *)
Sifted(q, f) == [i \in 0 .. Len(q) |-> CASE i = 0 -> <<>>
                                         [] i # 0 /\ q[i].old -> f[i - 1]
                                         [] OTHER -> Append(f[i - 1], q[i])]

LEMMA FreshSuffix ==
  ASSUME NEW q \in Seq(WaitEntry), NEW n \in 0 .. Len(q), Aged(q, n)
  PROVE  Queue!Fresh(q) = SubSeq(q, n + 1, Len(q))
<1> USE DEF Aged
<1> DEFINE kept == [i \in 0 .. Len(q) |-> SubSeq(q, n + 1, i)]
<1>1. \A i \in 1 .. Len(q) : IF q[i].old THEN kept[i] = kept[i - 1]
                             ELSE kept[i] = Append(kept[i - 1], q[i])
  <2> SUFFICES ASSUME NEW i \in 1 .. Len(q)
               PROVE  IF q[i].old THEN SubSeq(q, n + 1, i) = SubSeq(q, n + 1, i - 1)
                      ELSE SubSeq(q, n + 1, i) = Append(SubSeq(q, n + 1, i - 1), q[i])
    <3>1. Len(q) \in Nat /\ \A i \in 1 .. Len(q) : i \in 0 .. Len(q) /\ i - 1 \in 0 .. Len(q)
      OBVIOUS
    <3> QED
      BY <3>1
  <2>1. CASE i <= n
    BY <2>1, SubSeqEmpty
  <2>2. CASE n < i
    <3>1. SubSeq(q, n + 1, i) = SubSeq(q, n + 1, i - 1) \o <<q[i]>>
      BY <2>2, SubSeqRecursiveSecond
    <3>2. SubSeq(q, n + 1, i - 1) \in Seq(WaitEntry) /\ q[i] \in WaitEntry
      BY <2>2
    <3> QED
      BY <2>2, <3>1, <3>2, AppendIsConcat
  <2> QED
    BY <2>1, <2>2
<1>2. kept[0] = <<>>
  BY SubSeqEmpty
<1>3. kept = Sifted(q, kept)
  <2> HIDE DEF kept
  <2>1. ASSUME NEW i \in 0 .. Len(q)
        PROVE  Sifted(q, kept)[i] = kept[i]
    <3>1. CASE i = 0
      BY <1>2, <3>1 DEF Sifted
    <3>2. CASE i # 0
      <4>1. i \in 1 .. Len(q)
        BY <3>2
      <4> QED
        BY <1>1, <3>2, <4>1 DEF Sifted
    <3> QED
      BY <3>1, <3>2
  <2>2. DOMAIN kept = 0 .. Len(q) /\ kept = [i \in DOMAIN kept |-> kept[i]]
    BY DEF kept
  <2> QED
    BY <2>1, <2>2 DEF Sifted
<1> HIDE DEF kept
<1> DEFINE chosen == CHOOSE f : f = Sifted(q, f)
<1>4. chosen = Sifted(q, chosen)
  BY <1>3
<1>5. Queue!Fresh(q) = chosen[Len(q)]
  BY DEF Queue!Fresh, Sifted
<1> HIDE DEF chosen
(* The least index where they differ, if there were one.                   *)
<1>6. \A i \in 0 .. Len(q) : chosen[i] = kept[i]
  <2> DEFINE T == {i \in 0 .. Len(q) : chosen[i] # kept[i]}
  <2> SUFFICES ASSUME T # {} PROVE FALSE
    OBVIOUS
  <2>0. T \subseteq Nat
    OBVIOUS
  <2> HIDE DEF T
  <2>1. PICK i \in T : \A j \in T : i <= j
    BY <2>0, LeastPlace, Zenon
  <2> USE DEF T
  <2>2. CASE i = 0
    BY <1>2, <1>4, <2>1, <2>2 DEF Sifted
  <2>3. CASE i # 0
    <3>1. i \in 1 .. Len(q) /\ i - 1 \in 0 .. Len(q) /\ chosen[i - 1] = kept[i - 1]
      BY <2>1, <2>3
    <3>2. chosen[i] = IF q[i].old THEN chosen[i - 1] ELSE Append(chosen[i - 1], q[i])
      BY <1>4, <2>3, <3>1 DEF Sifted
    <3> QED
      BY <1>1, <2>1, <2>3, <3>1, <3>2
  <2> QED
    BY <2>2, <2>3
<1> QED
  BY <1>5, <1>6 DEF kept

LEMMA ListFirst == Queue!Init => ListInv
<1> SUFFICES ASSUME Queue!Init PROVE ListInv
  OBVIOUS
<1>1. queue = <<>> /\ Len(queue) = 0 /\ queue \in Seq(WaitEntry)
  BY DEF Queue!Init
<1>2. ListTypes
  BY <1>1, BoundsAssumption DEF ListTypes, Queue!Init, Queue!Idle, CallTask
<1>3. Distinct(queue) /\ Aged(queue, 0) /\ 0 \in 0 .. Len(queue)
  BY <1>1 DEF Distinct, Aged
<1> QED
  BY <1>2, <1>3 DEF ListInv

(* The calls keep their types; who comes to the list or to a container     *)
(* with a tenant's request names the tenant.                               *)
LEMMA CallMoves ==
  ASSUME ListTypes, NEW p \in Job, NEW j \in CallTask, Queue!Become(p, j),
         j.kind = "connect" => j.addr \in Tenant
  PROVE  /\ job' \in [Job -> CallTask]
         /\ \A b \in Job : job'[b].kind = "connect" => job'[b].addr \in Tenant
         /\ job'[p] = j
  BY DEF ListTypes, Queue!Become

LEMMA CallSteps ==
  ASSUME ListTypes, NEW p \in Job,
         \/ \E a \in Tenant : Queue!Connect(p, a)
         \/ Queue!Looked(p) \/ Queue!HostChecked(p) \/ Queue!BoxesChecked(p)
         \/ Queue!Enlist(p) \/ Queue!Admit(p) \/ Queue!Create(p) \/ Queue!Turn(p)
         \/ (Queue!Shift(p) /\ (queue = <<>> \/ Head(queue).addr \in Tenant))
  PROVE  /\ job' \in [Job -> CallTask]
         /\ \A b \in Job : job'[b].kind = "connect" => job'[b].addr \in Tenant
<1> DEFINE Aim == /\ job' \in [Job -> CallTask]
                  /\ \A b \in Job : job'[b].kind = "connect" => job'[b].addr \in Tenant
<1>1. /\ job[p] \in CallTask /\ job[p].short \in BOOLEAN
      /\ job[p].kind = "connect" => job[p].addr \in Tenant
  BY DEF ListTypes, CallTask
<1>2. Queue!Idle \in CallTask /\ Queue!Idle.kind = "none"
  BY DEF Queue!Idle, CallTask
<1>3. ASSUME NEW j \in CallTask, Queue!Become(p, j), j.kind = "connect" => j.addr \in Tenant
      PROVE  Aim
  BY <1>3, CallMoves
<1> HIDE DEF Aim
<1>4. ASSUME NEW a \in Tenant, Queue!Connect(p, a) PROVE Aim
  <2> DEFINE j == [Queue!Idle EXCEPT !.pc = "look", !.kind = "connect", !.addr = a]
  <2>1. j \in CallTask /\ j.kind = "connect" /\ j.addr = a
    BY DEF Queue!Idle, CallTask
  <2>2. Queue!Become(p, j)
    BY <1>4 DEF Queue!Connect
  <2> HIDE DEF j
  <2> QED
    BY <1>3, <2>1, <2>2
<1>5. ASSUME Queue!Looked(p) PROVE Aim
  <2> DEFINE j == [job[p] EXCEPT !.pc = "host"]
  <2>1. Queue!Become(p, Queue!Idle) \/ Queue!Become(p, j)
    BY <1>5 DEF Queue!Looked
  <2>2. j \in CallTask /\ j.kind = job[p].kind /\ j.addr = job[p].addr
    BY <1>1 DEF CallTask
  <2> HIDE DEF j
  <2> QED
    BY <1>1, <1>2, <1>3, <2>1, <2>2
<1>6. ASSUME Queue!HostChecked(p) PROVE Aim
  <2>1. PICK short \in BOOLEAN : Queue!Become(p, [job[p] EXCEPT !.pc = "boxes", !.short = short])
    BY <1>6 DEF Queue!HostChecked
  <2> DEFINE j == [job[p] EXCEPT !.pc = "boxes", !.short = short]
  <2>2. j \in CallTask /\ j.kind = job[p].kind /\ j.addr = job[p].addr
    BY <1>1 DEF CallTask
  <2>3. Queue!Become(p, j)
    BY <1>6, <2>1 DEF Queue!HostChecked
  <2> HIDE DEF j
  <2> QED
    BY <1>1, <1>3, <2>2, <2>3
<1>7. ASSUME Queue!BoxesChecked(p) PROVE Aim
  <2> DEFINE b == job[p].short \/ Queue!NoBoxLeft
             counted == [job[p] EXCEPT !.pc = "judge", !.short = @ \/ Queue!NoBoxLeft]
             failed == [job[p] EXCEPT !.pc = "judge", !.blind = Queue!NoBoxLeft]
  <2>1. Queue!Become(p, counted) \/ Queue!Become(p, failed)
    BY <1>7 DEF Queue!BoxesChecked
  <2>2. b \in BOOLEAN /\ Queue!NoBoxLeft \in BOOLEAN
    BY DEF Queue!NoBoxLeft
  <2>3. counted \in CallTask /\ counted.kind = job[p].kind /\ counted.addr = job[p].addr
    BY <1>1, <2>2 DEF CallTask
  <2>4. failed \in CallTask /\ failed.kind = job[p].kind /\ failed.addr = job[p].addr
    BY <1>1, <2>2 DEF CallTask
  <2> HIDE DEF counted, failed
  <2> QED
    BY <1>1, <1>3, <2>1, <2>3, <2>4
<1>8. ASSUME Queue!Enlist(p) PROVE Aim
  BY <1>2, <1>3, <1>8 DEF Queue!Enlist
<1>9. ASSUME Queue!Admit(p) PROVE Aim
  <2> DEFINE j == [job[p] EXCEPT !.pc = "create"]
  <2>1. j \in CallTask /\ j.kind = job[p].kind /\ j.addr = job[p].addr
    BY <1>1 DEF CallTask
  <2>2. Queue!Become(p, j)
    BY <1>9 DEF Queue!Admit
  <2> HIDE DEF j
  <2> QED
    BY <1>1, <1>3, <2>1, <2>2
<1>10. ASSUME Queue!Create(p) PROVE Aim
  BY <1>2, <1>3, <1>10 DEF Queue!Create
<1>11. ASSUME Queue!Turn(p) PROVE Aim
  <2> DEFINE j == [Queue!Idle EXCEPT !.pc = "host", !.kind = "round"]
  <2>1. j \in CallTask /\ j.kind = "round"
    BY DEF Queue!Idle, CallTask
  <2>2. Queue!Become(p, j)
    BY <1>11 DEF Queue!Turn
  <2> HIDE DEF j
  <2> QED
    BY <1>3, <2>1, <2>2
<1>12. ASSUME Queue!Shift(p), queue = <<>> \/ Head(queue).addr \in Tenant PROVE Aim
  <2> DEFINE a == Head(queue).addr
             j == [Queue!Idle EXCEPT !.pc = "look", !.kind = "connect", !.addr = a]
  <2>1. \/ Queue!Become(p, Queue!Idle)
        \/ queue # <<>> /\ Queue!Become(p, j)
    BY <1>12 DEF Queue!Shift
  <2> HIDE DEF a
  <2>2. a \in Tenant => j \in CallTask /\ j.kind = "connect" /\ j.addr = a
    BY DEF Queue!Idle, CallTask
  <2> HIDE DEF j
  <2>3. queue # <<>> => a \in Tenant
    BY <1>12 DEF a
  <2> QED
    BY <1>2, <1>3, <2>1, <2>2, <2>3
<1> QED
  BY <1>4, <1>5, <1>6, <1>7, <1>8, <1>9, <1>10, <1>11, <1>12 DEF Aim

(* What a step owes: everybody who stays keeps the place or moves up.      *)
LEMMA ListMoved ==
  ASSUME ListInv, queue' \in Seq(WaitEntry), Distinct(queue'),
         \A k \in 1 .. Len(queue') : queue'[k].addr \in Queue!Waiting(Queue!Fresh(queue)) =>
           \E i \in 1 .. Len(queue) : k <= i /\ queue[i].addr = queue'[k].addr,
         \A a \in Queue!Waiting(queue) \ Queue!Waiting(queue') :
           \/ queue[Queue!Place(queue, a)].old
           \/ \E p \in Job : ~Queue!At(p, "look") /\ job'[p].pc = "look" /\ job'[p].addr = a
  PROVE  Queue!QueueStep
<1>1. ASSUME NEW a \in Queue!Waiting(Queue!Fresh(queue)) \cap Queue!Waiting(queue')
      PROVE  Queue!Place(queue', a) <= Queue!Place(queue, a)
  <2>1. PICK k \in 1 .. Len(queue') : a = queue'[k].addr
    BY EntryFacts
  <2>2. PICK i \in 1 .. Len(queue) : k <= i /\ queue[i].addr = queue'[k].addr
    BY <2>1
  <2>3. queue \in Seq(WaitEntry) /\ Distinct(queue)
    BY DEF ListInv, ListTypes
  <2>4. Queue!Place(queue', queue[i].addr) <= Queue!Place(queue, queue[i].addr)
    BY <2>2, <2>3, NotLater
  <2> QED
    BY <2>1, <2>2, <2>4
<1>2. Queue!Cardinality(Queue!Waiting(queue')) = Len(queue')
  BY WaitingSize
<1> QED
  BY <1>1, <1>2 DEF Queue!QueueStep

LEMMA ListKept ==
  ASSUME ListInv, UNCHANGED queue, job' \in [Job -> CallTask],
         \A b \in Job : job'[b].kind = "connect" => job'[b].addr \in Tenant
  PROVE  ListInv' /\ Queue!QueueStep
<1>1. ListInv'
  BY DEF ListInv, ListTypes, Distinct, Aged
<1>2. queue \in Seq(WaitEntry) /\ Distinct(queue)
  BY DEF ListInv, ListTypes
<1>3. \A k \in 1 .. Len(queue') : k <= k /\ queue'[k].addr = queue[k].addr /\ k \in 1 .. Len(queue)
  BY <1>2
<1>4. queue' \in Seq(WaitEntry) /\ Distinct(queue')
  BY <1>2 DEF Distinct
<1>5. Queue!Waiting(queue') = Queue!Waiting(queue)
  BY DEF Queue!Waiting
<1> QED
  BY <1>1, <1>3, <1>4, <1>5, ListMoved

(* An entry gets older than an hour: those before it are.                  *)
LEMMA ListAges ==
  ASSUME ListInv, NEW m \in 1 .. MaxQueue, Queue!Age(m)
  PROVE  ListInv' /\ Queue!QueueStep
<1>1. /\ queue \in Seq(WaitEntry) /\ Distinct(queue) /\ m \in 1 .. Len(queue)
      /\ ~queue[m].old /\ \A k \in 1 .. m - 1 : queue[k].old
      /\ queue' = [queue EXCEPT ![m].old = TRUE] /\ UNCHANGED job /\ ListTypes
  BY DEF ListInv, ListTypes, Queue!Age
<1>2. PICK n \in 0 .. Len(queue) : Aged(queue, n)
  BY DEF ListInv
<1>3. m = n + 1
  <2>1. n < m
    BY <1>1, <1>2 DEF Aged
  <2>2. ~(n + 1 < m)
    BY <1>1, <1>2 DEF Aged
  <2> QED
    BY <1>1, <1>2, <2>1, <2>2
<1> DEFINE e == [queue[m] EXCEPT !.old = TRUE]
<1>4. e \in WaitEntry /\ e.addr = queue[m].addr /\ e.old = TRUE
  <2>1. PICK x \in WaitEntry : x = queue[m]
    BY <1>1
  <2>2. e = [x EXCEPT !.old = TRUE]
    BY <2>1
  <2> HIDE DEF e
  <2> QED
    BY <2>1, <2>2 DEF WaitEntry
<1>5. queue' = [queue EXCEPT ![m] = e]
  BY <1>1
<1> HIDE DEF e
<1>6. /\ queue' \in Seq(WaitEntry) /\ Len(queue') = Len(queue)
      /\ \A i \in 1 .. Len(queue) : queue'[i] = IF i = m THEN e ELSE queue[i]
  <2>1. PICK q \in Seq(WaitEntry) : q = queue
    BY <1>1
  <2>2. /\ [q EXCEPT ![m] = e] \in Seq(WaitEntry) /\ Len([q EXCEPT ![m] = e]) = Len(q)
        /\ \A i \in 1 .. Len(q) : [q EXCEPT ![m] = e][i] = IF i = m THEN e ELSE q[i]
    BY <1>1, <1>4, <2>1, ExceptSeq
  <2> QED
    BY <1>5, <2>1, <2>2
<1>7. \A i \in 1 .. Len(queue) : queue'[i].addr = queue[i].addr
  BY <1>4, <1>6
<1>8. Distinct(queue')
  BY <1>1, <1>6, <1>7 DEF Distinct
<1>9. Aged(queue', m)
  <2> SUFFICES ASSUME NEW i \in 1 .. Len(queue) PROVE queue'[i].old <=> i <= m
    BY <1>6 DEF Aged
  <2> QED
    BY <1>1, <1>2, <1>3, <1>4, <1>6 DEF Aged
<1>10. ListInv'
  <2>1. m \in 0 .. Len(queue')
    BY <1>1, <1>6
  <2>2. ListTypes'
    BY <1>1, <1>6 DEF ListTypes
  <2> QED
    BY <1>8, <1>9, <2>1, <2>2 DEF ListInv
<1>11. Queue!Waiting(queue') = Queue!Waiting(queue)
  <2>1. /\ Queue!Waiting(queue') = {queue'[i].addr : i \in 1 .. Len(queue')}
        /\ Queue!Waiting(queue) = {queue[i].addr : i \in 1 .. Len(queue)}
    BY <1>1, <1>6, EntryFacts
  <2> QED
    BY <1>6, <1>7, <2>1
<1>12. \A k \in 1 .. Len(queue') : k <= k /\ k \in 1 .. Len(queue) /\ queue[k].addr = queue'[k].addr
  BY <1>6, <1>7
<1> QED
  BY <1>6, <1>8, <1>10, <1>11, <1>12, ListMoved

(* A refused tenant: the old entries go, and it waits behind the others.   *)
LEMMA ListEnlists ==
  ASSUME ListInv, NEW p \in Job, Queue!Enlist(p)
  PROVE  ListInv' /\ Queue!QueueStep
<1> DEFINE a == job[p].addr
           r == Queue!Fresh(queue)
           e == [addr |-> a, old |-> FALSE]
<1>1. /\ queue \in Seq(WaitEntry) /\ Distinct(queue) /\ Len(queue) <= MaxQueue /\ ListTypes
      /\ job[p].kind = "connect" /\ a \in Tenant
      /\ queue' = IF a \in Queue!Waiting(r) \/ Len(r) >= MaxQueue THEN r ELSE Append(r, e)
  BY DEF ListInv, ListTypes, Queue!Enlist, Queue!Judged, Queue!Enlisted
<1>2. /\ job' \in [Job -> CallTask]
      /\ \A b \in Job : job'[b].kind = "connect" => job'[b].addr \in Tenant
  BY <1>1, CallSteps
<1>3. PICK n \in 0 .. Len(queue) : Aged(queue, n)
  BY DEF ListInv
<1>4. r = SubSeq(queue, n + 1, Len(queue))
  BY <1>1, <1>3, FreshSuffix
<1>5. e \in WaitEntry /\ e.addr = a /\ e.old = FALSE
  BY <1>1 DEF WaitEntry
<1> HIDE DEF a, r, e
<1>6. /\ r \in Seq(WaitEntry) /\ Len(r) = Len(queue) - n /\ Distinct(r)
      /\ \A k \in 1 .. Len(r) : k + n \in 1 .. Len(queue) /\ r[k] = queue[k + n]
      /\ \A b \in Queue!Waiting(queue) \ Queue!Waiting(r) : Queue!Place(queue, b) \in 1 .. n
  <2>1. /\ r \in Seq(WaitEntry) /\ Len(r) = Len(queue) - n
        /\ \A k \in 1 .. Len(r) : r[k] = queue[k + n]
    BY <1>1, <1>4
  <2> QED
    BY <1>1, <2>1, Suffix
<1>7. \A k \in 1 .. Len(r) : ~r[k].old
  BY <1>3, <1>6 DEF Aged
<1>8. /\ queue' \in Seq(WaitEntry) /\ Len(queue') <= MaxQueue /\ Len(queue') >= Len(r)
      /\ \A k \in 1 .. Len(r) : queue'[k] = r[k]
      /\ \A k \in 1 .. Len(queue') :
           k \in 1 .. Len(r) \/ (k = Len(r) + 1 /\ queue'[k] = e /\ a \notin Queue!Waiting(r))
  <2>1. Len(r) \in Nat /\ Len(r) <= MaxQueue /\ Len(queue) \in Nat
    BY <1>1, <1>6, BoundsAssumption
  <2>2. CASE a \in Queue!Waiting(r) \/ Len(r) >= MaxQueue
    BY <1>1, <1>6, <2>1, <2>2
  <2>3. CASE ~(a \in Queue!Waiting(r) \/ Len(r) >= MaxQueue)
    <3>1. queue' = Append(r, e) /\ Len(r) < MaxQueue
      BY <1>1, <2>1, <2>3, BoundsAssumption
    <3>2. Len(queue') = Len(r) + 1 /\ queue' \in Seq(WaitEntry)
      BY <1>5, <1>6, <3>1
    <3>3. \A k \in 1 .. Len(r) + 1 : queue'[k] = IF k <= Len(r) THEN r[k] ELSE e
      BY <1>5, <1>6, <3>1
    <3> QED
      BY <2>1, <2>3, <3>1, <3>2, <3>3, BoundsAssumption
  <2> QED
    BY <2>2, <2>3
<1>9. Queue!Waiting(r) = {r[k].addr : k \in 1 .. Len(r)}
  BY <1>6, EntryFacts
<1>10. Distinct(queue')
  <2> SUFFICES ASSUME NEW i \in 1 .. Len(queue'), NEW k \in 1 .. Len(queue'),
                      queue'[i].addr = queue'[k].addr
               PROVE  i = k
    BY DEF Distinct
  <2>1. CASE i \in 1 .. Len(r) /\ k \in 1 .. Len(r)
    BY <1>6, <1>8, <2>1 DEF Distinct
  <2>2. CASE i \in 1 .. Len(r) /\ k \notin 1 .. Len(r)
    BY <1>5, <1>8, <1>9, <2>2
  <2>3. CASE i \notin 1 .. Len(r) /\ k \in 1 .. Len(r)
    BY <1>5, <1>8, <1>9, <2>3
  <2>4. CASE i \notin 1 .. Len(r) /\ k \notin 1 .. Len(r)
    BY <1>8, <2>4
  <2> QED
    BY <2>1, <2>2, <2>3, <2>4
<1>11. Aged(queue', 0) /\ 0 \in 0 .. Len(queue')
  <2>1. \A k \in 1 .. Len(queue') : ~queue'[k].old
    BY <1>5, <1>7, <1>8
  <2> QED
    BY <1>8, <2>1 DEF Aged
<1>12. ListInv'
  BY <1>2, <1>8, <1>10, <1>11 DEF ListInv, ListTypes
<1>13. ASSUME NEW k \in 1 .. Len(queue'), queue'[k].addr \in Queue!Waiting(r)
       PROVE  \E i \in 1 .. Len(queue) : k <= i /\ queue[i].addr = queue'[k].addr
  <2>1. k \in 1 .. Len(r)
    BY <1>5, <1>8, <1>13
  <2>2. k + n \in 1 .. Len(queue) /\ k <= k + n /\ queue[k + n].addr = queue'[k].addr
    BY <1>6, <1>8, <2>1
  <2> QED
    BY <2>2
<1>14. ASSUME NEW b \in Queue!Waiting(queue) \ Queue!Waiting(queue')
       PROVE  queue[Queue!Place(queue, b)].old
  <2>1. Queue!Waiting(r) \subseteq Queue!Waiting(queue')
    <3>1. Queue!Waiting(queue') = {queue'[k].addr : k \in 1 .. Len(queue')}
      BY <1>8, EntryFacts
    <3>2. \A k \in 1 .. Len(r) : k \in 1 .. Len(queue') /\ r[k].addr = queue'[k].addr
      BY <1>6, <1>8
    <3> QED
      BY <1>9, <3>1, <3>2
  <2>2. Queue!Place(queue, b) \in 1 .. n
    BY <1>6, <2>1
  <2> QED
    BY <1>1, <1>3, <2>2 DEF Aged
<1>15. Queue!QueueStep
  BY <1>8, <1>10, <1>13, <1>14, ListMoved DEF r
<1> QED
  BY <1>12, <1>15

(* The first of the list is served, the others move up.                    *)
LEMMA ListShifts ==
  ASSUME ListInv, NEW p \in Job, Queue!Shift(p)
  PROVE  ListInv' /\ Queue!QueueStep
<1>1. /\ queue \in Seq(WaitEntry) /\ Distinct(queue) /\ Len(queue) <= MaxQueue /\ ListTypes
      /\ Queue!At(p, "judge") /\ Len(queue) \in Nat
  BY DEF ListInv, ListTypes, Queue!Shift, Queue!Judged
<1>2. queue = <<>> \/ Head(queue).addr \in Tenant
  BY <1>1, EntryFacts
<1>3. /\ job' \in [Job -> CallTask]
      /\ \A b \in Job : job'[b].kind = "connect" => job'[b].addr \in Tenant
  BY <1>1, <1>2, CallSteps
<1>4. CASE queue' = queue
  BY <1>3, <1>4, ListKept
<1>5. CASE queue' # queue
  <2> DEFINE a == Head(queue).addr
             j == [Queue!Idle EXCEPT !.pc = "look", !.kind = "connect", !.addr = a]
  <2>1. queue # <<>> /\ queue' = Tail(queue) /\ Queue!Become(p, j)
    BY <1>5 DEF Queue!Shift
  <2>2. 1 \in 0 .. Len(queue) /\ 1 \in 1 .. Len(queue) /\ a = queue[1].addr
    BY <1>1, <2>1
  <2> HIDE DEF a
  <2>3. j.pc = "look" /\ j.addr = a
    BY DEF Queue!Idle
  <2> HIDE DEF j
  <2>4. job'[p].pc = "look" /\ job'[p].addr = a /\ ~Queue!At(p, "look")
    BY <1>1, <2>1, <2>3 DEF Queue!Become, Queue!At, ListTypes
  <2>5. /\ queue' \in Seq(WaitEntry) /\ Len(queue') = Len(queue) - 1 /\ Distinct(queue')
        /\ \A k \in 1 .. Len(queue') : k + 1 \in 1 .. Len(queue) /\ queue'[k] = queue[k + 1]
        /\ \A b \in Queue!Waiting(queue) \ Queue!Waiting(queue') : Queue!Place(queue, b) \in 1 .. 1
    <3>1. /\ queue' \in Seq(WaitEntry) /\ Len(queue') = Len(queue) - 1
          /\ \A k \in 1 .. Len(queue') : queue'[k] = queue[k + 1]
      BY <1>1, <2>1, HeadTailProperties
    <3> QED
      BY <1>1, <2>2, <3>1, Suffix
  <2>6. PICK n \in 0 .. Len(queue) : Aged(queue, n)
    BY DEF ListInv
  <2>7. \E m \in 0 .. Len(queue') : Aged(queue', m)
    <3>1. CASE n = 0
      <4>1. Aged(queue', 0)
        BY <1>1, <2>5, <2>6, <3>1 DEF Aged
      <4> QED
        BY <1>1, <2>2, <2>5, <4>1
    <3>2. CASE n # 0
      <4>1. n - 1 \in 0 .. Len(queue')
        BY <1>1, <2>5, <2>6, <3>2
      <4>2. Aged(queue', n - 1)
        BY <1>1, <2>5, <2>6, <3>2 DEF Aged
      <4> QED
        BY <4>1, <4>2
    <3> QED
      BY <3>1, <3>2
  <2>8. ListInv'
    <3>1. Len(queue') <= MaxQueue
      BY <1>1, <2>5, BoundsAssumption
    <3> QED
      BY <1>3, <2>5, <2>7, <3>1 DEF ListInv, ListTypes
  <2>9. ASSUME NEW k \in 1 .. Len(queue')
        PROVE  \E i \in 1 .. Len(queue) : k <= i /\ queue[i].addr = queue'[k].addr
    <3>1. k + 1 \in 1 .. Len(queue) /\ k <= k + 1 /\ queue[k + 1].addr = queue'[k].addr
      BY <1>1, <2>5
    <3> QED
      BY <3>1
  <2>10. ASSUME NEW b \in Queue!Waiting(queue) \ Queue!Waiting(queue')
         PROVE  b = a
    <3>1. PICK i \in 1 .. Len(queue) : b = queue[i].addr
      BY <1>1, EntryFacts
    <3>2. i = 1
      <4>1. Queue!Place(queue, b) = i
        BY <1>1, <3>1, PlaceRight
      <4> QED
        BY <2>5, <4>1
    <3> QED
      BY <2>2, <3>1, <3>2
  <2>11. Queue!QueueStep
    BY <2>4, <2>5, <2>9, <2>10, ListMoved
  <2> QED
    BY <2>8, <2>11
<1> QED
  BY <1>4, <1>5

LEMMA ListNext == ListInv /\ [Queue!Next]_queueVars => ListInv' /\ Queue!QueueStep
<1> SUFFICES ASSUME ListInv, [Queue!Next]_queueVars PROVE ListInv' /\ Queue!QueueStep
  OBVIOUS
<1>1. ListTypes
  BY DEF ListInv
<1>2. CASE UNCHANGED queueVars
  BY <1>1, <1>2, ListKept DEF queueVars, ListTypes
<1>3. ASSUME NEW p \in Job,
             \/ \E a \in Tenant : Queue!Connect(p, a)
             \/ Queue!Looked(p) \/ Queue!HostChecked(p) \/ Queue!BoxesChecked(p)
             \/ Queue!Admit(p) \/ Queue!Create(p) \/ Queue!Turn(p)
      PROVE  ListInv' /\ Queue!QueueStep
  <2>1. UNCHANGED queue
    BY <1>3 DEF Queue!Connect, Queue!Looked, Queue!HostChecked, Queue!BoxesChecked, Queue!Admit,
                Queue!Create, Queue!Turn
  <2>2. /\ job' \in [Job -> CallTask]
        /\ \A b \in Job : job'[b].kind = "connect" => job'[b].addr \in Tenant
    BY <1>1, <1>3, CallSteps
  <2> QED
    BY <2>1, <2>2, ListKept
<1>4. ASSUME NEW p \in Job, Queue!Enlist(p) PROVE ListInv' /\ Queue!QueueStep
  BY <1>4, ListEnlists
<1>5. ASSUME NEW p \in Job, Queue!Shift(p) PROVE ListInv' /\ Queue!QueueStep
  BY <1>5, ListShifts
<1>6. ASSUME NEW a \in Tenant, Queue!Remove(a) PROVE ListInv' /\ Queue!QueueStep
  BY <1>1, <1>6, ListKept DEF Queue!Remove, ListTypes
<1>7. ASSUME NEW m \in 1 .. MaxQueue, Queue!Age(m) PROVE ListInv' /\ Queue!QueueStep
  BY <1>7, ListAges
<1> QED
  BY <1>2, <1>3, <1>4, <1>5, <1>6, <1>7 DEF Queue!Next

LEMMA ListPart == PartSpec => [](part = "queue" => ListInv)
<1> DEFINE I == part = "queue" => ListInv
<1>1. PartInit => I
  BY ListFirst DEF PartInit
<1>2. I /\ [PartNext]_PartVars => I'
  <2> SUFFICES ASSUME I, [PartNext]_PartVars, part' = "queue" PROVE ListInv'
    OBVIOUS
  <2> QED
    BY ListNext DEF PartNext, PartVars
<1> QED
  BY <1>1, <1>2, PTL DEF PartSpec, PartVars

(* Within its hour a place in the waiting list only gets better, nobody is *)
(* in it twice, and a tenant leaves it only to be served or after an hour, *)
(* however connects, rounds of the processor and the list overlap.         *)
THEOREM PlacesImprove == PartSpec => QueueFair
<1>1. (part = "queue" => ListInv) /\ [PartNext]_PartVars
        => [part = "queue" => Queue!QueueStep]_queueVars
  BY ListNext DEF PartNext, PartVars
<1> QED
  BY <1>1, ListPart, PTL DEF PartSpec, PartVars, QueueFair
-----------------------------------------------------------------------------
(* What SignedInv does not say of the types: the numbers that were misused,*)
(* the operations that are pending, and the challenges there is room for.  *)

Filled == {s \in Signed!Slot : pool[s] # 0}
Pends == \A a \in Wallet : pending[a].nonce \in Signed!Nonce \cup {0} /\ pending[a].op \in Op \cup {NoOp}
SignedRange == /\ spent \subseteq DOMAIN issued /\ admins \subseteq Wallet /\ Pends
               /\ IsFiniteSet(Filled) /\ Cardinality(Filled) <= MaxPool

LEMMA RangeStart == Signed!Init => SignedRange
<1> SUFFICES ASSUME Signed!Init PROVE SignedRange
  OBVIOUS
<1>1. Filled = {}
  BY DEF Signed!Init, Filled
<1>2. IsFiniteSet({}) /\ Cardinality({}) = 0
  BY FS_EmptySet
<1> QED
  BY <1>1, <1>2, BoundsAssumption DEF Signed!Init, SignedRange, Pends, Signed!NoPending

(* Steps that issue no challenge.                                          *)
LEMMA RangeKept ==
  ASSUME SignedInv, SignedRange, Filled' \subseteq Filled, DOMAIN issued \subseteq DOMAIN issued',
         spent' = spent \/ \E n \in DOMAIN issued : spent' = spent \cup {n},
         admins' \subseteq Wallet,
         pending' = pending \/ \E a : pending' = [pending EXCEPT ![a] = Signed!NoPending]
  PROVE  SignedRange'
<1>1. IsFiniteSet(Filled') /\ Cardinality(Filled') <= Cardinality(Filled)
  BY FS_Subset DEF SignedRange
<1>2. Cardinality(Filled') <= MaxPool
  <2>1. Cardinality(Filled') \in Nat /\ Cardinality(Filled) \in Nat
    BY <1>1, FS_CardinalityType DEF SignedRange
  <2> QED
    BY <1>1, <2>1, BoundsAssumption DEF SignedRange
<1>3. spent' \subseteq DOMAIN issued'
  BY DEF SignedRange
<1>4. Pends'
  <2>1. DOMAIN pending = Wallet
    BY DEF SignedInv, SignedTypes
  <2>2. Pends
    BY DEF SignedRange
  <2>3. Signed!NoPending.nonce = 0 /\ Signed!NoPending.op = NoOp
    BY DEF Signed!NoPending
  <2>4. \A a \in Wallet : pending'[a] = pending[a] \/ pending'[a] = Signed!NoPending
    BY <2>1
  <2> QED
    BY <2>2, <2>3, <2>4 DEF Pends
<1> QED
  BY <1>1, <1>2, <1>3, <1>4 DEF SignedRange

(* A challenge takes one place more than the clean-up has left.            *)
LEMMA RangeIssued ==
  ASSUME SignedInv, SignedRange, ~Signed!Full, NEW s \in Signed!Slot, NEW n \in Signed!Nonce,
         pool' = [Signed!Fresh EXCEPT ![s] = n],
         DOMAIN issued \subseteq DOMAIN issued', UNCHANGED <<spent, admins>>,
         \/ pending' = pending
         \/ \E a \in Wallet, o \in Op : pending' = [pending EXCEPT ![a] = [nonce |-> n, op |-> o]]
  PROVE  SignedRange'
<1> DEFINE F == {x \in Signed!Slot : Signed!Fresh[x] # 0}
<1>1. Signed!Fresh \in [Signed!Slot -> Nat] /\ F \subseteq Filled
  BY FreshFacts DEF SignedInv, Filled
<1>2. IsFiniteSet(F)
  BY <1>1, FS_Subset DEF SignedRange
<1>3. Cardinality(F) < MaxPool /\ Cardinality(F) \in Nat
  <2>1. Cardinality(F) \in Nat
    BY <1>2, FS_CardinalityType
  <2>2. ~(Signed!Cardinality(F) >= MaxPool)
    BY DEF Signed!Full
  <2>3. Signed!Cardinality(F) = Cardinality(F)
    BY SameCardinality
  <2> HIDE DEF F
  <2> QED
    BY <2>1, <2>2, <2>3, BoundsAssumption
<1>4. Filled' \subseteq F \cup {s}
  BY <1>1 DEF Filled
<1> HIDE DEF F
<1>5. IsFiniteSet(F \cup {s}) /\ Cardinality(F \cup {s}) \in {Cardinality(F), Cardinality(F) + 1}
  BY <1>2, FS_AddElement
<1>6. IsFiniteSet(Filled') /\ Cardinality(Filled') <= Cardinality(F \cup {s})
  BY <1>4, <1>5, FS_Subset
<1>7. Cardinality(Filled') <= MaxPool
  <2>1. Cardinality(Filled') \in Nat
    BY <1>6, FS_CardinalityType
  <2> QED
    BY <1>3, <1>5, <1>6, <2>1, BoundsAssumption
<1>8. Pends'
  <2>1. DOMAIN pending = Wallet /\ Pends
    BY DEF SignedInv, SignedTypes, SignedRange
  <2>2. \A a \in Wallet : \/ pending'[a] = pending[a]
                          \/ \E o \in Op : pending'[a] = [nonce |-> n, op |-> o]
    BY <2>1
  <2> QED
    BY <2>1, <2>2 DEF Pends
<1> QED
  BY <1>6, <1>7, <1>8 DEF SignedRange

LEMMA RangeNext == SignedInv /\ SignedRange /\ Signed!Next => SignedRange'
<1> SUFFICES ASSUME SignedInv, SignedRange, Signed!Next PROVE SignedRange'
  OBVIOUS
<1>1. /\ SignedTypes /\ Held /\ admins \subseteq Wallet /\ pool \in [Signed!Slot -> Nat]
      /\ DOMAIN issued = 1 .. Len(issued) /\ Len(issued) \in Nat /\ issued \in Seq(Grant)
      /\ \A m \in DOMAIN issued : issued[m] \in Grant
  BY Numbers DEF SignedInv, SignedTypes, SignedRange
<1>2. ASSUME NEW p, NEW a, NEW o, Signed!Record(p, a, o)
      PROVE  DOMAIN issued \subseteq DOMAIN issued'
  <2>1. PICK g : g = [purpose |-> p, addr |-> a, op |-> o]
    OBVIOUS
  <2>2. issued' = Append(issued, g)
    BY <1>2, <2>1 DEF Signed!Record
  <2> QED
    BY <1>1, <2>2
<1>3. ASSUME NEW a \in Wallet, NEW p \in Signed!Purpose, Signed!Issue(p, a) PROVE SignedRange'
  <2>1. DOMAIN issued \subseteq DOMAIN issued' /\ <<p, a>> \in Signed!Slot
    BY <1>2, <1>3 DEF Signed!Issue, Signed!Slot
  <2> QED
    BY <1>3, <2>1, RangeIssued DEF Signed!Issue
<1>4. ASSUME NEW a \in Wallet, NEW o \in Op, Signed!IssueAdmin(a, o) PROVE SignedRange'
  <2>1. DOMAIN issued \subseteq DOMAIN issued' /\ <<"admin", a>> \in Signed!Slot
    BY <1>2, <1>4 DEF Signed!IssueAdmin, Signed!Slot, Signed!Purpose
  <2> QED
    BY <1>4, <2>1, RangeIssued DEF Signed!IssueAdmin
<1>5. ASSUME NEW a \in Wallet, Signed!IssueTicket(a) PROVE SignedRange'
  <2>1. DOMAIN issued \subseteq DOMAIN issued' /\ UNCHANGED <<pool, spent, admins, pending>>
    BY <1>2, <1>5 DEF Signed!IssueTicket
  <2> QED
    BY <1>1, <2>1, RangeKept DEF Filled
<1>6. ASSUME NEW a \in Wallet, Signed!Promote(a) \/ Signed!Demote(a) PROVE SignedRange'
  <2>1. admins' \subseteq Wallet /\ UNCHANGED <<pool, spent, issued, pending>>
    BY <1>1, <1>6 DEF Signed!Promote, Signed!Demote
  <2> QED
    BY <2>1, RangeKept DEF Filled
<1>7. ASSUME NEW x, pool' = [pool EXCEPT ![x] = 0] \/ pool' = pool \/ pool' = [pool EXCEPT ![x] = @]
      PROVE  Filled' \subseteq Filled
  BY <1>1, <1>7 DEF Filled
<1>8. ASSUME NEW n \in Signed!Nonce,
             \/ Signed!Connect(n) \/ Signed!Login(n) \/ Signed!Verify(n)
             \/ \E bad \in BOOLEAN : Signed!Configure(n, bad)
      PROVE  SignedRange'
  <2>1. n \in DOMAIN issued /\ UNCHANGED <<issued, admins, pending>>
    BY <1>8 DEF Signed!Connect, Signed!Login, Signed!Verify, Signed!Configure, Signed!Presented,
                Signed!IsIssued
  <2>2. spent' = spent \/ spent' = spent \cup {n}
    BY <1>8 DEF Signed!Connect, Signed!Login, Signed!Verify, Signed!Configure, Signed!Spend
  <2>3. Filled' \subseteq Filled
    <3>1. PICK x : x = Signed!SlotOf(n)
      OBVIOUS
    <3>2. pool' = [pool EXCEPT ![x] = 0] \/ pool' = [pool EXCEPT ![x] = @]
      BY <1>8, <3>1 DEF Signed!Connect, Signed!Login, Signed!Verify, Signed!Configure, Signed!Consumed
    <3> QED
      BY <1>7, <3>2
  <2> QED
    BY <1>1, <2>1, <2>2, <2>3, RangeKept
<1>9. ASSUME NEW n \in Signed!Nonce, NEW o \in Op, NEW bad \in BOOLEAN, Signed!AdminOp(n, o, bad)
      PROVE  SignedRange'
  <2>1. n \in DOMAIN issued /\ UNCHANGED <<issued, admins>>
    BY <1>9 DEF Signed!AdminOp, Signed!Presented, Signed!IsIssued
  <2>2. spent' = spent \/ spent' = spent \cup {n}
    BY <1>9 DEF Signed!AdminOp, Signed!Spend
  <2>3. \E a : pending' = [pending EXCEPT ![a] = Signed!NoPending]
    BY <1>9 DEF Signed!AdminOp
  <2>4. Filled' \subseteq Filled
    <3>1. PICK x : x = Signed!SlotOf(n)
      OBVIOUS
    <3>2. pool' = pool \/ pool' = [pool EXCEPT ![x] = 0] \/ pool' = [pool EXCEPT ![x] = @]
      BY <1>9, <3>1 DEF Signed!AdminOp
    <3> QED
      BY <1>7, <3>2
  <2> QED
    BY <1>1, <2>1, <2>2, <2>3, <2>4, RangeKept
<1>10. ASSUME NEW n \in Signed!Nonce, NEW a \in Wallet, Signed!Enter(n, a) PROVE SignedRange'
  <2>1. n \in DOMAIN issued /\ UNCHANGED <<issued, admins, pending, pool>>
    BY <1>1, <1>10 DEF Signed!Enter, Held
  <2>2. spent' = spent \/ spent' = spent \cup {n}
    BY <1>10 DEF Signed!Enter, Signed!Spend
  <2> QED
    BY <1>1, <2>1, <2>2, RangeKept DEF Filled
<1>11. CASE Signed!Overloaded
  <2>1. pool' = Signed!Fresh /\ UNCHANGED <<issued, admins, pending, spent>>
    BY <1>11 DEF Signed!Overloaded
  <2>2. Filled' \subseteq Filled
    BY <1>1, <2>1, FreshFacts DEF Filled
  <2> QED
    BY <1>1, <2>1, <2>2, RangeKept
<1>12. CASE Signed!Age
  BY <1>1, <1>12, RangeKept DEF Signed!Age, Filled
<1> QED
  BY <1>3, <1>4, <1>5, <1>6, <1>8, <1>9, <1>10, <1>11, <1>12 DEF Signed!Next

LEMMA SignedTypesOK == PartSpec => [](part = "signed" => Signed!TypeOK)
<1> DEFINE I == part = "signed" => SignedRange
<1>1. PartInit => I
  BY RangeStart DEF PartInit
<1>2. (part = "signed" => SignedInv) /\ I /\ [PartNext]_PartVars => I'
  <2> SUFFICES ASSUME part = "signed" => SignedInv, I, [PartNext]_PartVars, part' = "signed"
               PROVE  SignedRange'
    OBVIOUS
  <2>1. SignedInv /\ SignedRange /\ (Signed!Next \/ UNCHANGED signedVars)
    BY DEF PartNext, PartVars
  <2>2. CASE UNCHANGED signedVars
    BY <2>1, <2>2, RangeKept DEF signedVars, Filled, SignedRange
  <2> QED
    BY <2>1, <2>2, RangeNext
<1>3. (part = "signed" => SignedInv) /\ I => (part = "signed" => Signed!TypeOK)
  <2> SUFFICES ASSUME SignedInv, SignedRange PROVE Signed!TypeOK
    OBVIOUS
  <2>1. /\ SignedTypes /\ Held /\ old \subseteq DOMAIN issued /\ DOMAIN issued \subseteq Signed!Nonce
    BY Numbers DEF SignedInv
  <2>2. pool \in [Signed!Slot -> Signed!Nonce \cup {0}]
    BY <2>1 DEF SignedTypes, Held, Pooled
  <2>3. tickets \subseteq DOMAIN issued
    BY <2>1 DEF Held
  <2>4. Signed!Cardinality({s \in Signed!Slot : pool[s] # 0}) <= MaxPool
    BY SameCardinality DEF SignedRange, Filled
  <2> QED
    BY <2>1, <2>2, <2>3, <2>4 DEF Signed!TypeOK, SignedRange, Pends
<1> QED
  BY <1>1, <1>2, <1>3, SignedPart, PTL DEF PartSpec, PartVars

-----------------------------------------------------------------------------
(* The types of ResourceMonitor: the two halves leave one another alone.   *)

TierRange == /\ tiers \in [Volume -> [tier : Monitor!Tier, cool : BOOLEAN]]
             /\ \A r \in Round : round[r].tier \in Monitor!Tier
             /\ monitor => \E r \in Round : round[r].pc # "idle"
DiskRange == seen \in Monitor!Space \cup {"none"} /\ usage.host \in Monitor!Space \cup {"none"}
             /\ host.space \in Monitor!Space
MonitorInv == RoundInv /\ TierRange /\ SizesInv /\ DiskRange

LEMMA MonitorStart == Monitor!Init => MonitorInv
<1> SUFFICES ASSUME Monitor!Init PROVE MonitorInv
  OBVIOUS
<1>1. 1 \in Monitor!Tier
  BY BoundsAssumption DEF Monitor!Tier
<1>2. TierRange
  BY <1>1 DEF Monitor!Init, Monitor!IdleJob, TierRange
<1>3. DiskRange
  BY DEF Monitor!Init, Monitor!NoUsage, DiskRange
<1> QED
  BY <1>2, <1>3, RoundStart, SizesStart DEF MonitorInv

LEMMA TierRangeMoves ==
  ASSUME MonitorInv, NEW r \in Round, NEW j, Monitor!Become(r, j), j.tier \in Monitor!Tier,
         tiers' \in [Volume -> [tier : Monitor!Tier, cool : BOOLEAN]],
         monitor' => j.pc # "idle"
  PROVE  TierRange'
<1>1. round \in [Round -> Rounds] /\ \A q \in Round : round[q].tier \in Monitor!Tier
  BY DEF MonitorInv, RoundInv, RoundTypes, TierRange
<1>2. round'[r] = j /\ \A q \in Round : q # r => round'[q] = round[q]
  BY <1>1 DEF Monitor!Become
<1> QED
  BY <1>1, <1>2 DEF TierRange

LEMMA TierRangeNext == MonitorInv /\ Monitor!Watch => TierRange'
<1> SUFFICES ASSUME MonitorInv, Monitor!Watch PROVE TierRange'
  OBVIOUS
<1>1. /\ tiers \in [Volume -> [tier : Monitor!Tier, cool : BOOLEAN]]
      /\ round \in [Round -> Rounds] /\ \A r \in Round : round[r].tier \in Monitor!Tier
      /\ monitor => \E r \in Round : round[r].pc # "idle"
  BY DEF MonitorInv, RoundInv, RoundTypes, TierRange
<1>2. \A t \in Monitor!Tier : t # MaxTier => t + 1 \in Monitor!Tier
  BY BoundsAssumption DEF Monitor!Tier
<1>3. 1 \in Monitor!Tier
  BY BoundsAssumption DEF Monitor!Tier
<1>4. ASSUME NEW r \in Round, Monitor!Fire(r) PROVE TierRange'
  <2>1. PICK j : j = [Monitor!IdleJob EXCEPT !.pc = "next", !.todo = Volume]
    OBVIOUS
  <2>2. j.pc = "next" /\ j.tier = 1
    BY <2>1 DEF Monitor!IdleJob
  <2> QED
    BY <1>1, <1>3, <1>4, <2>1, <2>2, TierRangeMoves DEF Monitor!Fire
<1>5. ASSUME NEW r \in Round, NEW a \in Volume, Monitor!Visit(r, a) PROVE TierRange'
  <2>1. PICK rest : rest = [round[r] EXCEPT !.todo = @ \ {a}]
    OBVIOUS
  <2>2. PICK asks : asks = [rest EXCEPT !.pc = "stats", !.addr = a, !.tier = tiers[a].tier + 1]
    OBVIOUS
  <2>3. round[r] \in Rounds /\ round[r].pc = "next" /\ tiers[a].tier \in Monitor!Tier
    BY <1>1, <1>5 DEF Monitor!Visit, Monitor!At
  <2>4. rest.pc = "next" /\ rest.tier = round[r].tier
    BY <2>1, <2>3 DEF Rounds
  <2>5. rest = [pc |-> rest.pc, addr |-> rest.addr, tier |-> rest.tier, todo |-> rest.todo]
    BY <2>1, <2>3 DEF Rounds
  <2>6. asks.pc = "stats" /\ asks.tier = tiers[a].tier + 1
    BY <2>2, <2>5
  <2>7. CASE tiers[a].tier = MaxTier \/ tiers[a].cool
    <3>1. Monitor!Become(r, rest) /\ UNCHANGED tiers
      BY <1>5, <2>1, <2>7 DEF Monitor!Visit
    <3> QED
      BY <1>1, <2>4, <3>1, TierRangeMoves
  <2>8. CASE ~(tiers[a].tier = MaxTier \/ tiers[a].cool)
    <3>1. Monitor!Become(r, asks) /\ UNCHANGED tiers
      BY <1>5, <2>1, <2>2, <2>8 DEF Monitor!Visit
    <3> QED
      BY <1>1, <1>2, <2>3, <2>6, <2>8, <3>1, TierRangeMoves
  <2> QED
    BY <2>7, <2>8
<1>6. ASSUME NEW r \in Round, NEW to \in {"next", "upgrade"}, NEW from \in {"stats", "upgrade"},
             Monitor!Move(r, from, to)
      PROVE  TierRange'
  <2>1. PICK j : j = [round[r] EXCEPT !.pc = to]
    OBVIOUS
  <2>2. j.pc = to /\ j.tier = round[r].tier
    <3>1. round[r] \in Rounds
      BY <1>1
    <3> QED
      BY <2>1, <3>1 DEF Rounds
  <2> QED
    BY <1>1, <1>6, <2>1, <2>2, TierRangeMoves DEF Monitor!Move
<1>7. ASSUME NEW r \in Round, Monitor!Recorded(r) PROVE TierRange'
  <2>1. PICK j : j = [round[r] EXCEPT !.pc = "next"]
    OBVIOUS
  <2>2. j.pc = "next" /\ j.tier = round[r].tier
    <3>1. round[r] \in Rounds
      BY <1>1
    <3> QED
      BY <2>1, <3>1 DEF Rounds
  <2>3. tiers' \in [Volume -> [tier : Monitor!Tier, cool : BOOLEAN]]
    <3>1. PICK t \in Monitor!Tier : t = round[r].tier
      BY <1>1
    <3>a. PICK a : a = round[r].addr
      OBVIOUS
    <3>2. tiers' = [tiers EXCEPT ![a].tier = t, ![a].cool = TRUE]
      BY <1>7, <3>1, <3>a DEF Monitor!Recorded
    <3> QED
      BY <1>1, <3>1, <3>2
  <2>4. Monitor!Become(r, j)
    BY <1>7, <2>1 DEF Monitor!Recorded
  <2> QED
    BY <1>1, <2>2, <2>3, <2>4, TierRangeMoves
<1>8. ASSUME NEW r \in Round, Monitor!RoundOver(r) PROVE TierRange'
  <2>1. Monitor!Become(r, Monitor!IdleJob) /\ monitor' = FALSE /\ UNCHANGED tiers
    BY <1>8 DEF Monitor!RoundOver
  <2>2. Monitor!IdleJob.tier = 1
    BY DEF Monitor!IdleJob
  <2> QED
    BY <1>1, <1>3, <2>1, <2>2, TierRangeMoves
<1>9. ASSUME NEW a \in Volume, Monitor!Cooled(a) PROVE TierRange'
  <2>1. tiers' = [tiers EXCEPT ![a].cool = FALSE] /\ UNCHANGED <<monitor, round>>
    BY <1>9 DEF Monitor!Cooled
  <2> QED
    BY <1>1, <2>1 DEF TierRange
<1>10. ASSUME NEW a \in Volume, NEW t \in Monitor!Tier, Monitor!UpgradeByHand(a, t) PROVE TierRange'
  <2>1. tiers' = [tiers EXCEPT ![a].tier = t] /\ UNCHANGED <<monitor, round>>
    BY <1>10 DEF Monitor!UpgradeByHand
  <2> QED
    BY <1>1, <1>10, <2>1 DEF TierRange
<1> QED
  BY <1>4, <1>5, <1>6, <1>7, <1>8, <1>9, <1>10
     DEF Monitor!Watch, Monitor!Spared, Monitor!Exceeded, Monitor!UpgradeFailed

LEMMA DiskRangeNext == MonitorInv /\ Monitor!Measure => DiskRange'
<1> SUFFICES ASSUME MonitorInv, Monitor!Measure PROVE DiskRange'
  OBVIOUS
<1>1. /\ seen \in Monitor!Space \cup {"none"} /\ usage.host \in Monitor!Space \cup {"none"}
      /\ host.space \in Monitor!Space /\ Shown
  BY DEF MonitorInv, SizesInv, DiskRange
<1>2. CASE Monitor!Collect
  <2>1. seen' \in Monitor!Space \cup {"none"} /\ UNCHANGED host
    BY <1>1, <1>2 DEF Monitor!Collect
  <2>2. usage' = Monitor!NoUsage \/ \E l : usage' = [host |-> seen', list |-> l, precise |-> FALSE]
    BY <1>2 DEF Monitor!Collect
  <2>3. usage'.host \in Monitor!Space \cup {"none"}
    BY <2>1, <2>2 DEF Monitor!NoUsage
  <2> QED
    BY <1>1, <2>1, <2>3 DEF DiskRange
<1>3. CASE Monitor!ScanBegins
  BY <1>1, <1>3 DEF Monitor!ScanBegins, DiskRange
<1>4. CASE Monitor!Measured
  <2>1. usage' = usage \/ \E k, n : usage' = [usage EXCEPT !.list[k].size = n]
    BY <1>4 DEF Monitor!Measured
  <2>2. usage'.host = usage.host
    BY <1>1, <2>1 DEF Shown
  <2> QED
    BY <1>1, <1>4, <2>2 DEF Monitor!Measured, DiskRange
<1>5. CASE Monitor!ScanEnds
  <2>1. usage'.host = usage.host
    BY <1>1, <1>5 DEF Monitor!ScanEnds, Shown
  <2> QED
    BY <1>1, <1>5, <2>1 DEF Monitor!ScanEnds, DiskRange
<1>6. CASE Monitor!Change
  <2>1. host'.space \in Monitor!Space
    BY <1>6 DEF Monitor!Change
  <2> QED
    BY <1>1, <1>6, <2>1 DEF Monitor!Change, DiskRange
<1> QED
  BY <1>2, <1>3, <1>4, <1>5, <1>6 DEF Monitor!Measure

LEMMA MonitorTypesOK == PartSpec => [](part \in {"tiers", "disk"} => Monitor!TypeOK)
<1> DEFINE I == part \in {"tiers", "disk"} => MonitorInv
<1>1. PartInit => I
  BY MonitorStart DEF PartInit
<1>2. I /\ [PartNext]_PartVars => I'
  <2> SUFFICES ASSUME I, [PartNext]_PartVars, part' \in {"tiers", "disk"} PROVE MonitorInv'
    OBVIOUS
  <2>1. MonitorInv
    BY DEF PartNext, PartVars
  <2>2. Monitor!Watch \/ Monitor!Measure \/ UNCHANGED monitorVars
    BY DEF PartNext, PartVars
  <2>3. CASE Monitor!Watch
    <3>1. UNCHANGED Monitor!disk
      BY <2>3 DEF Monitor!Watch, Monitor!Fire, Monitor!Spared, Monitor!Exceeded, Monitor!UpgradeFailed,
         Monitor!Move, Monitor!Visit, Monitor!Recorded, Monitor!RoundOver, Monitor!Cooled,
         Monitor!UpgradeByHand
    <3>2. SizesInv' /\ DiskRange'
      BY <2>1, <3>1 DEF MonitorInv, SizesInv, Shown, Scanned, DiskRange, Monitor!disk
    <3> QED
      BY <2>1, <2>3, <3>2, RoundNext, TierRangeNext DEF MonitorInv
  <2>4. CASE Monitor!Measure
    <3>1. UNCHANGED Monitor!tier
      BY <2>4 DEF Monitor!Measure, Monitor!Collect, Monitor!ScanBegins, Monitor!Measured,
         Monitor!ScanEnds, Monitor!Change
    <3>2. RoundInv' /\ TierRange'
      BY <2>1, <3>1 DEF MonitorInv, RoundInv, RoundTypes, OneRound, Asking, TierRange, Monitor!tier
    <3> QED
      BY <2>1, <2>4, <3>2, SizesNext, DiskRangeNext DEF MonitorInv
  <2>5. CASE UNCHANGED monitorVars
    BY <2>1, <2>5, RoundSame, SizesSame DEF MonitorInv, TierRange, DiskRange, monitorVars
  <2> QED
    BY <2>2, <2>3, <2>4, <2>5
<1>3. I => (part \in {"tiers", "disk"} => Monitor!TypeOK)
  <2> SUFFICES ASSUME MonitorInv PROVE Monitor!TypeOK
    OBVIOUS
  <2>1. RoundTypes /\ OneRound /\ TierRange /\ SizesInv /\ DiskRange
    BY DEF MonitorInv, RoundInv
  <2>2. monitor = \E r \in Round : ~Monitor!At(r, "idle")
    BY <2>1 DEF RoundTypes, OneRound, TierRange, Monitor!At
  <2> QED
    BY <2>1, <2>2 DEF Monitor!TypeOK, TierRange, DiskRange, SizesInv
<1> QED
  BY <1>1, <1>2, <1>3, PTL DEF PartSpec, PartVars
-----------------------------------------------------------------------------
(* Startup again, for its types: what StartTypes leaves out.               *)

StartRange == /\ boots \in 0 .. MaxBoots /\ want \in 0 .. MaxBoots
              /\ file \in [Guest -> 0 .. MaxBoots] /\ loaded \in [Guest -> 0 .. MaxBoots]
              /\ stage \in Start!Stages
              /\ (item # NoAddr) = (stage \in {"publish", "bind", "written"})
              /\ todo \in SUBSET Guest /\ listed \in SUBSET Guest
              /\ touched \in SUBSET Guest /\ skipped \in SUBSET Guest
              /\ missed \in SUBSET Guest

LEMMA StartRangeInit == Start!Init => StartRange
  BY BoundsAssumption DEF Start!Init, StartRange, Start!Stages

LEMMA StartRangeDown ==
  ASSUME StartTypes, StartRange,
         \/ Start!Boot \/ Start!Crash \/ Start!Hydrate
         \/ \E a \in Guest : Start!Outage(a)
  PROVE  StartRange'
<1>1. CASE Start!Boot
  <2>1. boots < MaxBoots /\ boots' = boots + 1 /\ want' \in {want, boots}
    BY <1>1 DEF Start!Boot
  <2>2. boots' \in 0 .. MaxBoots /\ want' \in 0 .. MaxBoots
    BY <2>1, BoundsAssumption DEF StartRange
  <2>3. /\ stage' = "hydrate" /\ touched' = {} /\ skipped' = {} /\ todo' = {}
        /\ item' = NoAddr /\ UNCHANGED <<loaded, file, listed, missed>>
    BY <1>1 DEF Start!Boot, Start!docker
  <2> QED
    BY <2>2, <2>3 DEF StartRange, Start!Stages
<1>2. CASE Start!Crash
  <2>1. /\ stage' = "down" /\ todo' = {} /\ item' = NoAddr
        /\ missed' = IF stage = "written" THEN missed \cup {item} ELSE missed
        /\ UNCHANGED <<loaded, file, want, listed, boots, touched, skipped>>
    BY <1>2 DEF Start!Crash, Start!docker
  <2> QED
    BY <2>1 DEF StartTypes, StartRange, Start!Stages
<1>3. CASE Start!Hydrate
  <2>1. /\ stage = "hydrate" /\ stage' \in {"list", "down"}
        /\ UNCHANGED <<loaded, file, want, todo, item, listed, boots, touched, skipped, missed>>
    BY <1>3 DEF Start!Hydrate, Start!docker, Start!ghosts
  <2> QED
    BY <2>1 DEF StartRange, Start!Stages
<1>4. CASE \E a \in Guest : Start!Outage(a)
  <2>1. UNCHANGED <<loaded, file, want, stage, todo, item, listed, boots, touched, skipped, missed>>
    BY <1>4 DEF Start!Outage, Start!ghosts
  <2> QED
    BY <2>1 DEF StartRange
<1> QED
  BY <1>1, <1>2, <1>3, <1>4

LEMMA StartRangeRestore ==
  ASSUME StartTypes, StartRange,
         \/ Start!ListContainers \/ Start!Published \/ Start!Restored \/ Start!Align
         \/ \E a \in Guest : Start!NotRunning(a) \/ Start!Running(a)
  PROVE  StartRange'
<1>1. CASE Start!ListContainers
  <2>1. /\ stage = "list" /\ stage' \in {"restore", "sync"}
        /\ listed' \in SUBSET Guest /\ todo' \in SUBSET Guest
        /\ UNCHANGED <<loaded, file, want, item, boots, touched, skipped, missed>>
    BY <1>1 DEF StartRange, Start!ListContainers, Start!docker, Start!ghosts
  <2> QED
    BY <2>1 DEF StartRange, Start!Stages
<1>2. CASE Start!Published
  <2>1. /\ stage = "publish" /\ item \in Guest
        /\ \/ stage' = "bind" /\ UNCHANGED <<item, skipped>>
           \/ stage' = "restore" /\ item' = NoAddr /\ skipped' = skipped \cup {item}
        /\ UNCHANGED <<loaded, file, want, todo, listed, boots, touched, missed>>
    BY <1>2 DEF StartTypes, Start!Published, Start!docker
  <2> QED
    BY <2>1 DEF StartRange, Start!Stages
<1>3. CASE Start!Restored
  <2>1. /\ stage = "bind" /\ stage' = "restore" /\ item' = NoAddr
        /\ UNCHANGED <<loaded, file, want, todo, listed, boots, touched, skipped, missed>>
    BY <1>3 DEF Start!Restored, Start!docker, Start!ghosts
  <2> QED
    BY <2>1 DEF StartRange, Start!Stages
<1>4. CASE Start!Align
  <2>1. /\ stage = "restore" /\ stage' = "restored"
        /\ UNCHANGED <<loaded, file, want, todo, item, listed, boots, touched, skipped, missed>>
    BY <1>4 DEF Start!Align, Start!docker, Start!ghosts
  <2> QED
    BY <2>1 DEF StartRange, Start!Stages
<1>5. ASSUME NEW a \in Guest, Start!NotRunning(a) \/ Start!Running(a)
      PROVE  StartRange'
  <2>1. /\ stage = "restore" /\ todo' = todo \ {a}
        /\ \/ UNCHANGED <<stage, item>>
           \/ stage' = "publish" /\ item' = a
        /\ UNCHANGED <<loaded, file, want, listed, boots, touched, skipped, missed>>
    BY <1>5 DEF Start!NotRunning, Start!Running, Start!docker, Start!ghosts
  <2> QED
    BY <2>1, BoundsAssumption DEF StartRange, Start!Stages
<1> QED
  BY <1>1, <1>2, <1>3, <1>4, <1>5

LEMMA StartRangeSync ==
  ASSUME StartTypes, StartRange,
         \/ Start!BeginSync \/ Start!Refresh \/ Start!Up
         \/ \E a \in Guest : Start!UpToDate(a) \/ Start!WritePatch(a)
  PROVE  StartRange'
<1>1. CASE Start!BeginSync
  <2>1. /\ stage = "restored" /\ stage' = "sync" /\ todo' \in SUBSET Guest
        /\ UNCHANGED <<loaded, file, want, item, listed, boots, touched, skipped, missed>>
    BY <1>1 DEF Start!BeginSync, Start!docker, Start!ghosts
  <2> QED
    BY <2>1 DEF StartRange, Start!Stages
<1>2. CASE Start!Refresh
  <2>1. /\ stage = "written" /\ stage' = "sync" /\ item' = NoAddr /\ item \in Guest
        /\ UNCHANGED <<file, want, todo, listed, boots, touched, skipped>>
    BY <1>2 DEF StartTypes, Start!Refresh
  <2>2. loaded' = [loaded EXCEPT ![item] = want] \/ UNCHANGED loaded
    BY <1>2 DEF Start!Refresh, Start!docker
  <2>3. missed' \in {missed, missed \cup {item}}
    BY <1>2 DEF Start!Refresh
  <2>4. loaded' \in [Guest -> 0 .. MaxBoots]
    BY <2>1, <2>2 DEF StartRange
  <2> QED
    BY <2>1, <2>3, <2>4 DEF StartRange, Start!Stages
<1>3. CASE Start!Up
  <2>1. /\ stage = "sync" /\ stage' = "up"
        /\ UNCHANGED <<loaded, file, want, todo, item, listed, boots, touched, skipped, missed>>
    BY <1>3 DEF Start!Up, Start!docker, Start!ghosts
  <2> QED
    BY <2>1 DEF StartRange, Start!Stages
<1>4. ASSUME NEW a \in Guest, Start!UpToDate(a)
      PROVE  StartRange'
  <2>1. /\ todo' = todo \ {a}
        /\ UNCHANGED <<loaded, file, want, stage, item, listed, boots, touched, skipped, missed>>
    BY <1>4 DEF Start!UpToDate, Start!docker, Start!ghosts
  <2> QED
    BY <2>1 DEF StartRange
<1>5. ASSUME NEW a \in Guest, Start!WritePatch(a)
      PROVE  StartRange'
  <2>1. /\ file' = [file EXCEPT ![a] = want] /\ todo' = todo \ {a}
        /\ stage' = "written" /\ item' = a
        /\ UNCHANGED <<loaded, want, listed, boots, touched, skipped, missed>>
    BY <1>5 DEF Start!WritePatch, Start!docker, Start!ghosts
  <2> QED
    BY <2>1, BoundsAssumption DEF StartRange, Start!Stages
<1> QED
  BY <1>1, <1>2, <1>3, <1>4, <1>5

LEMMA StartRangeEarly ==
  ASSUME StartTypes, StartRange, NEW a \in Guest, Start!Early(a)
  PROVE  StartRange'
<1>1. /\ touched' = touched \cup {a} /\ missed' \in {missed, missed \ {a}}
      /\ UNCHANGED <<want, stage, todo, item, listed, boots, skipped>>
  BY DEF Start!Early
<1>2. /\ file' = [file EXCEPT ![a] = want] \/ UNCHANGED file
      /\ \/ loaded' = [loaded EXCEPT ![a] = file[a]]
         \/ loaded' = [loaded EXCEPT ![a] = want]
         \/ UNCHANGED loaded
  BY DEF Start!Early, Start!docker
<1>3. file' \in [Guest -> 0 .. MaxBoots] /\ loaded' \in [Guest -> 0 .. MaxBoots]
  BY <1>2 DEF StartRange
<1> QED
  BY <1>1, <1>3 DEF StartRange

LEMMA StartTypesOK == PartSpec => [](part = "start" => Start!TypeOK)
<1> DEFINE I == part = "start" => StartInv
           R == part = "start" => StartRange
<1>1. PartInit => R
  BY StartRangeInit DEF PartInit
<1>2. I /\ R /\ [PartNext]_PartVars => R'
  <2> SUFFICES ASSUME I, R, [PartNext]_PartVars, part' = "start" PROVE StartRange'
    OBVIOUS
  <2>1. part = "start" /\ StartTypes /\ StartRange
    BY DEF PartNext, PartVars, StartInv
  <2>2. Start!Next \/ UNCHANGED startVars
    BY <2>1 DEF PartNext, PartVars
  <2>3. CASE UNCHANGED startVars
    BY <2>1, <2>3 DEF startVars, StartRange
  <2>4. CASE Start!Next
    BY <2>1, <2>4, StartRangeDown, StartRangeRestore, StartRangeSync, StartRangeEarly
       DEF Start!Next
  <2> QED
    BY <2>2, <2>3, <2>4
<1>3. I /\ R => (part = "start" => Start!TypeOK)
  BY DEF StartInv, StartTypes, StartRange, Start!TypeOK
<1> QED
  BY <1>1, <1>2, <1>3, StartPart, PTL DEF PartSpec, PartVars
-----------------------------------------------------------------------------
(* The types of all the parts.                                             *)

PartNames == {"cwt", "store", "signed", "queue", "tiers", "disk", "start"}

LEMMA PartsLast == PartSpec => [](part \in PartNames)
<1>1. PartInit => part \in PartNames
  BY DEF PartInit, PartNames
<1>2. part \in PartNames /\ [PartNext]_PartVars => (part \in PartNames)'
  BY DEF PartNext, PartVars
<1> QED
  BY <1>1, <1>2, PTL DEF PartSpec, PartVars

(* The part of the CWT applications keeps the invariant of CwtApproval:    *)
(* the bound on overlapping requests only takes steps away.                *)
LEMMA CwtTypesOK == PartSpec => [](part = "cwt" => TypeOK)
<1>1. PartInit => IInv
  BY InitInv DEF PartInit
<1>2. IInv /\ [PartNext]_PartVars => IInv'
  BY Inductive DEF PartNext, PartVars
<1> QED
  BY <1>1, <1>2, TypesFollow, PTL DEF PartSpec, PartVars

(* The containers let in on a failed count are containers of tenants, as   *)
(* all are: a call that makes one names a tenant.                          *)
BlindInv == /\ blind \subseteq boxes /\ boxes \subseteq Tenant
            /\ \A p \in Job : job[p].pc = "create" => job[p].kind = "connect"

LEMMA BlindCalls ==
  ASSUME ListTypes, BlindInv, NEW p \in Job, NEW j, Queue!Become(p, j), j.pc # "create",
         UNCHANGED <<boxes, blind>>
  PROVE  BlindInv'
  BY DEF ListTypes, BlindInv, Queue!Become

LEMMA BlindNext == ListInv /\ BlindInv /\ [Queue!Next]_queueVars => BlindInv'
<1> SUFFICES ASSUME ListInv, BlindInv, [Queue!Next]_queueVars PROVE BlindInv'
  OBVIOUS
<1>1. ListTypes
  BY DEF ListInv, ListTypes
<1>2. /\ \A p \in Job : /\ job[p] \in CallTask
                         /\ job[p].kind = "connect" => job[p].addr \in Tenant
      /\ Queue!Idle.pc = "idle" /\ Queue!Idle \in CallTask
  BY <1>1 DEF ListTypes, Queue!Idle, CallTask
<1>3. CASE UNCHANGED queueVars
  BY <1>3 DEF queueVars, BlindInv
<1>4. ASSUME NEW p \in Job, NEW a \in Tenant, Queue!Connect(p, a) PROVE BlindInv'
  <2> DEFINE j == [Queue!Idle EXCEPT !.pc = "look", !.kind = "connect", !.addr = a]
  <2>1. j.pc # "create" /\ Queue!Become(p, j) /\ UNCHANGED <<boxes, blind>>
    BY <1>2, <1>4 DEF Queue!Connect, CallTask
  <2> HIDE DEF j
  <2> QED
    BY <1>1, <2>1, BlindCalls
<1>5. ASSUME NEW p \in Job, Queue!Looked(p) PROVE BlindInv'
  <2> DEFINE j == [job[p] EXCEPT !.pc = "host"]
  <2>1. j.pc # "create"
    BY <1>2 DEF CallTask
  <2>2. (Queue!Become(p, Queue!Idle) \/ Queue!Become(p, j)) /\ UNCHANGED <<boxes, blind>>
    BY <1>5 DEF Queue!Looked
  <2> HIDE DEF j
  <2> QED
    BY <1>1, <1>2, <2>1, <2>2, BlindCalls
<1>6. ASSUME NEW p \in Job, Queue!HostChecked(p) PROVE BlindInv'
  <2>1. PICK short \in BOOLEAN : Queue!Become(p, [job[p] EXCEPT !.pc = "boxes", !.short = short])
    BY <1>6 DEF Queue!HostChecked
  <2> DEFINE j == [job[p] EXCEPT !.pc = "boxes", !.short = short]
  <2>2. j.pc # "create" /\ Queue!Become(p, j) /\ UNCHANGED <<boxes, blind>>
    BY <1>2, <1>6, <2>1 DEF Queue!HostChecked, CallTask
  <2> HIDE DEF j
  <2> QED
    BY <1>1, <2>2, BlindCalls
<1>7. ASSUME NEW p \in Job, Queue!BoxesChecked(p) PROVE BlindInv'
  <2>1. PICK j : j.pc # "create" /\ Queue!Become(p, j) /\ UNCHANGED <<boxes, blind>>
    <3> DEFINE counted == [job[p] EXCEPT !.pc = "judge", !.short = @ \/ Queue!NoBoxLeft]
               failed == [job[p] EXCEPT !.pc = "judge", !.blind = Queue!NoBoxLeft]
    <3>1. counted.pc # "create" /\ failed.pc # "create"
      BY <1>2 DEF CallTask
    <3>2. (Queue!Become(p, counted) \/ Queue!Become(p, failed)) /\ UNCHANGED <<boxes, blind>>
      BY <1>7 DEF Queue!BoxesChecked
    <3> HIDE DEF counted, failed
    <3> QED
      BY <3>1, <3>2
  <2> QED
    BY <1>1, <2>1, BlindCalls
<1>8. ASSUME NEW p \in Job, Queue!Enlist(p) PROVE BlindInv'
  BY <1>1, <1>2, <1>8, BlindCalls DEF Queue!Enlist
<1>9. ASSUME NEW p \in Job, Queue!Admit(p) PROVE BlindInv'
  <2> DEFINE j == [job[p] EXCEPT !.pc = "create"]
  <2>1. j.kind = "connect" /\ Queue!Become(p, j) /\ UNCHANGED <<boxes, blind>>
    BY <1>2, <1>9 DEF Queue!Admit, Queue!Judged, CallTask
  <2> HIDE DEF j
  <2> QED
    BY <1>1, <2>1 DEF BlindInv, ListTypes, Queue!Become
<1>10. ASSUME NEW p \in Job, Queue!Create(p) PROVE BlindInv'
  <2>0. job[p].pc = "create"
    BY <1>10 DEF Queue!Create, Queue!At
  <2>1. job[p].addr \in Tenant
    <3>1. \A q \in Job : job[q].pc = "create" => job[q].kind = "connect"
      BY DEF BlindInv
    <3>2. job[p].kind = "connect"
      BY <2>0, <3>1
    <3> QED
      BY <1>1, <3>2 DEF ListTypes
  <2>2. job' = [job EXCEPT ![p] = Queue!Idle]
    BY <1>10 DEF Queue!Create, Queue!Become
  <2>3. \A q \in Job : job'[q].pc = "create" => job'[q].kind = "connect"
    BY <1>1, <1>2, <2>2 DEF BlindInv, ListTypes
  <2>4. blind' \subseteq boxes' /\ boxes' \subseteq Tenant
    BY <1>1, <1>10, <2>1 DEF Queue!Create, BlindInv
  <2> QED
    BY <2>3, <2>4 DEF BlindInv
<1>11. ASSUME NEW p \in Job, Queue!Turn(p) PROVE BlindInv'
  <2> DEFINE j == [Queue!Idle EXCEPT !.pc = "host", !.kind = "round"]
  <2>1. j.pc # "create" /\ Queue!Become(p, j) /\ UNCHANGED <<boxes, blind>>
    BY <1>2, <1>11 DEF Queue!Turn, CallTask
  <2> HIDE DEF j
  <2> QED
    BY <1>1, <2>1, BlindCalls
<1>12. ASSUME NEW p \in Job, Queue!Shift(p) PROVE BlindInv'
  <2> DEFINE j == [Queue!Idle EXCEPT !.pc = "look", !.kind = "connect", !.addr = Head(queue).addr]
  <2>1. j.pc # "create"
    BY <1>2 DEF CallTask
  <2>2. (Queue!Become(p, Queue!Idle) \/ Queue!Become(p, j)) /\ UNCHANGED <<boxes, blind>>
    BY <1>12 DEF Queue!Shift
  <2> HIDE DEF j
  <2> QED
    BY <1>1, <1>2, <2>1, <2>2, BlindCalls
<1>13. ASSUME NEW a \in Tenant, Queue!Remove(a) PROVE BlindInv'
  BY <1>1, <1>13 DEF Queue!Remove, BlindInv
<1>14. ASSUME NEW i \in 1 .. MaxQueue, Queue!Age(i) PROVE BlindInv'
  BY <1>14 DEF Queue!Age, BlindInv
<1> QED
  BY <1>3, <1>4, <1>5, <1>6, <1>7, <1>8, <1>9, <1>10, <1>11, <1>12, <1>13, <1>14
     DEF Queue!Next

LEMMA BlindPart == PartSpec => [](part = "queue" => BlindInv)
<1> DEFINE I == part = "queue" => ListInv /\ BlindInv
<1>1. PartInit => I
  <2>1. Queue!Init => BlindInv
    BY DEF Queue!Init, Queue!Idle, BlindInv
  <2> QED
    BY <2>1, ListFirst DEF PartInit
<1>2. I /\ [PartNext]_PartVars => I'
  <2> SUFFICES ASSUME I, [PartNext]_PartVars, part' = "queue" PROVE ListInv' /\ BlindInv'
    OBVIOUS
  <2> QED
    BY ListNext, BlindNext DEF PartNext, PartVars
<1> QED
  BY <1>1, <1>2, PTL DEF PartSpec, PartVars

LEMMA QueueTypesOK == PartSpec => [](part = "queue" => Queue!TypeOK)
<1>1. ListInv /\ BlindInv => Queue!TypeOK
  <2> SUFFICES ASSUME ListInv, BlindInv PROVE Queue!TypeOK
    OBVIOUS
  <2>1. ListTypes /\ queue \in Seq(WaitEntry)
    BY DEF ListInv, ListTypes
  <2>2. \A i \in DOMAIN queue : queue[i] \in [addr : Tenant, old : BOOLEAN]
    BY <2>1, EntryFacts DEF WaitEntry
  <2>3. \A p \in Job : job[p].pc \in {"idle", "look", "host", "boxes", "judge", "create"}
    BY <2>1 DEF ListTypes, CallTask
  <2> QED
    BY <2>1, <2>2, <2>3 DEF Queue!TypeOK, ListTypes, BlindInv
<1> QED
  BY <1>1, ListPart, BlindPart, PTL

(* Every part has its types, for any number of applicants, tenants, tiers, *)
(* administrators and jobs, whatever of their work overlaps or crashes.    *)
THEOREM TypesHold == PartSpec => []TypesOK
<1> DEFINE T == /\ part = "cwt" => TypeOK
                /\ part = "store" => Store!TypeOK
                /\ part = "signed" => Signed!TypeOK
                /\ part = "queue" => Queue!TypeOK
                /\ part \in {"tiers", "disk"} => Monitor!TypeOK
                /\ part = "start" => Start!TypeOK
<1>1. part \in PartNames /\ T => TypesOK
  <2> SUFFICES ASSUME part \in PartNames, T PROVE TypesOK
    OBVIOUS
  <2>1. CASE part = "cwt"
    BY <2>1, Zenon DEF TypesOK
  <2>2. CASE part = "store"
    BY <2>2, Zenon DEF TypesOK
  <2>3. CASE part = "signed"
    BY <2>3, Zenon DEF TypesOK
  <2>4. CASE part = "queue"
    BY <2>4, Zenon DEF TypesOK
  <2>5. CASE part = "tiers"
    BY <2>5, Zenon DEF TypesOK
  <2>6. CASE part = "disk"
    BY <2>6, Zenon DEF TypesOK
  <2>7. CASE part = "start"
    BY <2>7, Zenon DEF TypesOK
  <2> QED
    BY <2>1, <2>2, <2>3, <2>4, <2>5, <2>6, <2>7 DEF PartNames
<1> QED
  BY <1>1, PartsLast, CwtTypesOK, StoreTypesOK, SignedTypesOK, QueueTypesOK, MonitorTypesOK,
     StartTypesOK, PTL
=============================================================================
