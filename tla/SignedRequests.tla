--------------------------- MODULE SignedRequests ---------------------------
(***************************************************************************)
(* Requests a wallet signs: the pool of one-time challenges                *)
(* (tenant-config.service.js), the handlers that redeem them, the pending  *)
(* operations of administrators (admin-signature.middleware.js), and the   *)
(* one-time tickets of the gateway.                                        *)
(*                                                                         *)
(* A challenge is a number; issued[n] is what it was issued for, which its *)
(* signed message states.  A browser may present a signed request at any   *)
(* time after that, several times, and an operation with other arguments   *)
(* than it had signed.  Each handler checks in one turn, after the body    *)
(* has been read.  "bad" is a signature that does not verify.              *)
(***************************************************************************)
EXTENDS Naturals, FiniteSets, Sequences

CONSTANTS Addr,     \* wallets
          Boss,     \* those that are administrators at first
          Op,       \* operations an administrator signs, with their targets
          NoOp,
          MaxNonce, \* bound on the challenges of a behaviour
          MaxPool,  \* MAX_CHALLENGES
          MaxReplay \* bound on the answers of the gateway to one signature

VARIABLES pool,    \* challenges: per purpose and wallet the last one, or 0
          pending, \* per wallet, the operation of its last challenge
          tickets, \* tickets of the gateway
          issued,  \* what each number was issued for
          old,     \* numbers of more than five minutes (tickets: one) ago
          admins,  \* isAdmin
          done,    \* per number, how often it was honoured, and as what
          spent    \* numbers presented with a bad signature or a wrong operation

vars == <<pool, pending, tickets, issued, old, admins, done, spent>>

Nonce == 1 .. MaxNonce
(* The purposes; "config" is also that of the skill requests.              *)
Purpose == {"login", "connect", "config", "gateway", "admin"}
Slot == Purpose \X Addr
NoPending == [nonce |-> 0, op |-> NoOp]

Init == /\ pool = [s \in Slot |-> 0]
        /\ pending = [a \in Addr |-> NoPending]
        /\ tickets = {} /\ issued = <<>> /\ old = {} /\ spent = {}
        /\ admins = Boss
        /\ done = [n \in Nonce |-> [times |-> 0, ops |-> {}]]

IsIssued(n) == n \in DOMAIN issued
SlotOf(n) == <<issued[n].purpose, issued[n].addr>>
Honour(n, o) == done' = [done EXCEPT ![n] = [times |-> @.times + 1, ops |-> @.ops \cup {o}]]
Spend(n) == spent' = spent \cup {n}

-----------------------------------------------------------------------------
(* Challenges and tickets.                                                 *)

(* pruneChallenges.                                                        *)
Fresh == [s \in Slot |-> IF pool[s] \in old THEN 0 ELSE pool[s]]
Full == Cardinality({s \in Slot : Fresh[s] # 0}) >= MaxPool

Record(p, a, o) == issued' = Append(issued, [purpose |-> p, addr |-> a, op |-> o])

(* issueChallenge: it replaces the one the wallet had for the purpose.     *)
Issue(p, a) ==
  LET n == Len(issued) + 1 IN
  /\ p # "admin" /\ n \in Nonce /\ ~Full
  /\ pool' = [Fresh EXCEPT ![<<p, a>>] = n]
  /\ Record(p, a, NoOp)
  /\ UNCHANGED <<pending, tickets, old, admins, done, spent>>

Overloaded == /\ Full /\ Fresh # pool
              /\ pool' = Fresh
              /\ UNCHANGED <<pending, tickets, issued, old, admins, done, spent>>

(* Mutant: the pending operation of the last challenge stays.              *)
IssueAdminKept(a, o) ==
  LET n == Len(issued) + 1 IN
  /\ n \in Nonce /\ ~Full /\ a \in admins
  /\ pool' = [Fresh EXCEPT ![<<"admin", a>>] = n]
  /\ pending' = [pending EXCEPT ![a] = IF @.nonce # 0 /\ @.nonce \notin old THEN @
                                       ELSE [nonce |-> n, op |-> o]]
  /\ Record("admin", a, o)
  /\ UNCHANGED <<tickets, old, admins, done, spent>>

(* issueAdminSignatureChallenge, for the wallet of an admin session.       *)
IssueAdmin(a, o) ==
  LET n == Len(issued) + 1 IN
  /\ n \in Nonce /\ ~Full /\ a \in admins
  /\ pool' = [Fresh EXCEPT ![<<"admin", a>>] = n]
  /\ pending' = [pending EXCEPT ![a] = [nonce |-> n, op |-> o]]
  /\ Record("admin", a, o)
  /\ UNCHANGED <<tickets, old, admins, done, spent>>

IssueTicket(a) ==
  LET n == Len(issued) + 1 IN
  /\ n \in Nonce
  /\ tickets' = tickets \cup {n}
  /\ Record("ticket", a, NoOp)
  /\ UNCHANGED <<pool, pending, old, admins, done, spent>>

(* consumeChallenge would say yes.                                         *)
Valid(n) == pool[SlotOf(n)] = n /\ n \notin old

Consumed(n) == pool' = [pool EXCEPT ![SlotOf(n)] = 0]

-----------------------------------------------------------------------------
(* Redemption.                                                             *)

Presented(n, P) == IsIssued(n) /\ issued[n].purpose \in P

(* Connect and login verify the signature, then consume.                   *)
Connect(n) ==
  /\ Presented(n, {"connect"}) /\ Valid(n)
  /\ Consumed(n) /\ Honour(n, NoOp)
  /\ UNCHANGED <<pending, tickets, issued, old, admins, spent>>

(* A login of a wallet that is no administrator is refused after that.     *)
Login(n) ==
  /\ Presented(n, {"login"}) /\ Valid(n)
  /\ Consumed(n)
  /\ IF issued[n].addr \in admins THEN Honour(n, NoOp) /\ UNCHANGED spent
     ELSE Spend(n) /\ UNCHANGED done
  /\ UNCHANGED <<pending, tickets, issued, old, admins>>

(* Mutant: the configuration looks the challenge up and leaves it.         *)
ConfigureKept(n, bad) ==
  /\ Presented(n, {"config"}) /\ Valid(n)
  /\ IF bad THEN Spend(n) /\ UNCHANGED done ELSE Honour(n, NoOp) /\ UNCHANGED spent
  /\ UNCHANGED <<pool, pending, tickets, issued, old, admins>>

(* Configuration and skills consume, then verify.                          *)
Configure(n, bad) ==
  /\ Presented(n, {"config"}) /\ Valid(n)
  /\ Consumed(n)
  /\ IF bad THEN Spend(n) /\ UNCHANGED done ELSE Honour(n, NoOp) /\ UNCHANGED spent
  /\ UNCHANGED <<pending, tickets, issued, old, admins>>

(* The gateway answers valid for every good signature, however often it is *)
(* presented, and consumes the challenge if it can.                        *)
Verify(n) ==
  /\ Presented(n, {"gateway"}) /\ done[n].times < MaxReplay
  /\ pool' = [pool EXCEPT ![SlotOf(n)] = IF Valid(n) THEN 0 ELSE @]
  /\ Honour(n, NoOp)
  /\ UNCHANGED <<pending, tickets, issued, old, admins, spent>>

(* requireAdminSignature: with the wrong operation or a bad signature the  *)
(* challenge is lost.  No pending operation is older than its challenge.   *)
Pended(n) == pending[issued[n].addr].nonce = n /\ n \notin old

(* buildBinding: the operation with its targets is what was signed for.    *)
Binding(n, o) == pending[issued[n].addr].op = o

AdminOp(n, o, bad) ==
  LET a == issued[n].addr IN
  /\ Presented(n, {"admin"}) /\ a \in admins /\ Pended(n)
  /\ pending' = [pending EXCEPT ![a] = NoPending]
  /\ IF ~Binding(n, o)
     THEN Spend(n) /\ UNCHANGED <<pool, done>>
     ELSE /\ pool' = [pool EXCEPT ![SlotOf(n)] = IF Valid(n) THEN 0 ELSE @]
          /\ IF bad \/ ~Valid(n) THEN Spend(n) /\ UNCHANGED done
             ELSE Honour(n, o) /\ UNCHANGED spent
  /\ UNCHANGED <<tickets, issued, old, admins>>

(* tryTicket on the port of owner: the ticket is used up in any case.      *)
Enter(n, owner) ==
  /\ n \in tickets
  /\ tickets' = tickets \ {n}
  /\ IF issued[n].addr # owner \/ n \in old
     THEN Spend(n) /\ UNCHANGED done
     ELSE Honour(n, NoOp) /\ UNCHANGED spent
  /\ UNCHANGED <<pool, pending, issued, old, admins>>

-----------------------------------------------------------------------------
(* Five minutes pass for the oldest numbers.                               *)
Age == /\ old # DOMAIN issued
       /\ old' = old \cup {Cardinality(old) + 1}
       /\ UNCHANGED <<pool, pending, tickets, issued, admins, done, spent>>

(* addAdmin and removal by configuration.                                  *)
Promote(a) == /\ a \notin admins /\ admins' = admins \cup {a}
              /\ UNCHANGED <<pool, pending, tickets, issued, old, done, spent>>
Demote(a) == /\ a \in admins /\ admins' = admins \ {a}
             /\ UNCHANGED <<pool, pending, tickets, issued, old, done, spent>>

Next == \/ \E a \in Addr : \/ \E p \in Purpose : Issue(p, a)
                           \/ \E o \in Op : IssueAdmin(a, o)
                           \/ IssueTicket(a) \/ Promote(a) \/ Demote(a)
        \/ \E n \in Nonce : \/ Connect(n) \/ Login(n) \/ Verify(n)
                            \/ \E a \in Addr : Enter(n, a)
                            \/ \E bad \in BOOLEAN : \/ Configure(n, bad)
                                                    \/ \E o \in Op : AdminOp(n, o, bad)
        \/ Overloaded \/ Age

Spec == Init /\ [][Next]_vars

-----------------------------------------------------------------------------
TypeOK ==
  /\ pool \in [Slot -> Nonce \cup {0}] /\ tickets \subseteq DOMAIN issued
  /\ old \subseteq DOMAIN issued /\ spent \subseteq DOMAIN issued /\ admins \subseteq Addr
  /\ \A a \in Addr : pending[a].nonce \in Nonce \cup {0} /\ pending[a].op \in Op \cup {NoOp}
  /\ Cardinality({s \in Slot : pool[s] # 0}) <= MaxPool

(* What a wallet signed is done at most once, and is what it signed: by no *)
(* order of challenges, repeated requests, ageing and changes of the       *)
(* administrators (admin-signature.middleware.js:31).  The gateway's check *)
(* alone says valid to a replay too (tenant-proxy.service.js:798), and so  *)
(* is left out of the once; it carries no operation.                       *)
SignedOnce ==
  \A n \in DOMAIN issued : /\ done[n].ops \subseteq {issued[n].op}
                           /\ issued[n].purpose # "gateway" => done[n].times <= 1

Last(n) == \A m \in DOMAIN issued : m > n => SlotOf(m) # SlotOf(n)

(* The last challenge a wallet got for a purpose works until it is used or *)
(* too old: neither the clean-up of the pools nor what other wallets and   *)
(* other purposes do loses it (tenant-config.service.js:116).              *)
LastWorks ==
  \A n \in DOMAIN issued \ (old \cup spent) :
    /\ issued[n].purpose \in Purpose \ {"gateway"} /\ Last(n) /\ done[n].times = 0
    => Valid(n) /\ (issued[n].purpose = "admin" => Pended(n) /\ pending[issued[n].addr].op = issued[n].op)
=============================================================================
