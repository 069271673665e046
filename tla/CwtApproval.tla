----------------------------- MODULE CwtApproval -----------------------------
(***************************************************************************)
(* CWT applications and their approval with storage.provider = mongodb:    *)
(* cwt-admin.service.js (submit, approve, reject, revoke) over the caches  *)
(* and transactions of cwt.store.js, mongo.store.js and state.store.js.    *)
(*                                                                         *)
(* The caches change as an operation goes; the database changes when its   *)
(* transaction commits.  A transaction that writes what another one has    *)
(* open, or has committed meanwhile, conflicts, and its callback runs      *)
(* again.  task[p].pc names the write a task waits for.                    *)
(*                                                                         *)
(* Abstractions: verification has no I/O and is part of the turn that asks *)
(* for it; an application is its status and its owner; a fan-out of the    *)
(* user records is one write, of the CWT marks, and the saves of them that *)
(* other operations make are left out.                                     *)
(***************************************************************************)
EXTENDS Integers, FiniteSets, Sequences

CONSTANTS Addr,        \* wallet addresses
          Known,       \* addresses with a tenant record
          MaxApps,     \* bound on the applications of a behaviour
          Proc,        \* requests that may run at once
          MaxPending,  \* cwt.maxPending
          Keep,        \* REJECTED_KEEP
          Faults       \* "crash", "write"

ASSUME KnownAssumption == Known \subseteq Addr
ASSUME CapAssumption == MaxPending \in Nat \ {0} /\ Keep \in Nat
ASSUME BoundAssumption == MaxApps \in Nat

Id == 1 .. MaxApps     \* applications, numbered as they are submitted

VARIABLES place,      \* cwtStore.applications: where in the array each one is,
                      \* 0 when it is not in it
          status,     \* status of each application object
          registry,   \* cwtStore.registry
          mark,       \* cwtAuthorizedAt of the tenant records
          db,         \* the committed collections
          task,       \* requests under way
          owner,      \* parsed.address of the applications
          history     \* what callers were told, for the properties

caches == <<place, status, registry, mark>>
vars == <<caches, db, task, owner, history>>

AppStatus == {"none", "pending", "approved", "rejected"}
RegStatus == {"none", "approved", "revoked"}
Group == {"apps", "reg", "users"}
Writes == [submit |-> {"apps"}, approve |-> Group, reject |-> {"apps"}, revoke |-> {"reg", "users"}]
Pcs == {"idle", "insert", "commit"} \cup Group
Action == {"approve", "revoke"}

NoApps == [i \in Id |-> "none"]
NoMarks == [a \in Addr |-> FALSE]

(* A request; apps, reg and marks are what its transaction has written to  *)
(* the groups in wrote, stale the groups others committed since it began.  *)
Fresh(o, i, a) == [pc |-> "idle", op |-> o, id |-> i, addr |-> a, wrote |-> {},
                   stale |-> {}, apps |-> NoApps, reg |-> "none", marks |-> NoMarks]
Idle == Fresh("none", 0, CHOOSE a \in Addr : TRUE)

At(p, l) == task[p].pc = l
Become(p, t) == task' = [task EXCEPT ![p] = t]

Pending == {i \in Id : place[i] # 0 /\ status[i] = "pending"}

(* Those of S behind x in the array.                                       *)
Behind(pl, x, S) == {i \in S : pl[i] > pl[x]}

(* Mutant: every decided application counts and may go.                    *)
PrunedDecided(pl, st) ==
  LET Decided == {i \in Id : st[i] # "pending"}
      Gone == {i \in Decided : Cardinality(Behind(pl, i, Decided)) >= Keep}
  IN [i \in Id |-> IF i \in Gone THEN 0 ELSE pl[i]]

(* Mutant: one rejected application too many is kept.                      *)
PrunedLate(pl, st) ==
  LET Rejected == {i \in Id : st[i] = "rejected"}
      Gone == {i \in Rejected : Cardinality(Behind(pl, i, Rejected)) > Keep}
  IN [i \in Id |-> IF i \in Gone THEN 0 ELSE pl[i]]

(* saveApplications: of the rejected ones only the last Keep stay.         *)
Pruned(pl, st) ==
  LET Rejected == {i \in Id : st[i] = "rejected"}
      Gone == {i \in Rejected : Cardinality(Behind(pl, i, Rejected)) >= Keep}
  IN [i \in Id |-> IF i \in Gone THEN 0 ELSE pl[i]]

Image(pl, st) == [i \in Id |-> IF pl[i] # 0 THEN st[i] ELSE "none"]

(* The places in the array of those that are hydrated, newest first, and of*)
(* those that are submitted later.                                         *)
Hydrated(i) == MaxApps + 1 - i
Last(i) == MaxApps + i

Init == /\ place = [i \in Id |-> 0] /\ status = NoApps
        /\ registry = [a \in Addr |-> "none"] /\ mark = NoMarks
        /\ db = [apps |-> NoApps, reg |-> registry, marks |-> NoMarks, log |-> {}]
        /\ task = [p \in Proc |-> Idle]
        /\ owner = <<>>
        /\ history = [confirmed |-> {}, declined |-> {}, failed |-> FALSE]

-----------------------------------------------------------------------------
(* Requests.  Each one's first turn runs up to the first write.            *)

SetStatus(i, s) ==
  /\ status' = [status EXCEPT ![i] = s]
  /\ place' = Pruned(place, status')
  /\ history' = IF s = "rejected" THEN [history EXCEPT !.declined = @ \cup {i}]
                ELSE history

Submit(p, a) ==
  LET i == Len(owner) + 1 IN
  /\ At(p, "idle") /\ i \in Id
  /\ Cardinality(Pending) < MaxPending
  /\ registry[a] # "approved"
  /\ \A j \in Pending : owner[j] # a
  /\ owner' = Append(owner, a)
  /\ status' = [status EXCEPT ![i] = "pending"]
  /\ place' = Pruned([place EXCEPT ![i] = Last(i)], status')
  /\ Become(p, [Fresh("submit", i, a) EXCEPT !.pc = "apps"])
  /\ UNCHANGED <<registry, mark, db, history>>

(* The callback of a decision begins, for the first time or again.         *)
Decide(p, t) ==
  \/ /\ t.op \in {"approve", "revoke"}
     /\ registry' = [registry EXCEPT ![t.addr] =
                       IF t.op = "approve" THEN "approved" ELSE "revoked"]
     /\ Become(p, [t EXCEPT !.pc = "reg"])
     /\ UNCHANGED <<place, status, history>>
  \/ /\ t.op = "reject"
     /\ SetStatus(t.id, "rejected")
     /\ Become(p, [t EXCEPT !.pc = "apps"])
     /\ UNCHANGED registry

Approve(p, i) ==
  /\ At(p, "idle") /\ i \in Pending
  /\ Decide(p, Fresh("approve", i, owner[i]))
  /\ UNCHANGED <<mark, db, owner>>

Reject(p, i) ==
  /\ At(p, "idle") /\ i \in Pending
  /\ Decide(p, Fresh("reject", i, owner[i]))
  /\ UNCHANGED <<mark, db, owner>>

Revoke(p, a) ==
  /\ At(p, "idle") /\ registry[a] # "none"
  /\ Decide(p, Fresh("revoke", 0, a))
  /\ UNCHANGED <<mark, db, owner>>

-----------------------------------------------------------------------------
(* Transactions.                                                           *)

Meets(p, q, g) == g # "reg" \/ task[p].addr = task[q].addr

(* Mutant: the writes are not made in the session of the transaction.      *)
ConflictMissed(p, g) == FALSE

Conflict(p, g) ==
  \/ g \in task[p].stale
  \/ \E q \in Proc \ {p} : g \in task[q].wrote /\ Meets(p, q, g)

(* The other transactions see that groups G of task p have changed, unless *)
(* they are still to begin: a transaction begins at its first write.       *)
Outdate(p, t, G) ==
  task' = [q \in Proc |->
             IF q = p THEN t
             ELSE IF task[q].wrote = {} THEN task[q]
             ELSE [task[q] EXCEPT !.stale =
                     @ \cup {g \in G \cap Writes[task[q].op] : Meets(p, q, g)}]]

(* The records of the cache are sent as they are now, if there is one.     *)
SaveMarks(t) == IF t.addr \in Known THEN [t EXCEPT !.marks = mark', !.pc = "users"]
                ELSE [t EXCEPT !.pc = "commit"]

(* The registry entry is written: the status is set, or the mark cleared.  *)
RegWritten(p) ==
  /\ At(p, "reg") /\ ~Conflict(p, "reg")
  /\ LET t == [task[p] EXCEPT !.wrote = @ \cup {"reg"}, !.reg =
                 IF task[p].op = "approve" THEN "approved" ELSE "revoked"] IN
       \/ /\ t.op = "approve"
          /\ SetStatus(t.id, "approved")
          /\ Become(p, [t EXCEPT !.pc = "apps"])
          /\ UNCHANGED mark
       \/ /\ t.op = "revoke"
          /\ mark' = [mark EXCEPT ![t.addr] = FALSE]
          /\ Become(p, SaveMarks(t))
          /\ UNCHANGED <<place, status, history>>
  /\ UNCHANGED <<registry, db, owner>>

(* deleteMany has returned: insertMany takes the array as it is now.       *)
Deleted(p) ==
  /\ At(p, "apps") /\ ~Conflict(p, "apps")
  /\ Become(p, [task[p] EXCEPT !.wrote = @ \cup {"apps"}, !.apps = Image(place, status),
                  !.pc = IF task[p].op = "approve" THEN "insert" ELSE "commit"])
  /\ UNCHANGED <<caches, db, owner, history>>

(* insertMany has returned: the mark, if there is a record, and its save.  *)
Inserted(p) ==
  /\ At(p, "insert")
  /\ mark' = [mark EXCEPT ![task[p].addr] = task[p].addr \in Known]
  /\ Become(p, SaveMarks(task[p]))
  /\ UNCHANGED <<place, status, registry, db, owner, history>>

UsersWritten(p) ==
  /\ At(p, "users") /\ ~Conflict(p, "users")
  /\ Become(p, [task[p] EXCEPT !.wrote = @ \cup {"users"}, !.pc = "commit"])
  /\ UNCHANGED <<caches, db, owner, history>>

(* Audit records of decisions on the registry; a rejection's is left out.  *)
Entries(t) == IF t.op \in Action THEN {[op |-> t.op, addr |-> t.addr]} ELSE {}

Written(t) ==
  [apps  |-> IF "apps" \in t.wrote THEN t.apps ELSE db.apps,
   reg   |-> IF "reg" \in t.wrote THEN [db.reg EXCEPT ![t.addr] = t.reg] ELSE db.reg,
   marks |-> IF "users" \in t.wrote THEN t.marks ELSE db.marks,
   log   |-> db.log \cup Entries(t)]

(* Mutant: the audit record of a revocation is not part of it.             *)
CommitUnlogged(p) ==
  /\ At(p, "commit")
  /\ db' = [Written(task[p]) EXCEPT !.log = IF task[p].op = "revoke" THEN db.log ELSE @]
  /\ Outdate(p, Idle, task[p].wrote)
  /\ history' = IF task[p].op = "submit"
                THEN [history EXCEPT !.confirmed = @ \cup {task[p].id}] ELSE history
  /\ UNCHANGED <<caches, owner>>

(* The audit record, the commit and the answer.                            *)
Commit(p) ==
  /\ At(p, "commit")
  /\ db' = Written(task[p])
  /\ Outdate(p, Idle, task[p].wrote)
  /\ history' = IF task[p].op = "submit"
                THEN [history EXCEPT !.confirmed = @ \cup {task[p].id}] ELSE history
  /\ UNCHANGED <<caches, owner>>

(* A conflict aborts the transaction: the callback runs again.             *)
Retry(p) ==
  LET t == Fresh(task[p].op, task[p].id, task[p].addr) IN
  /\ task[p].pc \in Group /\ Conflict(p, task[p].pc)
  /\ IF t.op = "submit"
     THEN Become(p, [t EXCEPT !.pc = "apps"]) /\ UNCHANGED <<place, status, registry, history>>
     ELSE Decide(p, t)
  /\ UNCHANGED <<mark, db, owner>>

(* Another error, or one retry too many, ends the request.  Bound: one     *)
(* failed request between two starts of the process.                       *)
Fail(p) ==
  /\ "write" \in Faults /\ ~At(p, "idle") /\ ~history.failed
  /\ Become(p, Idle)
  /\ history' = [history EXCEPT !.failed = TRUE]
  /\ UNCHANGED <<caches, db, owner>>

-----------------------------------------------------------------------------
(* A crash, and the hydration at the next start: newest application first. *)
Restart ==
  /\ "crash" \in Faults
  /\ place' = [i \in Id |-> IF db.apps[i] # "none" THEN Hydrated(i) ELSE 0]
  /\ status' = db.apps /\ registry' = db.reg /\ mark' = db.marks
  /\ task' = [p \in Proc |-> Idle]
  /\ history' = [history EXCEPT !.failed = FALSE]
  /\ UNCHANGED <<db, owner>>

Request(p) == \/ \E a \in Addr : Submit(p, a) \/ Revoke(p, a)
              \/ \E i \in Id : Approve(p, i) \/ Reject(p, i)
Transact(p) == \/ RegWritten(p) \/ Deleted(p) \/ Inserted(p) \/ UsersWritten(p)
               \/ Commit(p) \/ Retry(p) \/ Fail(p)

Next == \/ \E p \in Proc : Request(p) \/ Transact(p)
        \/ Restart

Spec == Init /\ [][Next]_vars

-----------------------------------------------------------------------------
Count(st, s) == Cardinality({i \in Id : st[i] = s})

(* Types, and the cap on rejected applications in the cache and in the     *)
(* database, whichever overlapping save is the last (cwt.store.js:119).    *)
TypeOK ==
  /\ place \in [Id -> 0 .. 2 * MaxApps]
  /\ status \in [Id -> AppStatus] /\ owner \in Seq(Addr)
  /\ registry \in [Addr -> RegStatus] /\ mark \in [Addr -> BOOLEAN]
  /\ db.apps \in [Id -> AppStatus] /\ db.reg \in [Addr -> RegStatus]
  /\ db.marks \in [Addr -> BOOLEAN]
  /\ \A e \in db.log : e.op \in Action /\ e.addr \in Addr
  /\ \A p \in Proc : task[p].pc \in Pcs /\ task[p].wrote \subseteq Group
  /\ Count(db.apps, "rejected") <= Keep
  /\ Count(Image(place, status), "rejected") <= Keep

(* The registry of the database agrees with its audit trail whatever       *)
(* overlaps, fails or crashes: what an entry says was done has a record,   *)
(* and a recorded approval has its entry (cwt-admin.service.js:189).       *)
AuditTrail ==
  \A a \in Addr :
    LET Logged(o) == \E e \in db.log : e.op = o /\ e.addr = a IN
      /\ db.reg[a] = "approved" => Logged("approve")
      /\ db.reg[a] = "revoked" => Logged("revoke")
      /\ Logged("approve") => db.reg[a] # "none"

(* A confirmed application is kept for ever unless somebody set out to     *)
(* reject it, whatever saves overlap and crash (cwt-admin.service.js:12).  *)
ConfirmedKept ==
  \A i \in history.confirmed : db.apps[i] # "none" \/ i \in history.declined

(* At rest, unless a request failed, the database holds the applications   *)
(* of the cache: no overlap of saves leaves the two apart, though each     *)
(* writes the whole array (cwt.store.js:129).                              *)
ApplicationsSettled ==
  (\A p \in Proc : At(p, "idle")) /\ ~history.failed => Image(place, status) = db.apps

(* An approval is in the database as a whole or not at all: the            *)
(* application, the registry entry and the mark (cwt.store.js:208).        *)
ApprovedWhole ==
  /\ \A i \in Id : db.apps[i] = "approved" => db.reg[owner[i]] # "none"
  /\ \A a \in Addr : db.marks[a] => db.reg[a] # "none"
=============================================================================
