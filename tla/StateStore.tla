----------------------------- MODULE StateStore -----------------------------
(***************************************************************************)
(* Tenant records and ports with storage.provider = mongodb: the cache of  *)
(* user.service.js, its saves through state.store.js (one transaction that *)
(* fans out over users and meta), the migration and the hydration at the   *)
(* start of the server, failed saves and crashes.                          *)
(*                                                                         *)
(* A save reads the live cache between its writes: task[p] is a save, its  *)
(* pc the write it is about to send, view the collections as the           *)
(* transaction sees them, wrote the documents it has changed.  A write     *)
(* that changes nothing is none.  Two transactions that change the same    *)
(* document conflict: the callback of the second runs again.               *)
(*                                                                         *)
(* Abstractions: a record is its port, its status and rev, the number of   *)
(* the operation that wrote it (its time stamps); the users are written in *)
(* any order; the snapshot of a transaction is that of its begin; cleanup  *)
(* policy and usage rows are left out.                                     *)
(***************************************************************************)
EXTENDS Integers, FiniteSets, FiniteSetsExt

CONSTANTS Addr,      \* tenants
          Proc,      \* operations that may be saving at once
          LastPort,  \* ports are 1 .. LastPort
          Known,     \* tenants that state.json has when mongodb is switched on
          MaxOps,    \* bound on the operations of a behaviour
          MaxStarts, \* bound on the starts of the server
          Faults     \* "crash", "write", "early"

VARIABLES cache,  \* userService.state
          db,     \* the collections users and meta; schema: meta has it
          task,   \* operations under way and their saves
          boot,   \* how far the start of the server is
          said,   \* per tenant, the last operation answered as done
          gone,   \* per tenant, the last removal
          count   \* operations, starts, and failed saves since the start

vars == <<cache, db, task, boot, said, gone, count>>

NoPort == 0
Port == 1 .. LastPort
Status == {"running", "stopped", "destroyed"}
Record == [port : Port \cup {NoPort}, status : Status, rev : 0 .. MaxOps]
None == [port |-> NoPort, status |-> "none", rev |-> 0]

(* A document upserted for a tenant that has left the cache: only its _id. *)
Ghost == [None EXCEPT !.status = "unset"]

Docs == Addr \cup {"ports"}
Content == [user : [Addr -> Record \cup {None, Ghost}], next : Nat, pool : SUBSET Port]
Empty == [user |-> [a \in Addr |-> None], next |-> 1, pool |-> {}]
Keys(s) == {a \in Addr : s.user[a] # None}

(* state.json: the known tenants, on the first ports.                      *)
File ==
  LET n == Cardinality(Known)
      place == CHOOSE f \in [Known -> 1 .. n] : \A a, b \in Known : f[a] = f[b] => a = b
  IN [user |-> [a \in Addr |-> IF a \in Known
                  THEN [port |-> place[a], status |-> "stopped", rev |-> 0] ELSE None],
      next |-> n + 1, pool |-> {}]

Idle == [pc |-> "idle", addr |-> "none", port |-> NoPort, rev |-> 0, addrs |-> {},
         todo |-> {}, view |-> Empty, wrote |-> {}, stale |-> {}]
Saving == {"users", "delete", "ports", "commit"}

At(p, l) == task[p].pc = l
Become(p, t) == task' = [task EXCEPT ![p] = t]

Init == /\ cache = File
        /\ db = [content |-> Empty, schema |-> FALSE]
        /\ task = [p \in Proc |-> Idle]
        /\ boot = "migrate"
        /\ said = [a \in Addr |-> 0] /\ gone = [a \in Addr |-> 0]
        /\ count = [ops |-> 0, starts |-> 1, failed |-> FALSE]

-----------------------------------------------------------------------------
(* Operations: what each does to the cache, and the save it begins in the  *)
(* same turn.                                                              *)

Open == boot = "up" \/ ("early" \in Faults /\ boot # "down")

(* The callback of a save begins: the addresses are those of this moment.  *)
Begun(t, c) == [t EXCEPT !.pc = "users", !.addrs = Keys(c), !.todo = Keys(c),
                         !.view = db.content, !.wrote = {}, !.stale = {}]

(* An operation on a of process p leaves cache c, and saves it.            *)
Save(p, a, c, n) ==
  /\ cache' = c
  /\ Become(p, Begun([Idle EXCEPT !.addr = a, !.rev = n], c))

Count == count' = [count EXCEPT !.ops = @ + 1]

(* startContainer takes a port: the smallest of the pool, else the one     *)
(* recorded, else the next.  Bound: no reclaiming, there are enough.       *)
TakePort(p, a) ==
  /\ Open /\ At(p, "idle") /\ count.ops < MaxOps
  /\ cache.user[a].status \in {"none", "unset", "destroyed"}
  /\ LET own == cache.user[a].port IN
       \E n \in IF cache.pool # {} THEN {Min(cache.pool)}
                ELSE IF own # NoPort THEN {own} ELSE {cache.next} \cap Port :
         /\ cache' = [cache EXCEPT !.pool = @ \ {n}]
         /\ Become(p, [Idle EXCEPT !.pc = "made", !.addr = a, !.port = n])
  /\ UNCHANGED <<db, boot, said, gone, count>>

(* Mutant: the counter stays behind the port that was taken.               *)
RecordedUncounted(p) ==
  LET a == task[p].addr n == count.ops + 1 k == task[p].port IN
  /\ At(p, "made") /\ n <= MaxOps
  /\ Save(p, a, [cache EXCEPT !.user[a] = [port |-> k, status |-> "running", rev |-> n]], n)
  /\ Count /\ UNCHANGED <<db, boot, said, gone>>

(* The container is made: the record is written.                           *)
Recorded(p) ==
  LET a == task[p].addr n == count.ops + 1 k == task[p].port IN
  /\ At(p, "made") /\ n <= MaxOps
  /\ Save(p, a, [cache EXCEPT !.user[a] = [port |-> k, status |-> "running", rev |-> n],
                              !.next = IF k + 1 > @ THEN k + 1 ELSE @], n)
  /\ Count /\ UNCHANGED <<db, boot, said, gone>>

(* Stop, destroy and restart: the record keeps its port.                   *)
SetStatus(p, a, from, to) ==
  LET n == count.ops + 1 IN
  /\ Open /\ At(p, "idle") /\ n <= MaxOps
  /\ cache.user[a].status = from
  /\ Save(p, a, [cache EXCEPT !.user[a] = [@ EXCEPT !.status = to, !.rev = n]], n)
  /\ Count /\ UNCHANGED <<db, boot, said, gone>>

Stop(p, a) == SetStatus(p, a, "running", "stopped")
Start(p, a) == SetStatus(p, a, "stopped", "running")
Destroy(p, a) == SetStatus(p, a, "stopped", "destroyed")

(* removeUser: the record goes and its port to the pool.                   *)
Remove(p, a) ==
  LET n == count.ops + 1 IN
  /\ Open /\ At(p, "idle") /\ n <= MaxOps
  /\ cache.user[a] # None
  /\ Save(p, a, [cache EXCEPT !.user[a] = None,
                              !.pool = @ \cup ({cache.user[a].port} \cap Port)], n)
  /\ gone' = [gone EXCEPT ![a] = n]
  /\ Count /\ UNCHANGED <<db, boot, said>>

-----------------------------------------------------------------------------
(* The transaction of a save.                                              *)

(* A document that another transaction has changed, or is changing.        *)
Conflict(p, D) ==
  \/ D \cap task[p].stale # {}
  \/ \E q \in Proc \ {p} : D \cap task[q].wrote # {}

Doc(a) == IF cache.user[a] = None THEN Ghost ELSE cache.user[a]

(* The user documents change to f, unless they are so already.             *)
Put(t, f) ==
  [t EXCEPT !.view.user = f, !.wrote = @ \cup {a \in Addr : f[a] # t.view.user[a]}]

(* updateOne of the next user, with the record as it is now.               *)
UserSent(p, a) ==
  LET t == Put(task[p], [task[p].view.user EXCEPT ![a] = Doc(a)]) IN
  /\ At(p, "users") /\ a \in task[p].todo
  /\ ~Conflict(p, t.wrote \ task[p].wrote)
  /\ Become(p, [t EXCEPT !.todo = @ \ {a}])
  /\ UNCHANGED <<cache, db, boot, said, gone, count>>

(* deleteMany of the users that were not in the cache at the begin.        *)
OthersDeleted(p) ==
  LET f == [a \in Addr |-> IF a \in task[p].addrs THEN task[p].view.user[a] ELSE None]
      t == Put(task[p], f) IN
  /\ At(p, "users") /\ task[p].todo = {}
  /\ ~Conflict(p, t.wrote \ task[p].wrote)
  /\ Become(p, [t EXCEPT !.pc = "ports"])
  /\ UNCHANGED <<cache, db, boot, said, gone, count>>

(* updateOne of the ports, as they are now.                                *)
PortsSent(p) ==
  LET v == task[p].view
      same == v.next = cache.next /\ v.pool = cache.pool IN
  /\ At(p, "ports")
  /\ ~same => ~Conflict(p, {"ports"})
  /\ Become(p, [task[p] EXCEPT !.view = [@ EXCEPT !.next = cache.next, !.pool = cache.pool],
                               !.wrote = IF same THEN @ ELSE @ \cup {"ports"},
                               !.pc = "commit"])
  /\ UNCHANGED <<cache, db, boot, said, gone, count>>

(* What the collections hold when t has committed.                         *)
Merged(t) ==
  LET c == db.content IN
  [user |-> [a \in Addr |-> IF a \in t.wrote THEN t.view.user[a] ELSE c.user[a]],
   next |-> IF "ports" \in t.wrote THEN t.view.next ELSE c.next,
   pool |-> IF "ports" \in t.wrote THEN t.view.pool ELSE c.pool]

(* The commit, and the answer to whoever waits for the operation.          *)
Commit(p) ==
  LET t == task[p] IN
  /\ At(p, "commit")
  /\ db' = [db EXCEPT !.content = Merged(t)]
  /\ task' = [q \in Proc |->
                IF q = p THEN Idle
                ELSE IF task[q].pc \in Saving
                     THEN [task[q] EXCEPT !.stale = @ \cup t.wrote] ELSE task[q]]
  /\ said' = [said EXCEPT ![t.addr] = IF t.rev > @ THEN t.rev ELSE @]
  /\ UNCHANGED <<cache, boot, gone, count>>

(* A conflict aborts the transaction; its callback runs again.             *)
Retry(p) ==
  /\ task[p].pc \in {"users", "ports"}
  /\ Conflict(p, {d \in Docs : IF d = "ports" THEN At(p, "ports")
                               ELSE At(p, "users") /\ Doc(d) # task[p].view.user[d]})
  /\ Become(p, Begun(task[p], cache))
  /\ UNCHANGED <<cache, db, boot, said, gone, count>>

(* Another error, or one retry too many: the caller gets the error and the *)
(* cache keeps what the operation did.  Bound: one between two starts.     *)
Fail(p) ==
  /\ "write" \in Faults /\ task[p].pc \in Saving /\ ~count.failed
  /\ Become(p, Idle)
  /\ count' = [count EXCEPT !.failed = TRUE]
  /\ UNCHANGED <<cache, db, boot, said, gone>>

-----------------------------------------------------------------------------
(* The start of the server, and its end.                                   *)

(* runMigration: skipped when meta has the schema; otherwise state.json is *)
(* inserted in one transaction, which finds documents of the same _id.     *)
Migrate ==
  /\ boot = "migrate"
  /\ IF db.schema \/ db.content # Empty
     THEN /\ boot' = (IF db.schema THEN "hydrate" ELSE "down")
          /\ UNCHANGED db
     ELSE /\ \A p \in Proc : task[p].wrote = {}
          /\ db' = [content |-> File, schema |-> TRUE]
          /\ boot' = "hydrate"
  /\ UNCHANGED <<cache, task, said, gone, count>>

(* userService.init.                                                       *)
Hydrate ==
  /\ boot = "hydrate"
  /\ cache' = db.content
  /\ boot' = "up"
  /\ UNCHANGED <<db, task, said, gone, count>>

(* Bound: MaxStarts.                                                       *)
Restart ==
  /\ "crash" \in Faults /\ count.starts < MaxStarts
  /\ cache' = File
  /\ task' = [p \in Proc |-> Idle]
  /\ boot' = "migrate"
  /\ count' = [count EXCEPT !.starts = @ + 1, !.failed = FALSE]
  /\ UNCHANGED <<db, said, gone>>

Operate(p) == \/ \E a \in Addr : \/ TakePort(p, a) \/ Stop(p, a) \/ Start(p, a)
                                 \/ Destroy(p, a) \/ Remove(p, a)
              \/ Recorded(p)
Transact(p) == \/ \E a \in Addr : UserSent(p, a)
               \/ OthersDeleted(p) \/ PortsSent(p) \/ Commit(p) \/ Retry(p) \/ Fail(p)

Next == \/ \E p \in Proc : Operate(p) \/ Transact(p)
        \/ Migrate \/ Hydrate \/ Restart

Spec == Init /\ [][Next]_vars

-----------------------------------------------------------------------------
TypeOK ==
  /\ cache \in Content /\ db.content \in Content /\ db.schema \in BOOLEAN
  /\ boot \in {"migrate", "hydrate", "up", "down"}
  /\ said \in [Addr -> 0 .. MaxOps] /\ gone \in [Addr -> 0 .. MaxOps]
  /\ \A p \in Proc : /\ task[p].pc \in Saving \cup {"idle", "made"}
                     /\ task[p].view \in Content
                     /\ task[p].wrote \cup task[p].stale \subseteq Docs

(* The database never falls behind what a caller was told, whatever saves  *)
(* overlap, are retried, fail or are cut off by a crash: unless the tenant *)
(* was removed since, its record is that of the answered operation or of a *)
(* later one (user.service.js:1262, awaited by every operation).           *)
AnsweredKept ==
  \A a \in Addr : said[a] > gone[a] => db.content.user[a].rev >= said[a]

(* A port in the database is below its counter, so that no restart hands   *)
(* it out a second time: the users are sent before the ports.              *)
StoredBelowNext ==
  \A a \in Addr : db.content.user[a].port < db.content.next

Settled == boot = "up" /\ ~count.failed /\ \A p \in Proc : task[p].pc \notin Saving

(* When no save is under way and none failed, the database has the records *)
(* of the cache, of all tenants that were never removed.                   *)
SettledRecords ==
  Settled => \A a \in Addr : gone[a] = 0 => db.content.user[a] = cache.user[a]

(* Then a tenant that is not in the cache has no document either: the      *)
(* cache is the authority (state.store.js:136).                            *)
RemovedStored == Settled => Keys(db.content) \subseteq Keys(cache)

(* The database holds a whole image at every moment (state.store.js:11):   *)
(* no port belongs to two tenants, or to one and the pool.                 *)
StoredWhole ==
  \A a \in Addr : LET k == db.content.user[a].port IN
    k # NoPort => /\ k \notin db.content.pool
                  /\ \A b \in Addr \ {a} : db.content.user[b].port # k
=============================================================================
