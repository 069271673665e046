------------------------------ MODULE Sessions ------------------------------
(***************************************************************************)
(* Login sessions with storage.provider = mongodb: the two in-memory       *)
(* stores of the middleware (AdminSessionStore, UserSessionStore), their   *)
(* SessionMirror queues, hydration at startup and the drain at SIGTERM     *)
(* (session.store.js, auth.middleware.js, user-auth.middleware.js,         *)
(* server.js).                                                             *)
(*                                                                         *)
(* A store is an object: the one built from the json files when the modules*)
(* load, replaced by the one hydrated from the database.  Mirror jobs keep *)
(* a reference to the object they were queued for and read it when they    *)
(* run.  The mongo server is external: a transaction commits or fails as a *)
(* whole, and its TTL index removes expired rows.                          *)
(***************************************************************************)
EXTENDS Integers, Sequences, FiniteSets

CONSTANTS Token,       \* sha256 of the cookies ever issued
          Scope,       \* "admin" and "user"
          ScopeOf,     \* the store a token belongs to
          FileTokens,  \* rows the json provider left, migrated into the database
          MaxQueue,    \* bound on the jobs of one queue
          MaxBoots,    \* bound on the starts of the server
          Lapse,       \* tokens whose time may run out while the instance runs
          Faults       \* "crash", "write", "early" (requests before hydration),
                       \* "gateway" (logouts through a tenant's gateway)

ASSUME ScopeAssumption == ScopeOf \in [Token -> Scope] /\ FileTokens \subseteq Token
ASSUME BoundAssumption == MaxQueue \in Nat \ {0} /\ MaxBoots \in Nat

VARIABLES mode,      \* the process: "down", "up", "exiting"
          boots,     \* how often it has started
          hydrated,  \* has the store of the scope been replaced?
          loading,   \* rows the hydration has read, before it assigns them
          sess,      \* sess[s][h]: the objects before (FALSE) and after (TRUE)
          queue,     \* mirror jobs of a scope, each the object it refers to
          job,       \* the rows the running job is going to write
          refused,   \* did the database refuse the last write of the scope?
          db,        \* the sessions collection
          due,       \* jobs a logout still waits for, or NotDue
          drain,     \* jobs the shutdown still waits for
          cut,       \* sessions present when the shutdown began
          issued, expired, revoked, answered

process == <<mode, boots>>
store == <<hydrated, loading, sess>>
mirror == <<queue, job, refused>>
history == <<issued, expired, revoked, answered>>
vars == <<process, store, mirror, db, due, drain, cut, history>>

NotDue == -1
NoJob == [on |-> FALSE, rows |-> {}]
NotRead == [on |-> FALSE, rows |-> {}]

Of(s, S) == {t \in S : ScopeOf[t] = s}
Current(s) == sess[s][hydrated[s]]

Init ==
  /\ mode = "down" /\ boots = 0
  /\ hydrated = [s \in Scope |-> FALSE]
  /\ loading = [s \in Scope |-> NotRead]
  /\ sess = [s \in Scope |-> [h \in BOOLEAN |-> {}]]
  /\ queue = [s \in Scope |-> <<>>] /\ job = [s \in Scope |-> NoJob]
  /\ refused = [s \in Scope |-> FALSE]
  /\ db = FileTokens /\ issued = FileTokens
  /\ due = [t \in Token |-> NotDue]
  /\ drain = [s \in Scope |-> 0] /\ cut = {}
  /\ expired = {} /\ revoked = {} /\ answered = {}

-----------------------------------------------------------------------------
(* Start, hydration, end of the process.                                   *)

(* The modules load: the stores hold what the files hold.                  *)
Boot ==
  /\ mode = "down" /\ boots < MaxBoots
  /\ mode' = "up" /\ boots' = boots + 1
  /\ sess' = [s \in Scope |-> [h \in BOOLEAN |-> IF h THEN {} ELSE Of(s, FileTokens)]]
  /\ UNCHANGED <<hydrated, loading, mirror, db, due, drain, cut, history>>

(* init: read the rows of the scope, then replace the object.  The admin   *)
(* store comes first.                                                      *)
HydrateRead(s) ==
  /\ mode # "down" /\ ~hydrated[s] /\ ~loading[s].on
  /\ s = "user" => hydrated["admin"]
  /\ loading' = [loading EXCEPT ![s] = [on |-> TRUE, rows |-> Of(s, db)]]
  /\ UNCHANGED <<process, hydrated, sess, mirror, db, due, drain, cut, history>>

(* Mutant: a hydration that fails is ignored, the json image stays.        *)
HydrateFailed(s) ==
  /\ loading[s].on
  /\ sess' = [sess EXCEPT ![s][TRUE] = sess[s][FALSE]]
  /\ hydrated' = [hydrated EXCEPT ![s] = TRUE]
  /\ loading' = [loading EXCEPT ![s] = NotRead]
  /\ UNCHANGED <<process, mirror, db, due, drain, cut, history>>

HydrateSet(s) ==
  /\ loading[s].on
  /\ sess' = [sess EXCEPT ![s][TRUE] = loading[s].rows]
  /\ hydrated' = [hydrated EXCEPT ![s] = TRUE]
  /\ loading' = [loading EXCEPT ![s] = NotRead]
  /\ UNCHANGED <<process, mirror, db, due, drain, cut, history>>

(* The process is gone: memory, queued jobs and open transactions with it. *)
Gone ==
  /\ mode' = "down"
  /\ hydrated' = [s \in Scope |-> FALSE]
  /\ loading' = [s \in Scope |-> NotRead]
  /\ sess' = [s \in Scope |-> [h \in BOOLEAN |-> {}]]
  /\ queue' = [s \in Scope |-> <<>>] /\ job' = [s \in Scope |-> NoJob]
  /\ due' = [t \in Token |-> NotDue]
  /\ drain' = [s \in Scope |-> 0] /\ cut' = {}
  /\ UNCHANGED <<boots, refused, db, history>>

(* A crash, or a hydration that fails and refuses to start.                *)
Crash == "crash" \in Faults /\ mode # "down" /\ Gone

(* SIGTERM: flush both queues as they are now, then exit.                  *)
Terminate ==
  /\ mode = "up"
  /\ mode' = "exiting"
  /\ drain' = [s \in Scope |-> Len(queue[s])]
  /\ cut' = UNION {Current(s) : s \in {x \in Scope : hydrated[x]}}
  /\ UNCHANGED <<boots, store, mirror, db, due, history>>

(* Mutant: exit without waiting for the queues.                            *)
ExitAtOnce == mode = "exiting" /\ Gone

Exit == /\ mode = "exiting" /\ \A s \in Scope : drain[s] = 0
        /\ Gone

-----------------------------------------------------------------------------
(* Requests.                                                               *)

Serves(s) == mode # "down" /\ (hydrated[s] \/ "early" \in Faults)

(* Mutant: a job that is already queued is relied upon.                    *)
PersistOnce(s, S) ==
  /\ sess' = [sess EXCEPT ![s][hydrated[s]] = S \ expired]
  /\ queue' = IF queue[s] # <<>> THEN queue
              ELSE [queue EXCEPT ![s] = Append(@, hydrated[s])]

(* _persist: prune what has expired, queue a mirror of the whole object.   *)
Persist(s, S) ==
  /\ Len(queue[s]) < MaxQueue
  /\ sess' = [sess EXCEPT ![s][hydrated[s]] = S \ expired]
  /\ queue' = [queue EXCEPT ![s] = Append(@, hydrated[s])]

Create(t) ==
  /\ Serves(ScopeOf[t]) /\ t \notin issued
  /\ Persist(ScopeOf[t], Current(ScopeOf[t]) \cup {t})
  /\ issued' = issued \cup {t}
  /\ UNCHANGED <<process, hydrated, loading, job, refused, db, due, drain, cut,
                 expired, revoked, answered>>

(* resolve of an expired session deletes it; any other resolve only reads. *)
ResolveExpired(t) ==
  /\ Serves(ScopeOf[t]) /\ t \in Current(ScopeOf[t]) \cap expired
  /\ Persist(ScopeOf[t], Current(ScopeOf[t]) \ {t})
  /\ UNCHANGED <<process, hydrated, loading, job, refused, db, due, drain, cut, history>>

(* revoke: delete, persist, and wait for the queue as it is then.          *)
Revoke(t) ==
  /\ Serves(ScopeOf[t]) /\ t \in issued /\ due[t] = NotDue
  /\ Persist(ScopeOf[t], Current(ScopeOf[t]) \ {t})
  /\ due' = [due EXCEPT ![t] = Len(queue'[ScopeOf[t]])]
  /\ revoked' = revoked \cup {t}
  /\ UNCHANGED <<process, hydrated, loading, job, refused, db, drain, cut,
                 issued, expired, answered>>

(* The gateway's logout answers without waiting for revoke.                *)
GatewayLogout(t) ==
  /\ "gateway" \in Faults /\ ScopeOf[t] = "user"
  /\ Serves("user") /\ t \in issued /\ due[t] = NotDue
  /\ Persist("user", Current("user") \ {t})
  /\ revoked' = revoked \cup {t}
  /\ answered' = answered \cup {t}
  /\ UNCHANGED <<process, hydrated, loading, job, refused, db, due, drain, cut,
                 issued, expired>>

(* Mutant: the logout is answered while its job is still queued.           *)
AnswerEarly(t) ==
  /\ due[t] # NotDue
  /\ due' = [due EXCEPT ![t] = NotDue]
  /\ answered' = answered \cup {t}
  /\ UNCHANGED <<process, store, mirror, db, drain, cut, issued, expired, revoked>>

Answer(t) ==
  /\ due[t] = 0
  /\ due' = [due EXCEPT ![t] = NotDue]
  /\ answered' = answered \cup {t}
  /\ UNCHANGED <<process, store, mirror, db, drain, cut, issued, expired, revoked>>

-----------------------------------------------------------------------------
(* The mirror queue.                                                       *)

(* _replace reads the object after deleteMany; withTransaction may run it  *)
(* again.                                                                  *)
Snapshot(s) ==
  /\ queue[s] # <<>>
  /\ job' = [job EXCEPT ![s] = [on |-> TRUE, rows |-> sess[s][Head(queue[s])]]]
  /\ UNCHANGED <<process, store, queue, refused, db, due, drain, cut, history>>

(* Mutant: counts down jobs nobody waits for.                              *)
LessAlways(n) == n - 1

Less(n) == IF n > 0 THEN n - 1 ELSE n

Done(s, failed) ==
  /\ queue' = [queue EXCEPT ![s] = Tail(@)]
  /\ refused' = [refused EXCEPT ![s] = failed]
  /\ job' = [job EXCEPT ![s] = NoJob]
  /\ due' = [t \in Token |-> IF ScopeOf[t] = s THEN Less(due[t]) ELSE due[t]]
  /\ drain' = [drain EXCEPT ![s] = Less(@)]

Commit(s) ==
  /\ job[s].on
  /\ db' = (db \ Of(s, db)) \cup job[s].rows
  /\ Done(s, FALSE)
  /\ UNCHANGED <<process, store, cut, history>>

(* Mutant: a failed job stays at the head of the queue.                    *)
CommitFailStuck(s) ==
  /\ "write" \in Faults /\ queue[s] # <<>>
  /\ job' = [job EXCEPT ![s] = NoJob]
  /\ refused' = [refused EXCEPT ![s] = TRUE]
  /\ UNCHANGED <<process, store, queue, db, due, drain, cut, history>>

(* enqueue catches the error of a job, whether it had a snapshot or not.   *)
CommitFail(s) ==
  /\ "write" \in Faults /\ queue[s] # <<>>
  /\ Done(s, TRUE)
  /\ UNCHANGED <<process, store, db, cut, history>>

-----------------------------------------------------------------------------
(* Time, and the TTL index.                                                *)

Expire(t) ==
  /\ t \in (Lapse \cap issued) \ expired
  /\ expired' = expired \cup {t}
  /\ UNCHANGED <<process, store, mirror, db, due, drain, cut, issued, revoked, answered>>

TtlDelete(t) ==
  /\ t \in db \cap expired
  /\ db' = db \ {t}
  /\ UNCHANGED <<process, store, mirror, due, drain, cut, history>>

Mirror(s) == Snapshot(s) \/ Commit(s) \/ CommitFail(s)

Next ==
  \/ Boot \/ Crash \/ Terminate \/ Exit
  \/ \E s \in Scope : HydrateRead(s) \/ HydrateSet(s) \/ Mirror(s)
  \/ \E t \in Token : \/ Create(t) \/ ResolveExpired(t) \/ Revoke(t)
                      \/ GatewayLogout(t) \/ Answer(t)
                      \/ Expire(t) \/ TtlDelete(t)

Spec == Init /\ [][Next]_vars

(* The event loop drains the queues and ends what waits for them.          *)
Fairness == /\ \A s \in Scope : /\ WF_vars(Commit(s) \/ CommitFail(s))
                                /\ WF_vars(Snapshot(s) /\ ~job[s].on)
            /\ \A t \in Token : WF_vars(Answer(t))
            /\ WF_vars(Exit)

-----------------------------------------------------------------------------
TypeOK ==
  /\ mode \in {"down", "up", "exiting"} /\ boots \in 0 .. MaxBoots
  /\ hydrated \in [Scope -> BOOLEAN]
  /\ loading \in [Scope -> [on : BOOLEAN, rows : SUBSET Token]]
  /\ sess \in [Scope -> [BOOLEAN -> SUBSET Token]]
  /\ queue \in [Scope -> Seq(BOOLEAN)] /\ refused \in [Scope -> BOOLEAN]
  /\ job \in [Scope -> [on : BOOLEAN, rows : SUBSET Token]]
  /\ due \in [Token -> -1 .. MaxQueue] /\ drain \in [Scope -> 0 .. MaxQueue]
  /\ \A S \in {db, cut, issued, expired, revoked, answered} : S \subseteq Token

(* What the server honours now, or may read back after a restart.          *)
Alive == db \cup UNION {(IF hydrated[s] THEN sess[s][TRUE] ELSE {})
                          \cup loading[s].rows \cup job[s].rows : s \in Scope}

Contract == INSTANCE SessionContract WITH alive <- Alive

(* Sessions that were dropped stay dropped and a logout is answered only   *)
(* when its session is gone from memory, from the database and from every  *)
(* write still under way, across crashes (session.store.js:8).             *)
Refines == Contract!Spec

(* A session whose logout was answered is never honoured again             *)
(* (session.store.js:8, user-auth.middleware.js:80).                       *)
LoggedOutStaysOut ==
  \A s \in Scope : Serves(s) => answered \cap Current(s) \subseteq expired

(* What a request that was served before the hydration may cost: its save  *)
(* writes the json image over the rows of its scope, and the store that    *)
(* was read before it does not have the logins of that image.              *)
ImageSaved(s) == job[s].on /\ ~Head(queue[s]) /\ ~job'[s].on
Unread(s) == sess[s][FALSE] \ FileTokens

(* A saved session leaves the database only when it expired or was logged  *)
(* out, whatever is refused and whenever the process ends, though each save*)
(* replaces all rows of its scope (session.store.js:72).  server.js:319    *)
(* wants no exception; requests that are served before the hydration       *)
(* (server.js:303) make two: a save of the json image, and what that image *)
(* had and the store that replaces it has not.                             *)
SessionsKept ==
  [][\A s \in Scope : \/ Of(s, db \ db') \subseteq expired \cup revoked \cup Unread(s)
                      \/ ImageSaved(s)]_vars

(* The graceful shutdown loses no session: what was logged in when SIGTERM *)
(* came and has not been logged out since is saved (server.js:371).        *)
DrainKeepsLogins ==
  [][Exit => cut \ (expired \cup revoked) \subseteq db]_vars

(* Once a save of the hydrated store is queued, each session in the store  *)
(* reaches the database, unless it leaves the store, the process ends or   *)
(* the database refuses the last write (session.store.js:10, 53).          *)
Mirrored ==
  \A t \in Token : LET s == ScopeOf[t] IN
    (hydrated[s] /\ t \in sess[s][TRUE] \ expired /\ TRUE \in {queue[s][i] : i \in DOMAIN queue[s]})
      ~> (\/ ~hydrated[s] \/ refused[s]
          \/ t \in db \/ t \notin sess[s][TRUE] \ expired)

(* Every logout is answered, even when the database refuses the write.     *)
LogoutAnswered == \A t \in Token : due[t] # NotDue ~> due[t] = NotDue
=============================================================================
