---------------------------- MODULE SessionsProofs ----------------------------
(***************************************************************************)
(* The login sessions, for any tokens, scopes, queues and starts, with     *)
(* crashes at any point.                                                   *)
(*                                                                         *)
(* The argument: a job writes the whole object, so what matters is which   *)
(* object it has and when it read it.  Whatever is served before the       *)
(* hydration, what a hydrated store saves lacks nothing of the database but*)
(* what the json image added (Whole).  Once requests wait for hydration,   *)
(* every job has the hydrated object; a row that is in the database is in  *)
(* everything that can overwrite it, and a session that is logged out is   *)
(* in no snapshot the job its logout waits for, or a later one, can take.  *)
(* Where the database refuses writes, or logouts do not wait, the promises *)
(* that need it are not made: a theorem names the faults it excludes.      *)
(***************************************************************************)
EXTENDS Sessions, SequenceTheorems, TLAPS

Types == /\ TypeOK
         /\ \A s \in Scope : /\ Len(queue[s]) <= MaxQueue
                             /\ job[s].on => queue[s] # <<>>

(* Rows belong to the scope of the object, job or read that has them.      *)
Owned(s) == /\ sess[s][TRUE] \subseteq Of(s, Token)
            /\ loading[s].rows \subseteq Of(s, Token) /\ job[s].rows \subseteq Of(s, Token)
            /\ ~loading[s].on => loading[s].rows = {}
            /\ ~job[s].on => job[s].rows = {}

(* Jobs exist only for the store that has been hydrated.                   *)
Phase(s) == /\ hydrated[s] \/ loading[s].on => mode # "down"
            /\ ~hydrated[s] => queue[s] = <<>>
            /\ queue[s] \in Seq({TRUE})
            /\ loading[s].on => ~hydrated[s]

(* Whatever will be written or hydrated has every row that is to be kept.  *)
Over == expired \cup revoked
Saving(s) == /\ hydrated[s] => Of(s, db) \subseteq sess[s][TRUE] \cup Over
             /\ loading[s].on => Of(s, db) \subseteq loading[s].rows \cup Over
             /\ job[s].on => /\ Of(s, db) \subseteq job[s].rows \cup Over
                             /\ job[s].rows \subseteq sess[s][TRUE] \cup Over
Fit(s) == Owned(s) /\ Phase(s) /\ Saving(s)

(* What is to be kept is saved, or one of the next n jobs of its scope will*)
(* save it; for a login of the shutdown, one of those the exit waits for.  *)
Reach(t, n) == LET s == ScopeOf[t] IN
  t \in db \/ n >= 2 \/ (n = 1 /\ (job[s].on => t \in job[s].rows))
Reachable(t) == LET s == ScopeOf[t] IN
  hydrated[s] /\ t \in sess[s][TRUE] => Reach(t, Len(queue[s]))
Awaited(t) == LET s == ScopeOf[t] IN
  hydrated[s] /\ t \in sess[s][TRUE] /\ Reach(t, drain[s])
Draining == /\ mode # "exiting" => cut = {}
            /\ \A s \in Scope : drain[s] <= Len(queue[s]) /\ loading[s].rows \subseteq db \cup Over
            /\ \A t \in Token \ Over : Reachable(t) /\ (t \in cut => Awaited(t))

(* A session that is logged out is in no write after the job waited for.   *)
Left(t) == LET s == ScopeOf[t] IN
  /\ hydrated[s] /\ t \in issued /\ t \notin sess[s][TRUE]
  /\ due[t] <= Len(queue[s])
  /\ due[t] = 0 => t \notin db
  /\ due[t] <= 1 => t \notin job[s].rows
Leaving == /\ \A t \in Token : due[t] # NotDue => Left(t)
           /\ answered \subseteq issued /\ answered \cap Alive = {}

-----------------------------------------------------------------------------
(* What a save queues, and what a job that has run leaves.                 *)

LEMMA PersistFacts ==
  ASSUME Types, NEW s \in Scope, NEW S \in SUBSET Token, Persist(s, S)
  PROVE  /\ sess' \in [Scope -> [BOOLEAN -> SUBSET Token]]
         /\ queue' \in [Scope -> Seq(BOOLEAN)]
         /\ queue'[s] = Append(queue[s], hydrated[s]) /\ queue'[s] # <<>>
         /\ Len(queue'[s]) = Len(queue[s]) + 1 /\ Len(queue'[s]) <= MaxQueue
         /\ sess'[s][hydrated[s]] = S \ expired
         /\ sess'[s][~hydrated[s]] = sess[s][~hydrated[s]]
         /\ \A x \in Scope : x # s => queue'[x] = queue[x] /\ sess'[x] = sess[x]
<1>1. /\ queue \in [Scope -> Seq(BOOLEAN)] /\ sess \in [Scope -> [BOOLEAN -> SUBSET Token]]
      /\ hydrated[s] \in BOOLEAN /\ MaxQueue \in Nat
  BY BoundAssumption DEF Types, TypeOK
<1>2. /\ queue' = [queue EXCEPT ![s] = Append(@, hydrated[s])]
      /\ sess' = [sess EXCEPT ![s][hydrated[s]] = S \ expired] /\ Len(queue[s]) < MaxQueue
  BY DEF Persist
<1>3. queue[s] \in Seq(BOOLEAN)
  BY <1>1
<1>4. /\ Append(queue[s], hydrated[s]) \in Seq(BOOLEAN)
      /\ Len(Append(queue[s], hydrated[s])) = Len(queue[s]) + 1
      /\ Append(queue[s], hydrated[s]) # <<>> /\ Len(queue[s]) \in Nat
  BY <1>1, <1>3
<1>5. /\ queue' \in [Scope -> Seq(BOOLEAN)] /\ queue'[s] = Append(queue[s], hydrated[s])
      /\ \A x \in Scope : x # s => queue'[x] = queue[x]
  BY <1>1, <1>2, <1>4
<1>6. /\ sess' \in [Scope -> [BOOLEAN -> SUBSET Token]]
      /\ sess'[s][hydrated[s]] = S \ expired
      /\ sess'[s][~hydrated[s]] = sess[s][~hydrated[s]]
      /\ \A x \in Scope : x # s => sess'[x] = sess[x]
  BY <1>1, <1>2
<1> QED
  BY <1>1, <1>2, <1>4, <1>5, <1>6

LEMMA DoneFacts ==
  ASSUME Types, NEW s \in Scope, NEW f \in BOOLEAN, Done(s, f), queue[s] # <<>>
  PROVE  /\ queue' \in [Scope -> Seq(BOOLEAN)] /\ refused' \in [Scope -> BOOLEAN]
         /\ job' \in [Scope -> [on : BOOLEAN, rows : SUBSET Token]]
         /\ due' \in [Token -> -1 .. MaxQueue] /\ drain' \in [Scope -> 0 .. MaxQueue]
         /\ queue'[s] = Tail(queue[s]) /\ Len(queue'[s]) = Len(queue[s]) - 1
         /\ job'[s] = NoJob /\ drain'[s] = Less(drain[s])
         /\ \A x \in Scope : x # s => /\ queue'[x] = queue[x] /\ job'[x] = job[x]
                                      /\ drain'[x] = drain[x]
         /\ \A t \in Token : due'[t] = IF ScopeOf[t] = s THEN Less(due[t]) ELSE due[t]
<1>1. /\ queue \in [Scope -> Seq(BOOLEAN)] /\ refused \in [Scope -> BOOLEAN]
      /\ job \in [Scope -> [on : BOOLEAN, rows : SUBSET Token]]
      /\ due \in [Token -> -1 .. MaxQueue] /\ drain \in [Scope -> 0 .. MaxQueue]
      /\ MaxQueue \in Nat
  BY BoundAssumption DEF Types, TypeOK
<1>2. /\ queue' = [queue EXCEPT ![s] = Tail(@)] /\ refused' = [refused EXCEPT ![s] = f]
      /\ job' = [job EXCEPT ![s] = NoJob] /\ drain' = [drain EXCEPT ![s] = Less(@)]
      /\ due' = [t \in Token |-> IF ScopeOf[t] = s THEN Less(due[t]) ELSE due[t]]
  BY DEF Done
<1>3. Tail(queue[s]) \in Seq(BOOLEAN) /\ Len(Tail(queue[s])) = Len(queue[s]) - 1
  BY <1>1
<1>4. NoJob \in [on : BOOLEAN, rows : SUBSET Token]
  BY DEF NoJob
<1>5. ASSUME NEW n \in -1 .. MaxQueue
      PROVE  Less(n) \in -1 .. MaxQueue /\ (n >= 0 => Less(n) \in 0 .. MaxQueue)
  BY <1>1 DEF Less
<1>6. due' \in [Token -> -1 .. MaxQueue]
      /\ \A t \in Token : due'[t] = IF ScopeOf[t] = s THEN Less(due[t]) ELSE due[t]
  BY <1>1, <1>2, <1>5
<1>7. drain' \in [Scope -> 0 .. MaxQueue] /\ drain'[s] = Less(drain[s])
  BY <1>1, <1>2, <1>5
<1>8. queue' \in [Scope -> Seq(BOOLEAN)] /\ queue'[s] = Tail(queue[s])
  BY <1>1, <1>2, <1>3
<1>9. job' \in [Scope -> [on : BOOLEAN, rows : SUBSET Token]] /\ job'[s] = NoJob
  BY <1>1, <1>2, <1>4
<1>10. refused' \in [Scope -> BOOLEAN]
  BY <1>1, <1>2
<1>11. \A x \in Scope : x # s => queue'[x] = queue[x] /\ job'[x] = job[x] /\ drain'[x] = drain[x]
  BY <1>1, <1>2
<1> QED
  BY <1>3, <1>6, <1>7, <1>8, <1>9, <1>10, <1>11

LEMMA ServedFacts ==
  ASSUME Types, NEW t \in Token
  PROVE  /\ ScopeOf[t] \in Scope /\ hydrated[ScopeOf[t]] \in BOOLEAN
         /\ Current(ScopeOf[t]) \in SUBSET Token
  BY ScopeAssumption DEF Types, TypeOK, Current

(* What a request that saves leaves as it was.                             *)
Kept == <<process, hydrated, loading, job, refused, db, drain, cut>>

LEMMA SavesTyped ==
  ASSUME Types, NEW s \in Scope, NEW S \in SUBSET Token, Persist(s, S), UNCHANGED Kept,
         due' \in [Token -> -1 .. MaxQueue],
         \A T \in {issued, expired, revoked, answered}' : T \subseteq Token
  PROVE  Types'
<1>1. /\ sess' \in [Scope -> [BOOLEAN -> SUBSET Token]]
      /\ queue' \in [Scope -> Seq(BOOLEAN)] /\ queue'[s] # <<>> /\ Len(queue'[s]) <= MaxQueue
      /\ \A x \in Scope : x # s => queue'[x] = queue[x]
  BY PersistFacts
<1>2. UNCHANGED <<mode, boots, hydrated, loading, job, refused, db, drain, cut>>
  BY DEF Kept, process
<1>3. TypeOK'
  BY <1>1, <1>2 DEF Types, TypeOK
<1> QED
  BY <1>1, <1>2, <1>3 DEF Types

LEMMA GoneTyped ==
  ASSUME Types, Gone
  PROVE  Types'
<1>1. /\ mode' = "down" /\ UNCHANGED <<boots, refused, db, issued, expired, revoked, answered>>
      /\ hydrated' = [s \in Scope |-> FALSE] /\ loading' = [s \in Scope |-> NotRead]
      /\ sess' = [s \in Scope |-> [h \in BOOLEAN |-> {}]]
      /\ queue' = [s \in Scope |-> <<>>] /\ job' = [s \in Scope |-> NoJob]
      /\ due' = [t \in Token |-> NotDue] /\ drain' = [s \in Scope |-> 0] /\ cut' = {}
  BY DEF Gone, history
<1>2. MaxQueue \in Nat
  BY BoundAssumption
<1>3. /\ hydrated' \in [Scope -> BOOLEAN] /\ sess' \in [Scope -> [BOOLEAN -> SUBSET Token]]
      /\ queue' \in [Scope -> Seq(BOOLEAN)] /\ drain' \in [Scope -> 0 .. MaxQueue]
  BY <1>1, <1>2
<1>4. /\ loading' \in [Scope -> [on : BOOLEAN, rows : SUBSET Token]]
      /\ job' \in [Scope -> [on : BOOLEAN, rows : SUBSET Token]]
  BY <1>1 DEF NotRead, NoJob
<1>5. due' \in [Token -> -1 .. MaxQueue]
  BY <1>1, <1>2 DEF NotDue
<1>6. TypeOK'
  BY <1>1, <1>3, <1>4, <1>5 DEF Types, TypeOK
<1>7. \A s \in Scope : Len(queue'[s]) = 0 /\ ~job'[s].on
  BY <1>1 DEF NoJob
<1> QED
  BY <1>2, <1>6, <1>7 DEF Types

LEMMA DoneTyped ==
  ASSUME Types, NEW s \in Scope, NEW f \in BOOLEAN, Done(s, f), queue[s] # <<>>,
         UNCHANGED <<process, store, cut, history>>, db' \subseteq Token
  PROVE  Types'
<1>1. /\ queue' \in [Scope -> Seq(BOOLEAN)] /\ refused' \in [Scope -> BOOLEAN]
      /\ job' \in [Scope -> [on : BOOLEAN, rows : SUBSET Token]]
      /\ due' \in [Token -> -1 .. MaxQueue] /\ drain' \in [Scope -> 0 .. MaxQueue]
      /\ Len(queue'[s]) = Len(queue[s]) - 1 /\ job'[s] = NoJob
      /\ \A x \in Scope : x # s => queue'[x] = queue[x] /\ job'[x] = job[x]
  BY DoneFacts
<1>2. UNCHANGED <<mode, boots, hydrated, loading, sess, cut, issued, expired, revoked, answered>>
  BY DEF process, store, history
<1>3. TypeOK'
  BY <1>1, <1>2 DEF Types, TypeOK
<1>4. Len(queue[s]) \in Nat /\ MaxQueue \in Nat
  BY BoundAssumption DEF Types, TypeOK
<1>5. ASSUME NEW x \in Scope
      PROVE  Len(queue'[x]) <= MaxQueue /\ (job'[x].on => queue'[x] # <<>>)
  <2>1. CASE x = s
    BY <1>1, <1>4, <2>1 DEF Types, NoJob
  <2>2. CASE x # s
    BY <1>1, <2>2 DEF Types
  <2> QED
    BY <2>1, <2>2
<1> QED
  BY <1>3, <1>5 DEF Types

LEMMA RequestTyped ==
  ASSUME Types, NEW t \in Token,
         \/ Create(t) \/ ResolveExpired(t) \/ Revoke(t) \/ GatewayLogout(t) \/ Answer(t)
         \/ Expire(t) \/ TtlDelete(t)
  PROVE  Types'
<1> DEFINE s == ScopeOf[t]
<1>0. s \in Scope /\ Current(s) \in SUBSET Token
  BY ServedFacts
<1>1. CASE Create(t)
  <2>1. Persist(s, Current(s) \cup {t}) /\ UNCHANGED Kept
        /\ issued' = issued \cup {t} /\ UNCHANGED <<due, expired, revoked, answered>>
    BY <1>1 DEF Create, Kept
  <2> HIDE DEF s
  <2> QED
    BY <1>0, <2>1, SavesTyped DEF Types, TypeOK
<1>2. CASE ResolveExpired(t)
  <2>1. Persist(s, Current(s) \ {t}) /\ UNCHANGED Kept
        /\ UNCHANGED <<due, issued, expired, revoked, answered>>
    BY <1>2 DEF ResolveExpired, Kept, history
  <2> HIDE DEF s
  <2> QED
    BY <1>0, <2>1, SavesTyped DEF Types, TypeOK
<1>3. CASE Revoke(t)
  <2>1. Persist(s, Current(s) \ {t}) /\ UNCHANGED Kept
        /\ due' = [due EXCEPT ![t] = Len(queue'[s])]
        /\ revoked' = revoked \cup {t} /\ UNCHANGED <<issued, expired, answered>>
    BY <1>3 DEF Revoke, Kept
  <2> HIDE DEF s
  <2>2. Len(queue'[s]) \in -1 .. MaxQueue
    <3>1. queue'[s] \in Seq(BOOLEAN) /\ Len(queue'[s]) <= MaxQueue
      BY <1>0, <2>1, PersistFacts, SMTT(20)
    <3>2. Len(queue'[s]) \in Nat
      BY <3>1
    <3> QED
      BY <3>1, <3>2, BoundAssumption
  <2>3. due' \in [Token -> -1 .. MaxQueue]
    BY <2>1, <2>2 DEF Types, TypeOK
  <2> QED
    BY <1>0, <2>1, <2>3, SavesTyped DEF Types, TypeOK
<1>4. CASE GatewayLogout(t)
  <2>1. Persist(s, Current(s) \ {t}) /\ UNCHANGED Kept
        /\ revoked' = revoked \cup {t} /\ answered' = answered \cup {t}
        /\ UNCHANGED <<due, issued, expired>>
    BY <1>4 DEF GatewayLogout, Kept
  <2> HIDE DEF s
  <2> QED
    BY <1>0, <2>1, SavesTyped DEF Types, TypeOK
<1>5. CASE Answer(t)
  <2>1. /\ UNCHANGED <<process, store, mirror, db, drain, cut, issued, expired, revoked>>
        /\ due' = [due EXCEPT ![t] = NotDue] /\ answered' = answered \cup {t}
    BY <1>5 DEF Answer
  <2>2. due' \in [Token -> -1 .. MaxQueue]
    BY <2>1, BoundAssumption DEF Types, TypeOK, NotDue
  <2> QED
    BY <2>1, <2>2 DEF Types, TypeOK, process, store, mirror
<1>6. CASE Expire(t)
  BY <1>6 DEF Expire, Types, TypeOK, process, store, mirror
<1>7. CASE TtlDelete(t)
  BY <1>7 DEF TtlDelete, Types, TypeOK, process, store, mirror, history
<1> QED
  BY <1>1, <1>2, <1>3, <1>4, <1>5, <1>6, <1>7

LEMMA ScopeTyped ==
  ASSUME Types, NEW s \in Scope, HydrateRead(s) \/ HydrateSet(s) \/ Mirror(s)
  PROVE  Types'
<1>0. Of(s, db) \in SUBSET Token /\ loading[s].rows \in SUBSET Token
  BY DEF Of, Types, TypeOK
<1>1. CASE HydrateRead(s)
  <2>1. loading' \in [Scope -> [on : BOOLEAN, rows : SUBSET Token]]
    BY <1>0, <1>1 DEF HydrateRead, Types, TypeOK
  <2> QED
    BY <1>1, <2>1 DEF HydrateRead, Types, TypeOK, process, mirror, history
<1>2. CASE HydrateSet(s)
  <2>1. loading' \in [Scope -> [on : BOOLEAN, rows : SUBSET Token]]
    BY <1>2 DEF HydrateSet, Types, TypeOK, NotRead
  <2>2. sess' \in [Scope -> [BOOLEAN -> SUBSET Token]]
    BY <1>0, <1>2 DEF HydrateSet, Types, TypeOK
  <2> QED
    BY <1>2, <2>1, <2>2 DEF HydrateSet, Types, TypeOK, process, mirror, history
<1>3. CASE Snapshot(s)
  <2>1. queue[s] \in Seq(BOOLEAN) /\ queue[s] # <<>>
    BY <1>3 DEF Snapshot, Types, TypeOK
  <2>2. Head(queue[s]) \in BOOLEAN
    BY <2>1
  <2>3. sess[s][Head(queue[s])] \in SUBSET Token
    BY <2>2 DEF Types, TypeOK
  <2>4. job' \in [Scope -> [on : BOOLEAN, rows : SUBSET Token]]
    BY <1>3, <2>3 DEF Snapshot, Types, TypeOK
  <2> QED
    BY <1>3, <2>1, <2>4 DEF Snapshot, Types, TypeOK, process, store, history
<1>4. CASE Commit(s)
  <2>1. queue[s] # <<>> /\ job[s].rows \subseteq Token
    BY <1>4 DEF Commit, Types, TypeOK
  <2>2. db' \subseteq Token
    BY <1>4, <2>1 DEF Commit, Types, TypeOK
  <2> QED
    BY <1>4, <2>1, <2>2, DoneTyped DEF Commit
<1>5. CASE CommitFail(s)
  <2>1. db' \subseteq Token
    BY <1>5 DEF CommitFail, Types, TypeOK
  <2> QED
    BY <1>5, <2>1, DoneTyped DEF CommitFail
<1> QED
  BY <1>1, <1>2, <1>3, <1>4, <1>5 DEF Mirror

LEMMA TypesKeep == Types /\ [Next]_vars => Types'
<1> SUFFICES ASSUME Types, [Next]_vars PROVE Types'
  OBVIOUS
<1>1. CASE Boot
  <2>1. sess' \in [Scope -> [BOOLEAN -> SUBSET Token]]
    BY <1>1, ScopeAssumption DEF Boot, Of
  <2>2. boots' \in 0 .. MaxBoots
    BY <1>1, BoundAssumption DEF Boot, Types, TypeOK
  <2> QED
    BY <1>1, <2>1, <2>2 DEF Boot, Types, TypeOK, mirror, history
<1>2. CASE Crash \/ Exit
  BY <1>2, GoneTyped DEF Crash, Exit
<1>3. CASE Terminate
  <2>1. \A s \in Scope : Len(queue[s]) \in 0 .. MaxQueue
    BY BoundAssumption DEF Types, TypeOK
  <2>2. drain' \in [Scope -> 0 .. MaxQueue]
    BY <1>3, <2>1 DEF Terminate
  <2>3. cut' \subseteq Token
    BY <1>3 DEF Terminate, Current, Types, TypeOK
  <2> QED
    BY <1>3, <2>2, <2>3 DEF Terminate, Types, TypeOK, store, mirror, history
<1>4. CASE UNCHANGED vars
  BY <1>4 DEF vars, Types, TypeOK, process, store, mirror, history
<1> QED
  BY <1>1, <1>2, <1>3, <1>4, ScopeTyped, RequestTyped DEF Next

LEMMA TypesInit == Init => Types
<1> SUFFICES ASSUME Init PROVE Types
  OBVIOUS
<1>1. /\ loading \in [Scope -> [on : BOOLEAN, rows : SUBSET Token]]
      /\ job \in [Scope -> [on : BOOLEAN, rows : SUBSET Token]]
      /\ due \in [Token -> -1 .. MaxQueue] /\ drain \in [Scope -> 0 .. MaxQueue]
  BY BoundAssumption DEF Init, NotRead, NoJob, NotDue
<1>2. /\ sess \in [Scope -> [BOOLEAN -> SUBSET Token]] /\ queue \in [Scope -> Seq(BOOLEAN)]
      /\ \A s \in Scope : Len(queue[s]) = 0 /\ ~job[s].on
  BY DEF Init, NoJob
<1>3. TypeOK
  BY <1>1, <1>2, BoundAssumption, ScopeAssumption DEF Init, TypeOK
<1> QED
  BY <1>2, <1>3, BoundAssumption DEF Types

(* Every variable has its type under every fault: no queue, and nothing a  *)
(* logout or the shutdown waits for, is longer than the bound on a queue.  *)
THEOREM TypeCorrect == Spec => []TypeOK
<1>1. Types => TypeOK
  BY DEF Types
<1> QED
  BY <1>1, TypesInit, TypesKeep, PTL DEF Spec

-----------------------------------------------------------------------------
(* Under every fault, requests before the hydration included.              *)

Scoped(s) == /\ \A h \in BOOLEAN : sess[s][h] \subseteq Of(s, Token)
             /\ loading[s].rows \subseteq Of(s, Token) /\ job[s].rows \subseteq Of(s, Token)

(* The store that is not hydrated queues its json image only.              *)
Stage(s) == /\ hydrated[s] \/ loading[s].on \/ queue[s] # <<>> => mode # "down"
            /\ ~hydrated[s] => queue[s] \in Seq({FALSE})
            /\ loading[s].on => ~hydrated[s]
            /\ ~loading[s].on => loading[s].rows = {}
            /\ ~job[s].on => job[s].rows = {}

(* What the files had is in all that is written or read.                   *)
Filed(s) == LET F == Of(s, FileTokens) \ Over IN
  /\ F \subseteq db
  /\ mode # "down" => F \subseteq sess[s][FALSE]
  /\ hydrated[s] => F \subseteq sess[s][TRUE]
  /\ loading[s].on => F \subseteq loading[s].rows
  /\ job[s].on => F \subseteq job[s].rows

(* The hydrated store, and its saves, lack only what the json image added; *)
(* a save of that image writes nothing else.                               *)
Covers(s, rows) == Of(s, db) \subseteq rows \cup Over \cup Unread(s)
Wide(s) ==
  /\ hydrated[s] => Covers(s, sess[s][TRUE])
  /\ loading[s].on => Covers(s, loading[s].rows)
  /\ job[s].on => IF Head(queue[s])
                  THEN Covers(s, job[s].rows) /\ job[s].rows \subseteq sess[s][TRUE] \cup Over
                  ELSE job[s].rows \subseteq sess[s][FALSE] \cup Over

Whole(s) == Scoped(s) /\ Stage(s) /\ Filed(s) /\ Wide(s)
WholeInv == Types /\ \A s \in Scope : Whole(s)

(* A scope of which at most rows that are over are deleted.                *)
LEMMA WholeSame ==
  ASSUME NEW s \in Scope, Whole(s), mode' = "down" <=> mode = "down",
         /\ sess'[s] = sess[s] /\ hydrated'[s] = hydrated[s]
         /\ loading'[s] = loading[s] /\ job'[s] = job[s] /\ queue'[s] = queue[s],
         Of(s, db') \subseteq Of(s, db), Of(s, db) \subseteq db' \cup Over', Over \subseteq Over'
  PROVE  Whole(s)'
<1>1. Scoped(s)' /\ Stage(s)'
  BY DEF Whole, Scoped, Stage, Of
<1>2. Of(s, db)' = Of(s, db') /\ Unread(s)' = Unread(s) /\ Of(s, FileTokens)' = Of(s, FileTokens)
  BY DEF Of, Unread
<1>3. Filed(s)'
  <2>1. Of(s, FileTokens) \ Over \subseteq db => Of(s, FileTokens) \ Over' \subseteq db'
    BY DEF Of
  <2> QED
    BY <1>2, <2>1 DEF Whole, Filed
<1>4. Wide(s)'
  BY <1>2 DEF Whole, Wide, Covers
<1> QED
  BY <1>1, <1>3, <1>4 DEF Whole

LEMMA HeadFacts ==
  ASSUME Types, NEW s \in Scope, Stage(s), queue[s] # <<>>
  PROVE  /\ Head(queue[s]) \in BOOLEAN /\ (Head(queue[s]) = TRUE => hydrated[s])
         /\ \A x : Head(Append(queue[s], x)) = Head(queue[s])
<1>1. queue[s] \in Seq(BOOLEAN)
  BY DEF Types, TypeOK
<1>2. queue[s] \in Seq({FALSE}) => Head(queue[s]) = FALSE
  <2>1. queue[s] \in Seq({FALSE}) => Head(queue[s]) \in {FALSE}
    BY HeadTailProperties, Zenon
  <2> QED
    BY <2>1
<1>3. Head(queue[s]) \in BOOLEAN
  BY <1>1
<1>4. \A x : Head(Append(queue[s], x)) = Head(queue[s])
  BY <1>1
<1> QED
  BY <1>2, <1>3, <1>4 DEF Stage

(* A save, of whichever object serves: what it no longer has is over.      *)
LEMMA WholeSave ==
  ASSUME WholeInv, NEW s \in Scope, NEW S \in SUBSET Of(s, Token), Persist(s, S),
         mode # "down", UNCHANGED Kept, Over \subseteq Over', Current(s) \subseteq S \cup Over'
  PROVE  \A x \in Scope : Whole(x)'
<1> DEFINE h == hydrated[s]
<1>1. h \in BOOLEAN /\ S \in SUBSET Token /\ Types
  BY DEF WholeInv, Types, TypeOK, Of
<1>2. /\ sess' \in [Scope -> [BOOLEAN -> SUBSET Token]] /\ queue'[s] = Append(queue[s], h)
      /\ sess'[s][h] = S \ expired /\ sess'[s][~h] = sess[s][~h]
      /\ \A x \in Scope : x # s => sess'[x] = sess[x] /\ queue'[x] = queue[x]
  BY <1>1, PersistFacts
<1>3. UNCHANGED <<mode, hydrated, loading, job, db>>
  BY DEF Kept, process
<1>4. Scoped(s) /\ Stage(s) /\ Filed(s) /\ Wide(s)
  BY DEF WholeInv, Whole
<1>5. sess[s][h] \subseteq sess'[s][h] \cup Over' /\ sess'[s][h] \subseteq Of(s, Token)
  BY <1>2 DEF Current, Over
<1>6. \A b \in BOOLEAN : sess[s][b] \subseteq sess'[s][b] \cup Over'
  BY <1>1, <1>2, <1>5
<1>7. Scoped(s)'
  BY <1>1, <1>2, <1>3, <1>4, <1>5 DEF Scoped, Of
<1>8. Stage(s)'
  <2>1. queue[s] \in Seq({FALSE}) => Append(queue[s], FALSE) \in Seq({FALSE})
    BY AppendProperties, Zenon
  <2>2. ~h => h = FALSE
    BY <1>1
  <2>3. ~h => queue'[s] \in Seq({FALSE})
    BY <1>2, <1>4, <2>1, <2>2 DEF Stage
  <2> QED
    BY <1>3, <1>4, <2>3 DEF Stage
<1>9. Of(s, db)' = Of(s, db) /\ Unread(s) \subseteq Unread(s)' \cup Over'
  BY <1>3, <1>6 DEF Of, Unread
<1>10. Filed(s)'
  <2>1. Of(s, FileTokens)' = Of(s, FileTokens)
    BY DEF Of
  <2>2. \A T : Of(s, FileTokens) \ Over \subseteq T => Of(s, FileTokens) \ Over' \subseteq T
    OBVIOUS
  <2>3. \A b \in BOOLEAN : Of(s, FileTokens) \ Over \subseteq sess[s][b]
                             => Of(s, FileTokens) \ Over' \subseteq sess'[s][b]
    BY <1>6
  <2> QED
    BY <1>3, <1>4, <2>1, <2>2, <2>3 DEF Filed
<1>11. Wide(s)'
  <2>1. job[s].on => Head(queue'[s]) = Head(queue[s]) /\ Head(queue[s]) \in BOOLEAN
    <3>1. job[s].on => queue[s] # <<>>
      BY <1>1 DEF Types
    <3>2. queue[s] # <<>> => /\ Head(queue[s]) \in BOOLEAN
                             /\ Head(Append(queue[s], h)) = Head(queue[s])
      BY <1>1, <1>4, HeadFacts
    <3> QED
      BY <1>2, <3>1, <3>2
  <2>2. \A R, T : R \subseteq T \cup Over' /\ Covers(s, R) => Of(s, db) \subseteq T \cup Over' \cup Unread(s)'
    BY <1>9 DEF Covers
  <2>3. hydrated'[s] => Of(s, db) \subseteq sess'[s][TRUE] \cup Over' \cup Unread(s)'
    BY <1>3, <1>4, <1>6, <2>2 DEF Wide
  <2>4. loading'[s].on => Of(s, db) \subseteq loading'[s].rows \cup Over' \cup Unread(s)'
    BY <1>3, <1>4, <2>2 DEF Wide
  <2>5. job'[s].on => IF Head(queue'[s])
                      THEN /\ Of(s, db) \subseteq job'[s].rows \cup Over' \cup Unread(s)'
                           /\ job'[s].rows \subseteq sess'[s][TRUE] \cup Over'
                      ELSE job'[s].rows \subseteq sess'[s][FALSE] \cup Over'
    <3>1. CASE job[s].on /\ Head(queue[s]) = TRUE
      BY <1>3, <1>4, <1>6, <2>1, <2>2, <3>1 DEF Wide
    <3>2. CASE job[s].on /\ Head(queue[s]) = FALSE
      BY <1>3, <1>4, <1>6, <2>1, <3>2 DEF Wide
    <3> QED
      BY <1>3, <2>1, <3>1, <3>2
  <2> QED
    BY <1>9, <2>3, <2>4, <2>5 DEF Wide, Covers
<1>12. ASSUME NEW x \in Scope, x # s
       PROVE  Whole(x)'
  <2>1. Whole(x) /\ Of(x, db') = Of(x, db)
    BY <1>3 DEF WholeInv
  <2>2. Of(x, db) \subseteq db' \cup Over'
    BY <1>3 DEF Of
  <2> QED
    BY <1>2, <1>3, <1>12, <2>1, <2>2, WholeSame
<1> QED
  BY <1>7, <1>8, <1>10, <1>11, <1>12 DEF Whole

LEMMA WholeHydrates ==
  ASSUME WholeInv, NEW s \in Scope, HydrateRead(s) \/ HydrateSet(s)
  PROVE  \A x \in Scope : Whole(x)'
<1>1. UNCHANGED <<mode, queue, job, db, expired, revoked>> /\ Over' = Over
  BY DEF HydrateRead, HydrateSet, process, mirror, history, Over
<1>2. /\ Types /\ mode # "down" /\ ~hydrated[s]
      /\ Scoped(s) /\ Stage(s) /\ Filed(s) /\ Wide(s)
      /\ sess'[s][FALSE] = sess[s][FALSE]
      /\ \A x \in Scope : x # s => /\ loading'[x] = loading[x] /\ sess'[x] = sess[x]
                                   /\ hydrated'[x] = hydrated[x]
  <2>1. Types /\ Scoped(s) /\ Stage(s) /\ Filed(s) /\ Wide(s)
    BY DEF WholeInv, Whole
  <2>2. /\ sess \in [Scope -> [BOOLEAN -> SUBSET Token]] /\ hydrated \in [Scope -> BOOLEAN]
        /\ loading \in [Scope -> [on : BOOLEAN, rows : SUBSET Token]]
    BY <2>1 DEF Types, TypeOK
  <2>3. mode # "down" /\ ~hydrated[s]
    BY <2>1 DEF HydrateRead, HydrateSet, Stage
  <2>4. CASE HydrateRead(s)
    BY <2>1, <2>2, <2>3, <2>4 DEF HydrateRead
  <2>5. CASE HydrateSet(s)
    BY <2>1, <2>2, <2>3, <2>5 DEF HydrateSet
  <2> QED
    BY <2>4, <2>5
<1>3. ASSUME NEW x \in Scope, x # s
      PROVE  Whole(x)'
  <2>1. Whole(x) /\ Of(x, db) \subseteq db' /\ Of(x, db') = Of(x, db)
    BY <1>1 DEF WholeInv, Of
  <2> QED
    BY <1>1, <1>2, <1>3, <2>1, WholeSame
<1>4. /\ Of(s, db)' = Of(s, db) /\ Of(s, db) \subseteq Of(s, Token)
      /\ Of(s, FileTokens)' = Of(s, FileTokens) /\ Unread(s)' = Unread(s)
  BY <1>1, <1>2 DEF Of, Unread, Types, TypeOK
<1>5. queue[s] # <<>> => Head(queue[s]) = FALSE
  BY <1>2, HeadFacts
<1>6. job[s].on => queue[s] # <<>>
  BY <1>2 DEF Types
<1>7. CASE HydrateRead(s)
  <2>1. /\ loading'[s].on /\ loading'[s].rows = Of(s, db) /\ UNCHANGED <<hydrated, sess>>
    BY <1>7 DEF HydrateRead, WholeInv, Types, TypeOK
  <2>2. Scoped(s)' /\ Stage(s)'
    BY <1>1, <1>2, <1>4, <2>1 DEF Scoped, Stage, Of
  <2>3. Filed(s)'
    <3>1. Of(s, FileTokens) \ Over \subseteq Of(s, db)
      BY <1>2 DEF Filed, Of
    <3> QED
      BY <1>1, <1>2, <1>4, <2>1, <3>1 DEF Filed
  <2>4. Wide(s)'
    BY <1>1, <1>2, <1>4, <2>1 DEF Wide, Covers
  <2> QED
    BY <1>3, <2>2, <2>3, <2>4 DEF Whole
<1>8. CASE HydrateSet(s)
  <2>1. /\ loading[s].on /\ hydrated'[s] = TRUE /\ sess'[s][TRUE] = loading[s].rows
        /\ loading'[s].on = FALSE /\ loading'[s].rows = {}
    BY <1>8 DEF HydrateSet, NotRead, WholeInv, Types, TypeOK
  <2>2. Scoped(s)' /\ Stage(s)'
    BY <1>1, <1>2, <2>1 DEF Scoped, Stage, Of
  <2>3. Filed(s)'
    BY <1>1, <1>2, <1>4, <2>1 DEF Filed
  <2>4. Wide(s)'
    BY <1>1, <1>2, <1>4, <1>5, <1>6, <2>1 DEF Wide, Covers
  <2> QED
    BY <1>3, <2>2, <2>3, <2>4 DEF Whole
<1> QED
  BY <1>7, <1>8

LEMMA WholeSnapshot ==
  ASSUME WholeInv, NEW s \in Scope, Snapshot(s)
  PROVE  \A x \in Scope : Whole(x)'
<1>1. /\ queue[s] # <<>> /\ UNCHANGED <<mode, hydrated, loading, sess, queue, db, expired, revoked>>
      /\ job'[s].on /\ job'[s].rows = sess[s][Head(queue[s])]
      /\ \A x \in Scope : x # s => job'[x] = job[x]
  BY DEF Snapshot, WholeInv, Types, TypeOK, process, store, history
<1>2. Types /\ Scoped(s) /\ Stage(s) /\ Filed(s) /\ Wide(s)
  BY DEF WholeInv, Whole
<1>3. /\ Head(queue[s]) \in BOOLEAN /\ (Head(queue[s]) = TRUE => hydrated[s]) /\ mode # "down"
  BY <1>1, <1>2, HeadFacts DEF Stage
<1>4. /\ Over' = Over /\ Of(s, db)' = Of(s, db) /\ Unread(s)' = Unread(s)
      /\ Of(s, FileTokens)' = Of(s, FileTokens)
  BY <1>1 DEF Over, Of, Unread
<1>5. Scoped(s)' /\ Stage(s)'
  BY <1>1, <1>2, <1>3 DEF Scoped, Stage, Of
<1>6. ASSUME Head(queue[s]) = TRUE
      PROVE  Whole(s)'
  <2>1. Filed(s)'
    BY <1>1, <1>2, <1>3, <1>4, <1>6 DEF Filed
  <2>2. Wide(s)'
    BY <1>1, <1>2, <1>3, <1>4, <1>6 DEF Wide, Covers
  <2> QED
    BY <1>5, <2>1, <2>2 DEF Whole
<1>7. ASSUME Head(queue[s]) = FALSE
      PROVE  Whole(s)'
  <2>1. Filed(s)'
    BY <1>1, <1>2, <1>3, <1>4, <1>7 DEF Filed
  <2>2. Wide(s)'
    BY <1>1, <1>2, <1>3, <1>4, <1>7 DEF Wide, Covers
  <2> QED
    BY <1>5, <2>1, <2>2 DEF Whole
<1>8. ASSUME NEW x \in Scope, x # s
      PROVE  Whole(x)'
  <2>1. Whole(x) /\ Of(x, db) \subseteq db' /\ Of(x, db') = Of(x, db)
    BY <1>1 DEF WholeInv, Of
  <2> QED
    BY <1>1, <1>4, <1>8, <2>1, WholeSame
<1> QED
  BY <1>3, <1>6, <1>7, <1>8

(* A job is done: the rows of its scope are what it wrote, or as before.   *)
LEMMA WholeDone ==
  ASSUME WholeInv, NEW s \in Scope, NEW f \in BOOLEAN, Done(s, f), queue[s] # <<>>,
         UNCHANGED <<process, store, cut, history>>,
         \/ db' = db
         \/ job[s].on /\ db' = (db \ Of(s, db)) \cup job[s].rows
  PROVE  \A x \in Scope : Whole(x)'
<1>1. /\ queue'[s] = Tail(queue[s]) /\ job'[s] = NoJob
      /\ \A x \in Scope : x # s => queue'[x] = queue[x] /\ job'[x] = job[x]
  BY DoneFacts DEF WholeInv
<1>2. /\ UNCHANGED <<mode, hydrated, loading, sess, expired, revoked>>
      /\ Over' = Over /\ Unread(s)' = Unread(s)
  BY DEF process, store, history, Over, Unread
<1>3. /\ Types /\ Scoped(s) /\ Stage(s) /\ Filed(s) /\ Wide(s) /\ mode # "down"
      /\ Head(queue[s]) \in BOOLEAN /\ (Head(queue[s]) = TRUE => hydrated[s])
  BY HeadFacts DEF WholeInv, Whole, Stage
<1>4. ~job'[s].on /\ job'[s].rows = {}
  BY <1>1 DEF NoJob
<1>5. Scoped(s)'
  BY <1>2, <1>3, <1>4 DEF Scoped, Of
<1>6. Stage(s)'
  <2>1. queue[s] \in Seq({FALSE}) => Tail(queue[s]) \in Seq({FALSE})
    BY HeadTailProperties, Zenon
  <2>2. ~hydrated[s] => queue'[s] \in Seq({FALSE})
    BY <1>1, <1>3, <2>1 DEF Stage
  <2> QED
    BY <1>2, <1>3, <1>4, <2>2 DEF Stage
<1>7. Of(s, db)' = Of(s, db') /\ Of(s, FileTokens)' = Of(s, FileTokens)
  BY DEF Of
<1>8. ASSUME db' = db
      PROVE  Whole(s)'
  <2>1. Filed(s)'
    BY <1>2, <1>3, <1>4, <1>7, <1>8 DEF Filed
  <2>2. Wide(s)'
    BY <1>2, <1>3, <1>4, <1>7, <1>8 DEF Wide, Covers
  <2> QED
    BY <1>5, <1>6, <2>1, <2>2 DEF Whole
<1>9. ASSUME job[s].on, db' = (db \ Of(s, db)) \cup job[s].rows
      PROVE  Whole(s)' /\ \A x \in Scope : x # s => Of(x, db') = Of(x, db)
  <2>1. Of(s, db') = job[s].rows /\ \A x \in Scope : x # s => Of(x, db') = Of(x, db)
    BY <1>3, <1>9 DEF Scoped, Of, Types, TypeOK
  <2>2. Filed(s)'
    BY <1>2, <1>3, <1>4, <1>7, <1>9 DEF Filed
  <2>3. Of(s, db') \subseteq sess[s][TRUE] \cup Over \/ Of(s, db') \subseteq sess[s][FALSE] \cup Over
    BY <1>3, <1>9, <2>1 DEF Wide
  <2>4. Of(s, db') \subseteq sess[s][FALSE] \cup Over
           => Of(s, db') \subseteq (Of(s, FileTokens) \ Over) \cup Over \cup Unread(s)
    BY DEF Of, Unread
  <2>5. hydrated[s] => Of(s, db') \subseteq sess[s][TRUE] \cup Over \cup Unread(s)
    BY <1>3, <2>3, <2>4 DEF Filed
  <2>6. loading[s].on => Of(s, db') \subseteq loading[s].rows \cup Over \cup Unread(s)
    <3>1. loading[s].on => Head(queue[s]) = FALSE
      BY <1>3 DEF Stage
    <3>2. Head(queue[s]) = FALSE => Of(s, db') \subseteq sess[s][FALSE] \cup Over
      BY <1>3, <1>9, <2>1 DEF Wide
    <3> QED
      BY <1>3, <2>4, <3>1, <3>2 DEF Filed
  <2>7. Wide(s)'
    BY <1>2, <1>4, <1>7, <2>5, <2>6 DEF Wide, Covers
  <2> QED
    BY <1>5, <1>6, <2>1, <2>2, <2>7 DEF Whole
<1>10. ASSUME NEW x \in Scope, x # s
       PROVE  Whole(x)'
  <2>1. Whole(x) /\ Of(x, db') = Of(x, db)
    BY <1>9, <1>10 DEF WholeInv
  <2>2. Of(x, db) \subseteq db'
    BY <2>1 DEF Of
  <2> QED
    BY <1>1, <1>2, <1>10, <2>1, <2>2, WholeSame
<1> QED
  BY <1>8, <1>9, <1>10

LEMMA WholeKeeps == WholeInv /\ [Next]_vars => WholeInv'
<1> SUFFICES ASSUME WholeInv, [Next]_vars PROVE \A x \in Scope : Whole(x)'
  BY TypesKeep DEF WholeInv
<1>1. ASSUME mode' = "down" <=> mode = "down", db' \subseteq db, db \subseteq db' \cup Over',
             Over \subseteq Over', UNCHANGED <<hydrated, loading, sess, queue, job>>
      PROVE  \A x \in Scope : Whole(x)'
  <2>1. ASSUME NEW x \in Scope
        PROVE  Whole(x)'
    <3>1. Whole(x) /\ Of(x, db') \subseteq Of(x, db) /\ Of(x, db) \subseteq db' \cup Over'
      BY <1>1 DEF WholeInv, Of
    <3> QED
      BY <1>1, <3>1, WholeSame
  <2> QED
    BY <2>1
<1>2. ASSUME NEW x \in Scope, hydrated'[x] = FALSE, ~loading'[x].on, loading'[x].rows = {},
             ~job'[x].on, job'[x].rows = {}, queue'[x] = <<>>, sess'[x][TRUE] = {},
             sess'[x][FALSE] \subseteq Of(x, Token), UNCHANGED <<db, expired, revoked>>,
             mode' # "down" => Of(x, FileTokens) \subseteq sess'[x][FALSE]
      PROVE  Whole(x)'
  <2>1. Scoped(x)' /\ Wide(x)'
    BY <1>2 DEF Scoped, Wide, Of
  <2>2. Stage(x)'
    <3>1. <<>> \in Seq({FALSE})
      BY EmptySeq, Zenon
    <3> QED
      BY <1>2, <3>1 DEF Stage
  <2>3. Filed(x)'
    <3>1. Over' = Over /\ Filed(x) /\ Of(x, FileTokens)' = Of(x, FileTokens)
      BY <1>2 DEF Over, WholeInv, Whole, Of
    <3> QED
      BY <1>2, <3>1 DEF Filed
  <2> QED
    BY <2>1, <2>2, <2>3 DEF Whole
<1>3. CASE Boot
  <2>1. ASSUME NEW x \in Scope
        PROVE  Whole(x)'
    <3>1. /\ UNCHANGED <<hydrated, loading, queue, job, db, expired, revoked>>
          /\ mode = "down" /\ sess'[x][TRUE] = {} /\ sess'[x][FALSE] = Of(x, FileTokens)
      BY <1>3 DEF Boot, mirror, history
    <3>2. /\ hydrated[x] = FALSE /\ ~loading[x].on /\ queue[x] = <<>> /\ ~job[x].on
          /\ loading[x].rows = {} /\ job[x].rows = {}
      BY <3>1 DEF WholeInv, Whole, Stage, Types, TypeOK
    <3>3. sess'[x][FALSE] \subseteq Of(x, Token)
      BY <3>1, ScopeAssumption DEF Of
    <3> QED
      BY <1>2, <3>1, <3>2, <3>3
  <2> QED
    BY <2>1
<1>4. CASE Crash \/ Exit
  <2>1. ASSUME NEW x \in Scope
        PROVE  Whole(x)'
    <3>1. /\ mode' = "down" /\ hydrated'[x] = FALSE /\ loading'[x] = NotRead /\ job'[x] = NoJob
          /\ queue'[x] = <<>> /\ sess'[x] = [h \in BOOLEAN |-> {}]
          /\ UNCHANGED <<db, expired, revoked>>
      BY <1>4 DEF Crash, Exit, Gone, history
    <3>2. ~NotRead.on /\ NotRead.rows = {} /\ ~NoJob.on /\ NoJob.rows = {}
      BY DEF NotRead, NoJob
    <3>3. /\ ~loading'[x].on /\ loading'[x].rows = {} /\ ~job'[x].on /\ job'[x].rows = {}
          /\ sess'[x][TRUE] = {} /\ sess'[x][FALSE] = {}
      BY <3>1, <3>2
    <3> QED
      BY <1>2, <3>1, <3>3
  <2> QED
    BY <2>1
<1>5. CASE Terminate
  BY <1>1, <1>5 DEF Terminate, store, mirror, history, Over
<1>6. ASSUME NEW s \in Scope, Commit(s) \/ CommitFail(s)
      PROVE  \A x \in Scope : Whole(x)'
  <2>1. queue[s] # <<>>
    BY <1>6 DEF Commit, CommitFail, WholeInv, Types
  <2>2. CASE Commit(s)
    BY <2>1, <2>2, WholeDone DEF Commit
  <2>3. CASE CommitFail(s)
    BY <2>1, <2>3, WholeDone DEF CommitFail
  <2> QED
    BY <1>6, <2>2, <2>3
<1>7. ASSUME NEW t \in Token, Create(t) \/ ResolveExpired(t) \/ Revoke(t) \/ GatewayLogout(t)
      PROVE  \A x \in Scope : Whole(x)'
  <2> DEFINE s == ScopeOf[t]
  <2>1. s \in Scope /\ t \in Of(s, Token)
    BY ScopeAssumption DEF Of
  <2>2. mode # "down" /\ Current(s) \subseteq Of(s, Token)
    BY <1>7, <2>1 DEF Serves, Create, ResolveExpired, Revoke, GatewayLogout, Current,
                      WholeInv, Whole, Scoped, Types, TypeOK
  <2>3. PICK S \in {Current(s) \cup {t}, Current(s) \ {t}} :
             /\ Persist(s, S) /\ UNCHANGED Kept /\ Over \subseteq Over'
             /\ Current(s) \subseteq S \cup Over'
    BY <1>7 DEF Create, ResolveExpired, Revoke, GatewayLogout, Kept, Over, history
  <2> HIDE DEF s
  <2> QED
    BY <2>1, <2>2, <2>3, WholeSave
<1>8. ASSUME NEW t \in Token, Answer(t) \/ Expire(t) \/ TtlDelete(t)
      PROVE  \A x \in Scope : Whole(x)'
  <2>1. /\ UNCHANGED <<mode, hydrated, loading, sess, queue, job>>
        /\ db' \subseteq db /\ db \subseteq db' \cup Over' /\ Over \subseteq Over'
    BY <1>8 DEF Answer, Expire, TtlDelete, process, store, mirror, history, Over
  <2> QED
    BY <1>1, <2>1
<1>9. CASE UNCHANGED vars
  BY <1>1, <1>9 DEF vars, process, store, mirror, history, Over
<1> QED
  BY <1>3, <1>4, <1>5, <1>6, <1>7, <1>8, <1>9, WholeSnapshot, WholeHydrates DEF Next, Mirror

LEMMA WholeInit == Init => WholeInv
<1> SUFFICES ASSUME Init, NEW s \in Scope PROVE Whole(s)
  BY TypesInit DEF WholeInv
<1>1. /\ mode = "down" /\ hydrated[s] = FALSE /\ queue[s] = <<>> /\ db = FileTokens
      /\ ~loading[s].on /\ loading[s].rows = {} /\ ~job[s].on /\ job[s].rows = {}
      /\ \A h \in BOOLEAN : sess[s][h] = {}
  BY DEF Init, NotRead, NoJob
<1>2. <<>> \in Seq({FALSE})
  BY EmptySeq, Zenon
<1> QED
  BY <1>1, <1>2 DEF Whole, Scoped, Stage, Filed, Wide, Of

(* A saved session leaves the database only when it expired or was logged  *)
(* out, though every save replaces all rows of its scope, under every fault*)
(* and with requests before the hydration: only a save of the json image,  *)
(* or the loss of what that image had, makes an exception.                 *)
THEOREM SavedStays == Spec => SessionsKept
<1> DEFINE Keeps == \A s \in Scope :
             \/ Of(s, db \ db') \subseteq expired \cup revoked \cup Unread(s)
             \/ ImageSaved(s)
<1>1. ASSUME WholeInv, [Next]_vars
      PROVE  Keeps
  <2>1. ASSUME NEW x \in Scope, Commit(x), NEW s \in Scope
        PROVE  \/ Of(s, db \ db') \subseteq expired \cup revoked \cup Unread(s)
               \/ ImageSaved(s)
    <3>1. /\ job[x].on /\ db' = (db \ Of(x, db)) \cup job[x].rows /\ queue[x] # <<>> /\ job'[x] = NoJob
      BY <1>1, <2>1, DoneFacts DEF Commit, WholeInv, Types
    <3>2. CASE s # x
      BY <3>1, <3>2 DEF Of
    <3>3. CASE s = x /\ ~Head(queue[x])
      <4>1. ~job'[x].on
        BY <3>1 DEF NoJob
      <4> QED
        BY <3>1, <3>3, <4>1 DEF ImageSaved
    <3>4. CASE s = x /\ Head(queue[x])
      <4>1. Covers(s, job[s].rows)
        BY <1>1, <3>1, <3>4 DEF WholeInv, Whole, Wide
      <4> QED
        BY <3>1, <3>4, <4>1 DEF Covers, Over, Of
    <3> QED
      BY <3>2, <3>3, <3>4
  <2>2. ASSUME NEW t \in Token, TtlDelete(t)
        PROVE  Keeps
    BY <2>2 DEF TtlDelete, Of
  <2>3. CASE db' = db
    BY <2>3 DEF Of
  <2>4. db' = db \/ (\E s \in Scope : Commit(s)) \/ (\E t \in Token : TtlDelete(t))
    BY <1>1 DEF Next, vars, Boot, Crash, Exit, Gone, Terminate, HydrateRead, HydrateSet, Mirror,
                Snapshot, CommitFail, Create, ResolveExpired, Revoke, GatewayLogout, Answer, Expire
  <2> QED
    BY <2>1, <2>2, <2>3, <2>4
<1>2. WholeInv /\ [Next]_vars => WholeInv' /\ [Keeps]_vars
  BY <1>1, WholeKeeps
<1> HIDE DEF Keeps
<1>3. Spec => [][Keeps]_vars
  BY <1>2, WholeInit, PTL DEF Spec
<1> QED
  BY <1>3 DEF Keeps, SessionsKept

-----------------------------------------------------------------------------
(* Once requests wait for hydration.                                       *)

Base == Types /\ \A s \in Scope : Fit(s)
NoEarly == "early" \notin Faults

LEMMA InScope == \A t \in Token : ScopeOf[t] \in Scope /\ t \in Of(ScopeOf[t], Token)
  BY ScopeAssumption DEF Of

(* A scope of which only rows are deleted.                                 *)
LEMMA Untouched ==
  ASSUME NEW s \in Scope, Fit(s), mode' # "down" \/ mode' = mode,
         /\ sess'[s][TRUE] = sess[s][TRUE] /\ hydrated'[s] = hydrated[s]
         /\ loading'[s] = loading[s] /\ job'[s] = job[s] /\ queue'[s] = queue[s],
         Of(s, db') \subseteq Of(s, db), Over \subseteq Over'
  PROVE  Fit(s)'
<1>1. Owned(s)'
  BY DEF Fit, Owned, Of
<1>2. Phase(s)'
  BY DEF Fit, Phase
<1>3. Saving(s)'
  <2>1. Of(s, db)' = Of(s, db')
    BY DEF Of
  <2> QED
    BY <2>1 DEF Fit, Saving
<1> QED
  BY <1>1, <1>2, <1>3 DEF Fit

LEMMA OffFits ==
  ASSUME NEW s \in Scope, sess'[s][TRUE] = {}, hydrated'[s] = FALSE, loading'[s] = NotRead,
         job'[s] = NoJob, queue'[s] = <<>>
  PROVE  Fit(s)'
<1>1. ~loading'[s].on /\ loading'[s].rows = {} /\ ~job'[s].on /\ job'[s].rows = {}
  BY DEF NotRead, NoJob
<1>2. Owned(s)'
  BY <1>1 DEF Owned
<1>3. Phase(s)'
  BY <1>1 DEF Phase
<1>4. Saving(s)'
  BY <1>1 DEF Saving
<1> QED
  BY <1>2, <1>3, <1>4 DEF Fit

(* A save, of the hydrated object: what it no longer has is over.          *)
LEMMA SaveKeeps ==
  ASSUME Base, NEW s \in Scope, hydrated[s], NEW S \in SUBSET Of(s, Token), Persist(s, S),
         UNCHANGED Kept, Over \subseteq Over', sess[s][TRUE] \subseteq S \cup Over'
  PROVE  /\ \A x \in Scope : Fit(x)'
         /\ sess'[s][TRUE] = S \ expired /\ Len(queue'[s]) = Len(queue[s]) + 1
         /\ \A x \in Scope : x # s => sess'[x] = sess[x] /\ queue'[x] = queue[x]
<1>1. /\ sess' \in [Scope -> [BOOLEAN -> SUBSET Token]]
      /\ queue'[s] = Append(queue[s], TRUE) /\ queue'[s] # <<>>
      /\ sess'[s][TRUE] = S \ expired /\ Len(queue'[s]) = Len(queue[s]) + 1
      /\ \A x \in Scope : x # s => sess'[x] = sess[x] /\ queue'[x] = queue[x]
  <2>1. hydrated[s] = TRUE /\ S \in SUBSET Token
    BY DEF Base, Types, TypeOK, Of
  <2> QED
    BY <2>1, PersistFacts DEF Base
<1>2. UNCHANGED <<mode, hydrated, loading, job, db>>
  BY DEF Kept, process
<1>3. Owned(s) /\ Phase(s) /\ Saving(s)
  BY DEF Base, Fit
<1>4. Owned(s)'
  BY <1>1, <1>2, <1>3 DEF Owned, Of
<1>5. Phase(s)'
  <2>1. Append(queue[s], TRUE) \in Seq({TRUE})
    BY <1>3 DEF Phase
  <2> QED
    BY <1>1, <1>2, <1>3, <2>1 DEF Phase
<1>6. Saving(s)'
  <2>1. expired \subseteq Over'
    BY DEF Over
  <2>2. sess[s][TRUE] \cup Over \subseteq sess'[s][TRUE] \cup Over'
    BY <1>1, <2>1
  <2>3. Of(s, db)' = Of(s, db)
    BY <1>2 DEF Of
  <2> QED
    BY <1>2, <1>3, <2>2, <2>3 DEF Saving, Phase
<1>7. ASSUME NEW x \in Scope, x # s
      PROVE  Fit(x)'
  <2>1. Fit(x)
    BY DEF Base
  <2>2. mode' # "down" /\ Of(x, db') = Of(x, db)
    BY <1>2, <1>3 DEF Phase
  <2> QED
    BY <1>1, <1>2, <1>7, <2>1, <2>2, Untouched
<1> QED
  BY <1>1, <1>4, <1>5, <1>6, <1>7 DEF Fit

(* A job is done: the rows of its scope are what it wrote, or as before.   *)
LEMMA DoneKeeps ==
  ASSUME Base, NEW s \in Scope, NEW f \in BOOLEAN, Done(s, f), queue[s] # <<>>,
         UNCHANGED <<process, store, cut, history>>,
         Of(s, db') \subseteq Of(s, db) \cup job[s].rows,
         \A x \in Scope : x # s => Of(x, db') = Of(x, db)
  PROVE  \A x \in Scope : Fit(x)'
<1>1. /\ queue'[s] = Tail(queue[s]) /\ job'[s] = NoJob
      /\ \A x \in Scope : x # s => queue'[x] = queue[x] /\ job'[x] = job[x]
  BY DoneFacts DEF Base
<1>2. UNCHANGED <<mode, hydrated, loading, sess, expired, revoked>>
  BY DEF process, store, history
<1>3. Owned(s) /\ Phase(s) /\ Saving(s)
  BY DEF Base, Fit
<1>4. ~job'[s].on /\ job'[s].rows = {}
  BY <1>1 DEF NoJob
<1>5. Owned(s)'
  BY <1>2, <1>3, <1>4 DEF Owned, Of
<1>6. hydrated[s] /\ ~loading[s].on
  BY <1>3 DEF Phase
<1>7. Phase(s)'
  <2>1. Tail(queue[s]) \in Seq({TRUE})
    BY <1>3 DEF Phase
  <2> QED
    BY <1>1, <1>2, <1>3, <1>6, <2>1 DEF Phase
<1>8. Over' = Over
  BY <1>2 DEF Over
<1>9. Saving(s)'
  <2>1. job[s].rows \subseteq sess[s][TRUE] \cup Over
    BY <1>3 DEF Saving, Owned
  <2>2. Of(s, db)' = Of(s, db')
    BY DEF Of
  <2> QED
    BY <1>2, <1>3, <1>4, <1>6, <1>8, <2>1, <2>2 DEF Saving
<1>10. ASSUME NEW x \in Scope, x # s
       PROVE  Fit(x)'
  <2>1. Fit(x)
    BY DEF Base
  <2>2. mode' # "down"
    BY <1>2, <1>3, <1>6 DEF Phase
  <2> QED
    BY <1>1, <1>2, <1>8, <1>10, <2>1, <2>2, Untouched
<1> QED
  BY <1>5, <1>7, <1>9, <1>10 DEF Fit

LEMMA CommitRows ==
  ASSUME Base, NEW s \in Scope, Commit(s)
  PROVE  /\ queue[s] # <<>> /\ hydrated[s] /\ Of(s, db') = job[s].rows
         /\ \A x \in Scope : x # s => Of(x, db') = Of(x, db)
         /\ db' = (db \ Of(s, db)) \cup job[s].rows
<1>1. job[s].on /\ db' = (db \ Of(s, db)) \cup job[s].rows
  BY DEF Commit
<1>2. job[s].rows \subseteq Of(s, Token) /\ db \subseteq Token
  BY DEF Base, Fit, Owned, Types, TypeOK
<1>3. queue[s] # <<>> /\ hydrated[s]
  BY <1>1 DEF Base, Types, Fit, Phase
<1> QED
  BY <1>1, <1>2, <1>3 DEF Of

LEMMA SnapshotRows ==
  ASSUME Base, NEW s \in Scope, Snapshot(s)
  PROVE  /\ hydrated[s] /\ queue[s] # <<>>
         /\ job'[s].on /\ job'[s].rows = sess[s][TRUE]
         /\ \A x \in Scope : x # s => job'[x] = job[x]
         /\ UNCHANGED <<process, store, queue, refused, db, due, drain, cut, history>>
<1>1. queue[s] # <<>> /\ hydrated[s] /\ queue[s] \in Seq({TRUE})
  BY DEF Snapshot, Base, Fit, Phase
<1>2. Head(queue[s]) \in {TRUE}
  BY <1>1, HeadTailProperties, Zenon
<1> QED
  BY <1>1, <1>2 DEF Snapshot, Base, Types, TypeOK

LEMMA HydrateFits ==
  ASSUME Base, NEW s \in Scope, HydrateRead(s) \/ HydrateSet(s)
  PROVE  \A x \in Scope : Fit(x)'
<1>1. UNCHANGED <<mode, queue, job, db, expired, revoked>> /\ Over' = Over
  BY DEF HydrateRead, HydrateSet, process, mirror, history, Over
<1>2. /\ \A x \in Scope : x # s => /\ loading'[x] = loading[x] /\ sess'[x] = sess[x]
                                   /\ hydrated'[x] = hydrated[x]
      /\ mode # "down" /\ Owned(s) /\ Phase(s) /\ Saving(s)
  BY DEF HydrateRead, HydrateSet, Base, Types, TypeOK, Fit, Phase
<1>3. ASSUME NEW x \in Scope, x # s
      PROVE  Fit(x)'
  <2>1. Fit(x)
    BY DEF Base
  <2> QED
    BY <1>1, <1>2, <1>3, <2>1, Untouched
<1>4. Of(s, db)' = Of(s, db) /\ Of(s, db) \subseteq Of(s, Token)
  BY <1>1 DEF Of, Base, Types, TypeOK
<1>5. CASE HydrateRead(s)
  <2>1. /\ ~hydrated[s] /\ loading'[s].on /\ loading'[s].rows = Of(s, db)
        /\ UNCHANGED <<hydrated, sess>>
    BY <1>5 DEF HydrateRead, Base, Types, TypeOK
  <2>2. Owned(s)'
    BY <1>1, <1>2, <1>4, <2>1 DEF Owned, Of
  <2>3. Phase(s)'
    BY <1>1, <1>2, <2>1 DEF Phase
  <2>4. ~job[s].on
    BY <1>2, <2>1 DEF Phase, Base, Types
  <2>5. Saving(s)'
    BY <1>1, <1>4, <2>1, <2>4 DEF Saving
  <2> QED
    BY <1>3, <2>2, <2>3, <2>5 DEF Fit
<1>6. CASE HydrateSet(s)
  <2>1. /\ loading[s].on /\ hydrated'[s] = TRUE /\ sess'[s][TRUE] = loading[s].rows
        /\ loading'[s].on = FALSE /\ loading'[s].rows = {}
    BY <1>6 DEF HydrateSet, NotRead, Base, Types, TypeOK
  <2>2. queue[s] = <<>> /\ ~job[s].on
    BY <1>2, <2>1 DEF Base, Phase, Types
  <2>3. Owned(s)'
    BY <1>1, <1>2, <2>1 DEF Owned, Of
  <2>4. Phase(s)'
    BY <1>1, <1>2, <2>1, <2>2 DEF Phase
  <2>5. Saving(s)'
    BY <1>1, <1>2, <1>4, <2>1, <2>2 DEF Saving
  <2> QED
    BY <1>3, <2>3, <2>4, <2>5 DEF Fit
<1> QED
  BY <1>5, <1>6

LEMMA BaseKeeps ==
  ASSUME NoEarly, Base, [Next]_vars
  PROVE  Base'
<1>1. Types'
  BY TypesKeep DEF Base
<1>2. SUFFICES \A x \in Scope : Fit(x)'
  BY <1>1 DEF Base
<1>3. CASE Boot
  <2>1. /\ mode = "down" /\ mode' = "up" /\ \A x \in Scope : sess'[x][TRUE] = {}
        /\ UNCHANGED <<hydrated, loading, queue, job, db, expired, revoked>>
    BY <1>3 DEF Boot, mirror, history
  <2>2. ASSUME NEW x \in Scope
        PROVE  Fit(x)'
    <3>1. Fit(x) /\ hydrated[x] = FALSE /\ ~loading[x].on /\ queue[x] = <<>> /\ ~job[x].on
      BY <2>1 DEF Base, Fit, Phase, Types, TypeOK
    <3>2. Owned(x)'
      BY <2>1, <3>1 DEF Fit, Owned, Of
    <3>3. Phase(x)'
      BY <2>1, <3>1 DEF Fit, Phase
    <3>4. Saving(x)'
      BY <2>1, <3>1 DEF Saving
    <3> QED
      BY <3>2, <3>3, <3>4 DEF Fit
  <2> QED
    BY <2>2
<1>4. CASE Crash \/ Exit
  <2>1. \A x \in Scope : /\ sess'[x][TRUE] = {} /\ hydrated'[x] = FALSE /\ loading'[x] = NotRead
                         /\ job'[x] = NoJob /\ queue'[x] = <<>>
    <3>1. Gone
      BY <1>4 DEF Crash, Exit
    <3> QED
      BY <3>1 DEF Gone
  <2> QED
    BY <2>1, OffFits
<1>5. ASSUME mode' # "down" \/ mode' = mode, db' \subseteq db, Over \subseteq Over',
             UNCHANGED <<hydrated, loading, sess, queue, job>>
      PROVE  \A x \in Scope : Fit(x)'
  <2>1. ASSUME NEW x \in Scope
        PROVE  Fit(x)'
    <3>1. Fit(x) /\ Of(x, db') \subseteq Of(x, db)
      BY <1>5 DEF Base, Of
    <3> QED
      BY <1>5, <3>1, Untouched
  <2> QED
    BY <2>1
<1>6. CASE Terminate
  BY <1>5, <1>6 DEF Terminate, store, mirror, history, Over
<1>7. ASSUME NEW s \in Scope, Snapshot(s)
      PROVE  \A x \in Scope : Fit(x)'
  <2>1. /\ hydrated[s] /\ job'[s].on /\ job'[s].rows = sess[s][TRUE]
        /\ \A x \in Scope : x # s => job'[x] = job[x]
        /\ UNCHANGED <<mode, hydrated, loading, sess, queue, db, expired, revoked>>
    BY <1>7, SnapshotRows DEF process, store, history
  <2>2. ASSUME NEW x \in Scope, x # s
        PROVE  Fit(x)'
    <3>1. Fit(x) /\ mode' # "down" /\ Over' = Over
      BY <2>1 DEF Base, Fit, Phase, Over
    <3> QED
      BY <2>1, <2>2, <3>1, Untouched
  <2>3. Owned(s) /\ Phase(s) /\ Saving(s)
    BY DEF Base, Fit
  <2>4. Owned(s)' /\ Phase(s)'
    BY <2>1, <2>3 DEF Owned, Phase, Of
  <2>5. Saving(s)'
    <3>1. Of(s, db)' = Of(s, db) /\ Over' = Over
      BY <2>1 DEF Of, Over
    <3> QED
      BY <2>1, <2>3, <3>1 DEF Saving, Phase
  <2> QED
    BY <2>2, <2>4, <2>5 DEF Fit
<1>8. ASSUME NEW s \in Scope, Commit(s) \/ CommitFail(s)
      PROVE  \A x \in Scope : Fit(x)'
  <2>1. CASE Commit(s)
    BY <2>1, CommitRows, DoneKeeps DEF Commit
  <2>2. CASE CommitFail(s)
    BY <2>2, DoneKeeps DEF CommitFail
  <2> QED
    BY <1>8, <2>1, <2>2
<1>9. ASSUME NEW t \in Token,
             Create(t) \/ ResolveExpired(t) \/ Revoke(t) \/ GatewayLogout(t)
      PROVE  \A x \in Scope : Fit(x)'
  <2> DEFINE s == ScopeOf[t]
  <2>1. s \in Scope /\ t \in Of(s, Token)
    BY InScope
  <2>2. hydrated[s]
    BY <1>9 DEF NoEarly, Serves, Create, ResolveExpired, Revoke, GatewayLogout
  <2>3. Current(s) = sess[s][TRUE] /\ sess[s][TRUE] \subseteq Of(s, Token)
    BY <2>1, <2>2 DEF Current, Base, Fit, Owned, Types, TypeOK
  <2>4. PICK S \in {Current(s) \cup {t}, Current(s) \ {t}} :
             /\ Persist(s, S) /\ UNCHANGED Kept /\ Over \subseteq Over'
             /\ Current(s) \subseteq S \cup Over'
    BY <1>9 DEF Create, ResolveExpired, Revoke, GatewayLogout, Kept, Over, history
  <2> HIDE DEF s
  <2> QED
    BY <2>1, <2>2, <2>3, <2>4, SaveKeeps
<1>10. ASSUME NEW t \in Token, Answer(t) \/ Expire(t) \/ TtlDelete(t)
       PROVE  \A x \in Scope : Fit(x)'
  <2>1. /\ UNCHANGED <<mode, hydrated, loading, sess, queue, job>>
        /\ db' \subseteq db /\ Over \subseteq Over'
    BY <1>10 DEF Answer, Expire, TtlDelete, process, store, mirror, history, Over
  <2> QED
    BY <2>1, <1>5
<1>11. CASE UNCHANGED vars
  BY <1>11, <1>5 DEF vars, process, store, mirror, history, Over
<1> QED
  BY <1>3, <1>4, <1>6, <1>7, <1>8, <1>9, <1>10, <1>11, HydrateFits DEF Next, Mirror

LEMMA BaseInit == Init => Base
<1> SUFFICES ASSUME Init PROVE \A s \in Scope : Fit(s)
  BY TypesInit DEF Base
<1>1. \A s \in Scope : /\ sess[s][TRUE] = {} /\ hydrated[s] = FALSE /\ loading[s] = NotRead
                       /\ job[s] = NoJob /\ queue[s] = <<>>
  BY DEF Init
<1>2. ASSUME NEW s \in Scope
      PROVE  Fit(s)
  <2>1. ~loading[s].on /\ loading[s].rows = {} /\ ~job[s].on /\ job[s].rows = {}
    <3>1. ~NotRead.on /\ NotRead.rows = {} /\ ~NoJob.on /\ NoJob.rows = {}
      BY DEF NoJob, NotRead
    <3> QED
      BY <1>1, <3>1, Zenon
  <2>2. queue[s] \in Seq({TRUE})
    <3>1. <<>> \in Seq({TRUE})
      BY EmptySeq, Zenon
    <3> QED
      BY <1>1, <3>1, Zenon
  <2> QED
    BY <1>1, <2>1, <2>2 DEF Fit, Owned, Phase, Saving
<1> QED
  BY <1>2

-----------------------------------------------------------------------------
(* Once, further, the database refuses no write.                           *)

Saves(t) == Create(t) \/ ResolveExpired(t) \/ Revoke(t) \/ GatewayLogout(t)

LEMMA SaveFacts ==
  ASSUME NoEarly, Base, NEW t \in Token, Saves(t)
  PROVE  LET s == ScopeOf[t] IN
         /\ s \in Scope /\ hydrated[s] /\ Len(queue'[s]) = Len(queue[s]) + 1
         /\ UNCHANGED <<mode, hydrated, loading, job, db, drain, cut>>
         /\ Over \subseteq Over' /\ issued \subseteq issued'
         /\ sess'[s][TRUE] \subseteq sess[s][TRUE] \cup (issued' \ issued)
         /\ ~Create(t) => t \notin sess'[s][TRUE]
         /\ sess[s][TRUE] \subseteq sess'[s][TRUE] \cup Over'
         /\ \A x \in Scope : x # s => sess'[x] = sess[x] /\ queue'[x] = queue[x]
<1> DEFINE s == ScopeOf[t]
<1>1. s \in Scope /\ t \in Of(s, Token)
  BY InScope
<1>2. hydrated[s]
  BY DEF Saves, NoEarly, Serves, Create, ResolveExpired, Revoke, GatewayLogout
<1>3. Current(s) = sess[s][TRUE] /\ sess[s][TRUE] \subseteq Of(s, Token)
  BY <1>1, <1>2 DEF Current, Base, Fit, Owned, Types, TypeOK
<1>4. PICK S \in {Current(s) \cup {t}, Current(s) \ {t}} :
           /\ Persist(s, S) /\ UNCHANGED Kept /\ Over \subseteq Over' /\ issued \subseteq issued'
           /\ Current(s) \subseteq S \cup Over'
           /\ t \in S => t \in issued' \ issued \/ t \in Current(s)
           /\ ~Create(t) => t \notin S
  BY DEF Saves, Create, ResolveExpired, Revoke, GatewayLogout, Kept, Over, history
<1> HIDE DEF s
<1>5. /\ sess'[s][TRUE] = S \ expired /\ Len(queue'[s]) = Len(queue[s]) + 1
      /\ \A x \in Scope : x # s => sess'[x] = sess[x] /\ queue'[x] = queue[x]
  BY <1>1, <1>2, <1>3, <1>4, SaveKeeps
<1>6. UNCHANGED <<mode, hydrated, loading, job, db, drain, cut>>
  BY <1>4 DEF Kept, process
<1>7. expired \subseteq Over'
  BY <1>4 DEF Over
<1>8. S \subseteq sess[s][TRUE] \cup (issued' \ issued)
  <2>1. S \subseteq sess[s][TRUE] \cup {t}
    BY <1>3, <1>4, ZenonT(30)
  <2>2. t \in S => t \in sess[s][TRUE] \cup (issued' \ issued)
    BY <1>3, <1>4
  <2> QED
    BY <2>1, <2>2
<1> QED
  BY <1>1, <1>2, <1>3, <1>4, <1>5, <1>6, <1>7, <1>8 DEF s

LEMMA LenFacts ==
  ASSUME Base, NEW s \in Scope
  PROVE  /\ Len(queue[s]) \in Nat /\ drain[s] \in Nat
         /\ Len(queue[s]) = 0 => queue[s] = <<>> /\ ~job[s].on
         /\ queue[s] # <<>> => Len(queue[s]) >= 1
<1>1. queue[s] \in Seq(BOOLEAN) /\ drain[s] \in Nat
  BY DEF Base, Types, TypeOK
<1>2. Len(queue[s]) \in Nat /\ (Len(queue[s]) = 0 <=> queue[s] = <<>>)
  BY <1>1
<1> QED
  BY <1>1, <1>2 DEF Base, Types

LEMMA DrainKeeps ==
  ASSUME NoEarly, "write" \notin Faults, Base, Draining, [Next]_vars
  PROVE  Draining'
<1>1. CASE Boot
  <2>1. /\ mode' = "up" /\ mode = "down" /\ \A x \in Scope : hydrated'[x] = FALSE
        /\ UNCHANGED <<queue, loading, db, drain, cut, expired, revoked>>
    BY <1>1 DEF Boot, mirror, history, Base, Fit, Phase, Types, TypeOK
  <2>2. cut' = {} /\ Over' = Over
    BY <2>1 DEF Draining, Over
  <2>3. \A t \in Token : Reachable(t)'
    BY <2>1, InScope DEF Reachable
  <2> QED
    BY <2>1, <2>2, <2>3 DEF Draining
<1>2. CASE Crash \/ Exit
  <2>1. /\ mode' = "down" /\ cut' = {}
        /\ \A x \in Scope : /\ hydrated'[x] = FALSE /\ loading'[x] = NotRead
                            /\ queue'[x] = <<>> /\ drain'[x] = 0
    BY <1>2 DEF Crash, Exit, Gone
  <2>2. \A t \in Token : Reachable(t)'
    BY <2>1, InScope DEF Reachable
  <2>3. \A x \in Scope : drain'[x] <= Len(queue'[x]) /\ loading'[x].rows = {}
    BY <2>1 DEF NotRead
  <2> QED
    BY <2>1, <2>2, <2>3 DEF Draining
<1>3. CASE Terminate
  <2>1. /\ mode' = "exiting" /\ drain' = [s \in Scope |-> Len(queue[s])]
        /\ cut' = UNION {Current(s) : s \in {x \in Scope : hydrated[x]}}
        /\ UNCHANGED <<hydrated, loading, sess, queue, job, db, expired, revoked>>
    BY <1>3 DEF Terminate, store, mirror, history
  <2>2. Over' = Over
    BY <2>1 DEF Over
  <2>3. ASSUME NEW t \in Token \ Over
        PROVE  Reachable(t)' /\ (t \in cut' => Awaited(t)')
    <3>1. Reachable(t) /\ ScopeOf[t] \in Scope
      BY InScope DEF Draining
    <3>2. Reachable(t)'
      BY <2>1, <3>1 DEF Reachable, Reach
    <3>3. ASSUME t \in cut'
          PROVE  Awaited(t)'
      <4>1. PICK x \in Scope : hydrated[x] /\ t \in Current(x)
        BY <2>1, <3>3
      <4>2. t \in sess[x][TRUE] /\ x = ScopeOf[t]
        <5>1. hydrated[x] = TRUE /\ sess[x][TRUE] \subseteq Of(x, Token)
          BY <4>1 DEF Base, Fit, Owned, Types, TypeOK
        <5> QED
          BY <4>1, <5>1 DEF Current, Of
      <4>3. drain'[x] = Len(queue[x])
        BY <2>1
      <4> QED
        BY <2>1, <3>1, <4>1, <4>2, <4>3 DEF Reachable, Awaited, Reach
    <3> QED
      BY <3>2, <3>3
  <2>4. \A s \in Scope : drain'[s] <= Len(queue'[s]) /\ loading'[s].rows \subseteq db' \cup Over'
    BY <2>1, <2>2, LenFacts DEF Draining
  <2> QED
    BY <2>1, <2>2, <2>3, <2>4 DEF Draining
<1>4. ASSUME NEW x \in Scope, HydrateRead(x) \/ HydrateSet(x)
      PROVE  Draining'
  <2>1. /\ UNCHANGED <<mode, queue, job, db, drain, cut, expired, revoked>> /\ ~hydrated[x]
        /\ \A y \in Scope : y # x => /\ loading'[y] = loading[y] /\ sess'[y] = sess[y]
                                     /\ hydrated'[y] = hydrated[y]
        /\ loading'[x].rows \subseteq db
        /\ hydrated'[x] => sess'[x][TRUE] \subseteq loading[x].rows
    <3>1. /\ hydrated \in [Scope -> BOOLEAN]
          /\ loading \in [Scope -> [on : BOOLEAN, rows : SUBSET Token]]
          /\ sess \in [Scope -> [BOOLEAN -> SUBSET Token]] /\ (loading[x].on => ~hydrated[x])
      BY DEF Base, Types, TypeOK, Fit, Phase
    <3>2. CASE HydrateRead(x)
      BY <3>1, <3>2 DEF HydrateRead, process, mirror, history, Of
    <3>3. CASE HydrateSet(x)
      BY <3>1, <3>3 DEF HydrateSet, process, mirror, history, NotRead
    <3> QED
      BY <1>4, <3>2, <3>3
  <2>2. Over' = Over
    BY <2>1 DEF Over
  <2>3. ASSUME NEW t \in Token \ Over
        PROVE  Reachable(t)' /\ (t \in cut' => Awaited(t)')
    <3>1. CASE ScopeOf[t] = x
      <4>1. Reachable(t)'
        BY <2>1, <3>1 DEF Reachable, Reach, Draining
      <4>2. t \notin cut'
        BY <2>1, <3>1 DEF Draining, Awaited
      <4> QED
        BY <4>1, <4>2
    <3>2. CASE ScopeOf[t] # x
      BY <2>1, <3>2, InScope DEF Reachable, Awaited, Reach, Draining
    <3> QED
      BY <3>1, <3>2
  <2>4. \A s \in Scope : drain'[s] <= Len(queue'[s]) /\ loading'[s].rows \subseteq db' \cup Over'
    BY <2>1, <2>2 DEF Draining
  <2> QED
    BY <2>1, <2>2, <2>3, <2>4 DEF Draining
<1>5. ASSUME NEW x \in Scope, Snapshot(x)
      PROVE  Draining'
  <2>1. /\ hydrated[x] /\ job'[x].on /\ job'[x].rows = sess[x][TRUE] /\ queue[x] # <<>>
        /\ \A y \in Scope : y # x => job'[y] = job[y]
        /\ UNCHANGED <<mode, hydrated, loading, sess, queue, db, drain, cut, expired, revoked>>
    BY <1>5, SnapshotRows DEF process, store, history
  <2>2. Over' = Over /\ Len(queue[x]) >= 1 /\ Len(queue[x]) \in Nat
    BY <2>1, LenFacts DEF Over
  <2>3. ASSUME NEW t \in Token \ Over
        PROVE  Reachable(t)' /\ (t \in cut' => Awaited(t)')
    <3>1. CASE ScopeOf[t] = x
      <4>1. ASSUME NEW n \in Nat, n >= 1, t \in sess[x][TRUE]
            PROVE  Reach(t, n)'
        <5>1. t \in job'[ScopeOf[t]].rows
          BY <2>1, <3>1, <4>1
        <5>2. n = 1 \/ n >= 2
          BY <4>1
        <5> QED
          BY <5>1, <5>2, Zenon DEF Reach
      <4>2. Reachable(t)'
        <5>1. PICK n \in Nat : n = Len(queue[x])
          BY <2>2
        <5> QED
          BY <2>1, <2>2, <3>1, <4>1, <5>1 DEF Reachable, Reach
      <4>3. t \in cut => Awaited(t)'
        BY <2>1, <3>1 DEF Draining, Awaited, Reach
      <4> QED
        BY <2>1, <4>2, <4>3
    <3>2. CASE ScopeOf[t] # x
      BY <2>1, <3>2, InScope DEF Reachable, Awaited, Reach, Draining
    <3> QED
      BY <3>1, <3>2
  <2> QED
    BY <2>1, <2>2, <2>3 DEF Draining
<1>6. ASSUME NEW x \in Scope, Commit(x)
      PROVE  Draining'
  <2>1. /\ queue[x] # <<>> /\ hydrated[x] /\ Of(x, db') = job[x].rows /\ job[x].on
        /\ \A y \in Scope : y # x => Of(y, db') = Of(y, db)
        /\ Done(x, FALSE) /\ UNCHANGED <<mode, hydrated, loading, sess, cut, expired, revoked>>
    BY <1>6, CommitRows DEF Commit, process, store, history
  <2>2. /\ Len(queue'[x]) = Len(queue[x]) - 1 /\ ~job'[x].on /\ drain'[x] = Less(drain[x])
        /\ \A y \in Scope : y # x => /\ queue'[y] = queue[y] /\ job'[y] = job[y]
                                     /\ drain'[y] = drain[y]
    <3>1. job'[x] = NoJob /\ ~NoJob.on
      BY <2>1, DoneFacts DEF Base, NoJob
    <3> QED
      BY <2>1, <3>1, DoneFacts DEF Base
  <2>3. Over' = Over /\ Len(queue[x]) \in Nat /\ drain[x] \in Nat /\ drain[x] <= Len(queue[x])
        /\ Len(queue[x]) >= 1
    BY <2>1, LenFacts DEF Over, Draining
  <2>4. Of(x, db) \subseteq job[x].rows \cup Over
    BY <2>1 DEF Base, Fit, Saving
  <2>5. ASSUME NEW t \in Token \ Over
        PROVE  Reachable(t)' /\ (t \in cut' => Awaited(t)')
    <3>0. t \in db' <=> t \in Of(ScopeOf[t], db')
      BY DEF Of
    <3>1. t \in db <=> t \in Of(ScopeOf[t], db)
      BY DEF Of
    <3>2. CASE ScopeOf[t] = x
      <4>1. ASSUME NEW n \in Nat, NEW m \in Int, Reach(t, n), m = n - 1 \/ (n = 0 /\ m = 0)
            PROVE  Reach(t, m)'
        BY <2>1, <2>2, <2>4, <3>0, <3>1, <3>2, <4>1 DEF Reach
      <4>2. Reachable(t)'
        <5>1. PICK m \in Int : m = Len(queue[x]) - 1
          BY <2>3
        <5>2. t \in sess[x][TRUE] => Reach(t, m)'
          BY <2>1, <2>3, <3>2, <4>1, <5>1 DEF Draining, Reachable
        <5> QED
          BY <2>1, <2>2, <3>2, <5>1, <5>2 DEF Reachable, Reach
      <4>3. ASSUME t \in cut
            PROVE  Awaited(t)'
        <5>1. Reach(t, drain[x]) /\ t \in sess[x][TRUE]
          BY <3>2, <4>3 DEF Draining, Awaited
        <5>2. drain'[x] \in Int /\ (drain'[x] = drain[x] - 1 \/ (drain[x] = 0 /\ drain'[x] = 0))
          BY <2>2, <2>3 DEF Less
        <5>3. PICK m \in Int : m = drain'[x]
          BY <5>2
        <5>4. Reach(t, m)'
          BY <2>3, <4>1, <5>1, <5>2, <5>3
        <5> QED
          BY <2>1, <3>2, <5>1, <5>3, <5>4 DEF Awaited, Reach
      <4> QED
        BY <2>1, <4>2, <4>3
    <3>3. CASE ScopeOf[t] # x
      BY <2>1, <2>2, <3>0, <3>1, <3>3, InScope DEF Reachable, Awaited, Reach, Draining
    <3> QED
      BY <3>2, <3>3
  <2>6. ASSUME NEW s \in Scope
        PROVE  drain'[s] <= Len(queue'[s]) /\ loading'[s].rows \subseteq db' \cup Over'
    <3>1. CASE s = x
      <4>1. loading[x].rows = {}
        BY <2>1 DEF Base, Fit, Phase, Owned
      <4>2. Less(drain[x]) <= Len(queue[x]) - 1
        BY <2>3 DEF Less
      <4> QED
        BY <2>1, <2>2, <3>1, <4>1, <4>2
    <3>2. CASE s # x
      <4>1. loading[s].rows \subseteq Of(s, Token) /\ loading[s].rows \subseteq db \cup Over
        BY DEF Base, Fit, Owned, Draining
      <4>2. Of(s, db') = Of(s, db) /\ db \subseteq Token
        BY <2>1, <3>2 DEF Base, Types, TypeOK
      <4>3. loading[s].rows \subseteq db' \cup Over
        BY <4>1, <4>2 DEF Of
      <4> QED
        BY <2>1, <2>2, <2>3, <3>2, <4>3 DEF Draining
    <3> QED
      BY <3>1, <3>2
  <2> QED
    BY <2>1, <2>3, <2>5, <2>6 DEF Draining
<1>7. ASSUME NEW u \in Token, Saves(u)
      PROVE  Draining'
  <2> DEFINE x == ScopeOf[u]
  <2>1. /\ x \in Scope /\ hydrated[x] /\ Len(queue'[x]) = Len(queue[x]) + 1
        /\ UNCHANGED <<mode, hydrated, loading, job, db, drain, cut>> /\ Over \subseteq Over'
        /\ sess[x][TRUE] \subseteq sess'[x][TRUE] \cup Over'
        /\ \A y \in Scope : y # x => sess'[y] = sess[y] /\ queue'[y] = queue[y]
    BY <1>7, SaveFacts
  <2> HIDE DEF x
  <2>2. Len(queue[x]) \in Nat /\ (Len(queue[x]) = 0 => ~job[x].on)
    BY <2>1, LenFacts
  <2>3. ASSUME NEW t \in Token \ Over'
        PROVE  Reachable(t)' /\ (t \in cut' => Awaited(t)')
    <3>1. t \in Token \ Over
      BY <2>1
    <3>2. CASE ScopeOf[t] = x
      <4>1. Reachable(t)'
        <5>1. PICK n \in Nat : n = Len(queue[x])
          BY <2>2
        <5>2. PICK m \in Nat : m = n + 1
          OBVIOUS
        <5>3. Reach(t, m)'
          BY <2>1, <2>2, <3>2, <5>1, <5>2 DEF Reach
        <5> QED
          BY <2>1, <3>2, <5>1, <5>2, <5>3 DEF Reachable, Reach
      <4>2. t \in cut => Awaited(t)'
        BY <2>1, <2>3, <3>1, <3>2 DEF Draining, Awaited, Reach
      <4> QED
        BY <2>1, <4>1, <4>2
    <3>3. CASE ScopeOf[t] # x
      BY <2>1, <3>1, <3>3, InScope DEF Reachable, Awaited, Reach, Draining
    <3> QED
      BY <3>2, <3>3
  <2>4. ASSUME NEW s \in Scope
        PROVE  drain'[s] <= Len(queue'[s]) /\ loading'[s].rows \subseteq db' \cup Over'
    <3>1. drain[s] \in Nat /\ drain[s] <= Len(queue[s]) /\ loading[s].rows \subseteq db \cup Over
      BY LenFacts DEF Draining
    <3> QED
      BY <2>1, <2>2, <3>1
  <2> QED
    BY <2>1, <2>3, <2>4 DEF Draining
<1>8. ASSUME UNCHANGED <<mode, hydrated, loading, sess, queue, job, drain, cut>>,
             Over \subseteq Over', db \subseteq db' \cup Over'
      PROVE  Draining'
  <2>1. ASSUME NEW t \in Token \ Over'
        PROVE  Reachable(t)' /\ (t \in cut' => Awaited(t)')
    BY <1>8, <2>1 DEF Draining, Reachable, Awaited, Reach
  <2> QED
    BY <1>8, <2>1 DEF Draining
<1>9. ASSUME NEW t \in Token, Answer(t) \/ Expire(t) \/ TtlDelete(t)
      PROVE  Draining'
  BY <1>8, <1>9 DEF Answer, Expire, TtlDelete, process, store, mirror, history, Over
<1>10. CASE UNCHANGED vars
  BY <1>8, <1>10 DEF vars, process, store, mirror, history, Over
<1>11. \A s \in Scope : ~CommitFail(s)
  BY DEF CommitFail
<1> QED
  BY <1>1, <1>2, <1>3, <1>4, <1>5, <1>6, <1>7, <1>9, <1>10, <1>11 DEF Next, Mirror, Saves

(* The graceful shutdown loses no session, whatever is saved, logged out   *)
(* and queued while it waits, as long as the database takes the writes.    *)
THEOREM ShutdownSaves ==
  ASSUME "early" \notin Faults, "write" \notin Faults
  PROVE  Spec => DrainKeepsLogins
<1> USE DEF NoEarly
<1>1. Init => Base /\ Draining
  <2> SUFFICES ASSUME Init PROVE Draining
    BY BaseInit
  <2>1. \A x \in Scope : /\ hydrated[x] = FALSE /\ loading[x] = NotRead
                         /\ queue[x] = <<>> /\ drain[x] = 0
    BY DEF Init
  <2>2. cut = {} /\ NotRead.rows = {}
    BY DEF Init, NotRead
  <2>3. \A x \in Scope : drain[x] <= Len(queue[x]) /\ loading[x].rows = {}
    BY <2>1, <2>2
  <2>4. \A t \in Token : Reachable(t)
    BY <2>1, InScope DEF Reachable
  <2> QED
    BY <2>2, <2>3, <2>4 DEF Draining
<1>2. ASSUME Base, Draining, Exit
      PROVE  cut \ (expired \cup revoked) \subseteq db
  <2>1. ASSUME NEW t \in cut \ Over
        PROVE  t \in db
    <3>1. t \in Token /\ ScopeOf[t] \in Scope
      BY <1>2, ScopeAssumption DEF Base, Types, TypeOK
    <3>2. drain[ScopeOf[t]] = 0
      BY <1>2, <3>1 DEF Exit
    <3>3. Awaited(t)
      BY <1>2, <2>1, <3>1 DEF Draining
    <3> QED
      BY <3>2, <3>3 DEF Awaited, Reach
  <2> QED
    BY <2>1 DEF Over
<1>3. Base /\ Draining /\ [Next]_vars
        => Base' /\ Draining' /\ [Exit => cut \ (expired \cup revoked) \subseteq db]_vars
  BY <1>2, BaseKeeps, DrainKeeps
<1> QED
  BY <1>1, <1>3, PTL DEF Spec, DrainKeepsLogins

-----------------------------------------------------------------------------
(* Once crashes are the only faults.                                       *)

OnlyCrash == Faults \subseteq {"crash"}

Rows(s) == (IF hydrated[s] THEN sess[s][TRUE] ELSE {}) \cup loading[s].rows \cup job[s].rows

LEMMA AliveRows == \A t : t \in Alive <=> t \in db \/ \E s \in Scope : t \in Rows(s)
  BY DEF Alive, Rows

(* Nothing comes back: what is honoured, or may be read back, was so before*)
(* or has been issued in this step.                                        *)
LEMMA AliveShrinks ==
  ASSUME NoEarly, Base, [Next]_vars
  PROVE  Alive' \subseteq Alive \cup (issued' \ issued)
<1> DEFINE New == issued' \ issued
<1>1. ASSUME db' \subseteq Alive \cup New,
             \A x \in Scope : Rows(x)' \subseteq Alive \cup New
      PROVE  Alive' \subseteq Alive \cup New
  <2>1. ASSUME NEW t \in Alive'
        PROVE  t \in Alive \cup New
    <3>1. t \in db' \/ \E x \in Scope : t \in Rows(x)'
      BY <2>1, AliveRows DEF Alive, Rows
    <3> QED
      BY <1>1, <3>1
  <2> QED
    BY <2>1
<1>2. db \subseteq Alive /\ \A x \in Scope : Rows(x) \subseteq Alive
  BY AliveRows
<1> HIDE DEF New
<1>4. CASE Boot
  <2>1. UNCHANGED <<db, hydrated, loading, job>> /\ \A x \in Scope : hydrated[x] = FALSE
    BY <1>4 DEF Boot, mirror, Base, Fit, Phase, Types, TypeOK
  <2>2. \A x \in Scope : Rows(x)' \subseteq Rows(x)
    BY <2>1 DEF Rows
  <2> QED
    BY <1>1, <1>2, <2>1, <2>2 DEF New
<1>5. CASE Crash \/ Exit
  <2>1. db' = db /\ \A x \in Scope : hydrated'[x] = FALSE /\ loading'[x] = NotRead /\ job'[x] = NoJob
    BY <1>5 DEF Crash, Exit, Gone
  <2>2. NotRead.rows = {} /\ NoJob.rows = {}
    BY DEF NotRead, NoJob
  <2>3. \A x \in Scope : Rows(x)' = {}
    BY <2>1, <2>2 DEF Rows
  <2> QED
    BY <1>1, <1>2, <2>1, <2>3 DEF New
<1>6. ASSUME UNCHANGED <<hydrated, loading, sess, job>>, db' \subseteq db
      PROVE  Alive' \subseteq Alive \cup New
  <2>1. \A x \in Scope : Rows(x)' = Rows(x)
    BY <1>6 DEF Rows
  <2> QED
    BY <1>1, <1>2, <1>6, <2>1
<1>7. ASSUME NEW s \in Scope, HydrateRead(s) \/ HydrateSet(s)
      PROVE  Alive' \subseteq Alive \cup New
  <2>1. UNCHANGED <<job, db>>
        /\ \A x \in Scope : x # s => /\ loading'[x] = loading[x] /\ sess'[x] = sess[x]
                                     /\ hydrated'[x] = hydrated[x]
    BY <1>7 DEF HydrateRead, HydrateSet, mirror, Base, Types, TypeOK
  <2>2. \A x \in Scope : x # s => Rows(x)' = Rows(x)
    BY <2>1 DEF Rows
  <2>3. Rows(s)' \subseteq Rows(s) \cup db
    <3>1. CASE HydrateRead(s)
      <4>1. loading'[s].rows \subseteq db /\ UNCHANGED <<hydrated, sess>>
        BY <3>1 DEF HydrateRead, Base, Types, TypeOK, Of
      <4> QED
        BY <2>1, <4>1 DEF Rows
    <3>2. CASE HydrateSet(s)
      <4>1. sess'[s][TRUE] = loading[s].rows /\ loading'[s].rows = {}
        BY <3>2 DEF HydrateSet, NotRead, Base, Types, TypeOK
      <4> QED
        BY <2>1, <4>1 DEF Rows
    <3> QED
      BY <1>7, <3>1, <3>2
  <2> QED
    BY <1>1, <1>2, <2>1, <2>2, <2>3
<1>8. ASSUME NEW s \in Scope, Snapshot(s)
      PROVE  Alive' \subseteq Alive \cup New
  <2>1. /\ hydrated[s] /\ job'[s].rows = sess[s][TRUE]
        /\ \A x \in Scope : x # s => job'[x] = job[x]
        /\ UNCHANGED <<hydrated, loading, sess, db>>
    BY <1>8, SnapshotRows DEF store
  <2>2. \A x \in Scope : Rows(x)' \subseteq Rows(x)
    BY <2>1 DEF Rows
  <2> QED
    BY <1>1, <1>2, <2>1, <2>2
<1>9. ASSUME NEW s \in Scope, Commit(s) \/ CommitFail(s)
      PROVE  Alive' \subseteq Alive \cup New
  <2>2. /\ UNCHANGED <<hydrated, loading, sess>> /\ job' = [job EXCEPT ![s] = NoJob]
        /\ db' \subseteq db \cup job[s].rows
    BY <1>9 DEF Commit, CommitFail, Done, store
  <2>3. NoJob.rows = {} /\ job \in [Scope -> [on : BOOLEAN, rows : SUBSET Token]]
    BY DEF NoJob, Base, Types, TypeOK
  <2>4. \A x \in Scope : job'[x].rows \subseteq job[x].rows
    BY <2>2, <2>3
  <2>5. \A x \in Scope : Rows(x)' \subseteq Rows(x)
    BY <2>2, <2>4 DEF Rows
  <2>6. job[s].rows \subseteq Rows(s)
    BY DEF Rows
  <2> QED
    BY <1>1, <1>2, <2>2, <2>5, <2>6
<1>10. ASSUME NEW t \in Token, Saves(t)
       PROVE  Alive' \subseteq Alive \cup New
  <2>1. /\ ScopeOf[t] \in Scope /\ hydrated[ScopeOf[t]]
        /\ UNCHANGED <<hydrated, loading, job, db>>
        /\ sess'[ScopeOf[t]][TRUE] \subseteq sess[ScopeOf[t]][TRUE] \cup New
        /\ \A x \in Scope : x # ScopeOf[t] => sess'[x] = sess[x]
    BY <1>10, SaveFacts DEF New
  <2>2. \A x \in Scope : Rows(x)' \subseteq Rows(x) \cup New
    BY <2>1 DEF Rows
  <2> QED
    BY <1>1, <1>2, <2>1, <2>2
<1>11. CASE Terminate
  BY <1>6, <1>11 DEF Terminate, store, mirror, New
<1>12. ASSUME NEW t \in Token, Answer(t) \/ Expire(t) \/ TtlDelete(t)
       PROVE  Alive' \subseteq Alive \cup New
  BY <1>6, <1>12 DEF Answer, Expire, TtlDelete, store, mirror
<1>13. CASE UNCHANGED vars
  BY <1>6, <1>13 DEF vars, store, mirror, New
<1> QED
  BY <1>4, <1>5, <1>7, <1>8, <1>9, <1>10, <1>11, <1>12, <1>13 DEF Next, Mirror, Saves, New

(* A token that waits for its logout, in a step that neither issues it nor *)
(* writes it.                                                              *)
LEMMA LeaveKeeps ==
  ASSUME OnlyCrash, Base, Leaving, [Next]_vars, NEW t \in Token, due'[t] # NotDue
  PROVE  Left(t)'
<1> DEFINE s == ScopeOf[t]
<1>0. s \in Scope /\ NoEarly /\ Len(queue[s]) \in Nat /\ due[t] \in Int
  BY InScope, LenFacts DEF OnlyCrash, NoEarly, Base, Types, TypeOK
<1>1. due[t] # NotDue => Left(t)
  BY DEF Leaving
<1> HIDE DEF s
<1>2. ASSUME due[t] # NotDue, due'[t] = due[t], hydrated'[s], issued \subseteq issued',
             t \notin sess'[s][TRUE], db' \subseteq db, Len(queue'[s]) \in Nat,
             Len(queue[s]) <= Len(queue'[s]), t \notin job'[s].rows \/ job'[s] = job[s]
      PROVE  Left(t)'
  <2>1. t \in issued'
    BY <1>1, <1>2 DEF Left, s
  <2>2. due'[t] <= Len(queue'[s])
    <3>1. due[t] <= Len(queue[s])
      BY <1>1, <1>2 DEF Left, s
    <3> QED
      BY <1>0, <1>2, <3>1
  <2>3. due'[t] = 0 => t \notin db'
    BY <1>1, <1>2 DEF Left, s
  <2>4. due'[t] <= 1 => t \notin job'[s].rows
    BY <1>1, <1>2 DEF Left, s
  <2> QED
    BY <1>2, <2>1, <2>2, <2>3, <2>4 DEF Left, s
<1>3. CASE Boot
  <2>1. due'[t] = due[t] /\ hydrated[s] = FALSE
    BY <1>0, <1>3 DEF Boot, Base, Fit, Phase, Types, TypeOK
  <2> QED
    BY <1>1, <2>1 DEF Left, s
<1>4. CASE Crash \/ Exit
  BY <1>4 DEF Crash, Exit, Gone
<1>5. ASSUME UNCHANGED <<hydrated, sess, queue, job, due, issued>>, db' \subseteq db
      PROVE  Left(t)'
  BY <1>0, <1>1, <1>2, <1>5 DEF Left, s
<1>6. CASE Terminate
  BY <1>5, <1>6 DEF Terminate, store, mirror, history
<1>7. ASSUME NEW x \in Scope, HydrateRead(x) \/ HydrateSet(x)
      PROVE  Left(t)'
  <2>1. /\ UNCHANGED <<queue, job, db, due, issued>> /\ ~hydrated[x]
        /\ \A y \in Scope : y # x => sess'[y] = sess[y] /\ hydrated'[y] = hydrated[y]
    BY <1>7 DEF HydrateRead, HydrateSet, mirror, history, Base, Types, TypeOK, Fit, Phase
  <2>2. s # x
    BY <1>1, <2>1 DEF Left, s
  <2> QED
    BY <1>0, <1>1, <1>2, <2>1, <2>2 DEF Left, s
<1>8. ASSUME NEW x \in Scope, Snapshot(x)
      PROVE  Left(t)'
  <2>1. /\ job'[x].rows = sess[x][TRUE] /\ \A y \in Scope : y # x => job'[y] = job[y]
        /\ UNCHANGED <<hydrated, sess, queue, db, due, issued>>
    BY <1>8, SnapshotRows DEF store, history
  <2>2. t \notin job'[s].rows \/ job'[s] = job[s]
    BY <1>0, <1>1, <2>1 DEF Left, s
  <2> QED
    BY <1>0, <1>1, <1>2, <2>1, <2>2 DEF Left, s
<1>9. ASSUME NEW x \in Scope, Commit(x)
      PROVE  Left(t)'
  <2>1. /\ queue[x] # <<>> /\ Of(x, db') = job[x].rows /\ Done(x, FALSE)
        /\ \A y \in Scope : y # x => Of(y, db') = Of(y, db)
        /\ UNCHANGED <<hydrated, sess, issued>>
    BY <1>9, CommitRows DEF Commit, store, history
  <2>2. /\ Len(queue'[x]) = Len(queue[x]) - 1 /\ job'[x] = NoJob
        /\ \A y \in Scope : y # x => queue'[y] = queue[y] /\ job'[y] = job[y]
        /\ due'[t] = IF s = x THEN Less(due[t]) ELSE due[t]
    BY <2>1, DoneFacts DEF Base, s
  <2>3. (t \in db' <=> t \in Of(s, db')) /\ (t \in db <=> t \in Of(s, db))
    BY DEF Of, s
  <2>4. due[t] # NotDue /\ Left(t)
    BY <1>1, <2>2 DEF Less, NotDue
  <2>5. CASE s # x
    <3>1. job'[s] = job[s] /\ queue'[s] = queue[s] /\ due'[t] = due[t] /\ (t \in db' <=> t \in db)
      BY <1>0, <2>1, <2>2, <2>3, <2>5
    <3> QED
      BY <2>1, <2>4, <3>1 DEF Left, s
  <2>6. CASE s = x
    <3>1. NoJob.rows = {}
      BY DEF NoJob
    <3>2. t \notin job'[s].rows
      BY <2>2, <2>6, <3>1
    <3>3. due'[t] = Less(due[t]) /\ Len(queue'[s]) = Len(queue[s]) - 1 /\ Len(queue[s]) >= 1
      BY <1>0, <2>1, <2>2, <2>6, LenFacts
    <3>4. due[t] <= Len(queue[s]) /\ (due[t] <= 1 => t \notin job[s].rows)
      BY <2>4 DEF Left, s
    <3>5. due'[t] <= Len(queue'[s]) /\ (due'[t] = 0 => due[t] <= 1)
      BY <1>0, <3>3, <3>4 DEF Less
    <3>6. due'[t] = 0 => t \notin db'
      BY <2>1, <2>3, <2>6, <3>4, <3>5
    <3>7. hydrated[s] /\ t \in issued /\ t \notin sess[s][TRUE]
      BY <2>4 DEF Left, s
    <3> QED
      BY <2>1, <3>2, <3>5, <3>6, <3>7 DEF Left, s
  <2> QED
    BY <2>5, <2>6
<1>10. ASSUME NEW u \in Token, Saves(u)
       PROVE  Left(t)'
  <2> DEFINE x == ScopeOf[u]
  <2>1. /\ x \in Scope /\ hydrated[x] /\ Len(queue'[x]) = Len(queue[x]) + 1
        /\ UNCHANGED <<hydrated, job, db>> /\ issued \subseteq issued'
        /\ sess'[x][TRUE] \subseteq sess[x][TRUE] \cup (issued' \ issued)
        /\ ~Create(u) => u \notin sess'[x][TRUE]
        /\ \A y \in Scope : y # x => sess'[y] = sess[y] /\ queue'[y] = queue[y]
    BY <1>0, <1>10, SaveFacts
  <2>2. due'[t] = due[t] \/ (Revoke(u) /\ t = u /\ due'[t] = Len(queue'[x]))
    BY <1>10 DEF Saves, Create, ResolveExpired, Revoke, GatewayLogout, Base, Types, TypeOK
  <2>3. Len(queue[x]) \in Nat /\ (Len(queue[x]) = 0 => ~job[x].on)
    BY <2>1, LenFacts
  <2> HIDE DEF x
  <2>4. CASE due'[t] = due[t]
    <3>1. Len(queue'[s]) \in Nat /\ Len(queue[s]) <= Len(queue'[s])
      BY <1>0, <2>1, <2>3
    <3>2. t \notin sess'[s][TRUE]
      BY <1>0, <1>1, <2>1, <2>4 DEF Left, s
    <3> QED
      BY <1>1, <1>2, <2>1, <2>4, <3>1, <3>2 DEF Left, s
  <2>5. CASE Revoke(u) /\ t = u /\ due'[t] = Len(queue'[x])
    <3>1. s = x /\ t \in issued /\ t \notin sess'[x][TRUE]
      BY <2>1, <2>5 DEF Revoke, Create, s, x
    <3>2. due'[t] <= 1 => t \notin job[x].rows
      <4>1. due'[t] <= 1 => ~job[x].on
        BY <2>1, <2>3, <2>5
      <4> QED
        BY <2>1, <4>1 DEF Base, Fit, Owned
    <3>3. due'[t] # 0 /\ due'[t] <= Len(queue'[x])
      BY <2>1, <2>3, <2>5
    <3> QED
      BY <2>1, <3>1, <3>2, <3>3 DEF Left, s
  <2> QED
    BY <2>2, <2>4, <2>5
<1>11. ASSUME NEW u \in Token, Answer(u) \/ Expire(u) \/ TtlDelete(u)
       PROVE  Left(t)'
  <2>1. /\ UNCHANGED <<hydrated, sess, queue, job, issued>> /\ db' \subseteq db
        /\ due' \in {due, [due EXCEPT ![u] = NotDue]}
    BY <1>11 DEF Answer, Expire, TtlDelete, store, mirror, history
  <2>2. due'[t] = due[t]
    BY <2>1 DEF Base, Types, TypeOK
  <2> QED
    BY <1>0, <1>1, <1>2, <2>1, <2>2 DEF Left, s
<1>12. CASE UNCHANGED vars
  BY <1>5, <1>12 DEF vars, store, mirror, history
<1>13. \A x \in Scope : ~CommitFail(x)
  BY DEF CommitFail, OnlyCrash
<1> QED
  BY <1>3, <1>4, <1>6, <1>7, <1>8, <1>9, <1>10, <1>11, <1>12, <1>13 DEF Next, Mirror, Saves

LEMMA AnswerFacts ==
  ASSUME OnlyCrash, Base, Leaving, NEW t \in Token, Answer(t)
  PROVE  t \in issued /\ t \notin Alive /\ Alive' = Alive /\ UNCHANGED issued
<1>1. due[t] = 0 /\ due[t] # NotDue /\ UNCHANGED <<hydrated, loading, sess, job, db, issued>>
  BY DEF Answer, NotDue, store, mirror
<1>2. Left(t)
  BY <1>1 DEF Leaving
<1>3. t \in issued /\ t \notin db
  BY <1>1, <1>2 DEF Left
<1>4. ASSUME NEW x \in Scope
      PROVE  t \notin Rows(x)
  <2>1. CASE x = ScopeOf[t]
    <3>1. hydrated[x] /\ t \notin sess[x][TRUE] /\ t \notin job[x].rows
      <4>1. hydrated[x] /\ t \notin sess[x][TRUE]
        BY <1>2, <2>1 DEF Left
      <4>2. due[t] <= 1 => t \notin job[x].rows
        BY <1>2, <2>1 DEF Left
      <4>3. due[t] <= 1
        BY <1>1
      <4> QED
        BY <4>1, <4>2, <4>3
    <3>2. loading[x].rows = {}
      BY <3>1 DEF Base, Fit, Phase, Owned
    <3> QED
      BY <3>1, <3>2 DEF Rows
  <2>2. CASE x # ScopeOf[t]
    BY <2>2 DEF Base, Fit, Owned, Of, Rows
  <2> QED
    BY <2>1, <2>2
<1>5. t \notin Alive
  BY <1>3, <1>4, AliveRows
<1>6. Alive' = Alive
  BY <1>1 DEF Alive
<1> QED
  BY <1>1, <1>3, <1>5, <1>6

(* The answered logouts, and the steps of the contract.                    *)
LEMMA StepFacts ==
  ASSUME OnlyCrash, Base, Leaving, [Next]_vars
  PROVE  \/ /\ Alive' \subseteq Alive /\ UNCHANGED <<issued, answered>>
         \/ \E t \in Token : /\ t \notin issued /\ issued' = issued \cup {t}
                             /\ Alive' \subseteq Alive \cup {t} /\ answered' = answered
         \/ \E t \in Token : /\ t \in issued \ Alive /\ Alive' = Alive
                             /\ answered' = answered \cup {t} /\ UNCHANGED issued
<1>1. Alive' \subseteq Alive \cup (issued' \ issued)
  BY AliveShrinks DEF OnlyCrash, NoEarly
<1>2. ASSUME NEW t \in Token, Answer(t)
      PROVE  /\ t \in issued \ Alive /\ Alive' = Alive
             /\ answered' = answered \cup {t} /\ UNCHANGED issued
  BY <1>2, AnswerFacts DEF Answer
<1>3. ASSUME NEW t \in Token, Create(t)
      PROVE  /\ t \notin issued /\ issued' = issued \cup {t}
             /\ Alive' \subseteq Alive \cup {t} /\ answered' = answered
  BY <1>1, <1>3 DEF Create
<1>4. \/ \E t \in Token : Answer(t) \/ Create(t) \/ GatewayLogout(t)
      \/ UNCHANGED <<issued, answered>>
  BY DEF Next, vars, Boot, Crash, Exit, Gone, Terminate, HydrateRead, HydrateSet, Mirror,
         Snapshot, Commit, CommitFail, ResolveExpired, Revoke, Expire, TtlDelete, history
<1>5. \A t \in Token : ~GatewayLogout(t)
  BY DEF GatewayLogout, OnlyCrash
<1>6. ASSUME UNCHANGED <<issued, answered>>
      PROVE  Alive' \subseteq Alive
  BY <1>1, <1>6
<1> QED
  BY <1>2, <1>3, <1>4, <1>5, <1>6

LEMMA LeavingKeeps ==
  ASSUME OnlyCrash, Base, Leaving, [Next]_vars
  PROVE  Leaving'
<1>1. answered' \subseteq issued' /\ answered' \cap Alive' = {}
  BY StepFacts DEF Leaving
<1> QED
  BY <1>1, LeaveKeeps DEF Leaving

LEMMA LeavingInit == Init => Leaving
  BY DEF Init, Leaving, NotDue

(* What is promised of login sessions is kept when crashes are the only    *)
(* faults: dropped sessions stay dropped, and a logout is answered only    *)
(* when its session is gone from memory, from the database and from every  *)
(* write still under way.                                                  *)
THEOREM Implements ==
  ASSUME Faults \subseteq {"crash"}
  PROVE  Spec => Refines
<1> USE DEF OnlyCrash
<1>1. Init => Contract!Init
  <2> SUFFICES ASSUME Init PROVE Contract!Init
    OBVIOUS
  <2>1. \A s \in Scope : Rows(s) = {}
    BY DEF Init, Rows, NotRead, NoJob
  <2>2. Alive = db
    BY <2>1, AliveRows
  <2> QED
    BY <2>2, ScopeAssumption DEF Init, Contract!Init
<1>2. Base /\ Leaving /\ [Next]_vars => [Contract!Next]_Contract!vars
  <2> SUFFICES ASSUME Base, Leaving, [Next]_vars PROVE Contract!Next
    OBVIOUS
  <2>1. CASE Alive' \subseteq Alive /\ UNCHANGED <<issued, answered>>
    BY <2>1 DEF Contract!Next, Contract!Drop
  <2>2. ASSUME NEW t \in Token, t \notin issued, issued' = issued \cup {t},
               Alive' \subseteq Alive \cup {t}, answered' = answered
        PROVE  Contract!Next
    BY <2>2 DEF Contract!Next, Contract!Issue
  <2>3. ASSUME NEW t \in Token, t \in issued \ Alive, Alive' = Alive,
               answered' = answered \cup {t}, UNCHANGED issued
        PROVE  Contract!Next
    BY <2>3 DEF Contract!Next, Contract!Answer
  <2> QED
    BY <2>1, <2>2, <2>3, StepFacts
<1>3. Base /\ Leaving /\ [Next]_vars => Base' /\ Leaving'
  BY BaseKeeps, LeavingKeeps DEF NoEarly
<1> QED
  BY <1>1, <1>2, <1>3, BaseInit, LeavingInit, PTL DEF Spec, Refines, Contract!Spec

(* A session whose logout was answered is never honoured again, when       *)
(* crashes are the only faults; the run sessions_confirmed shows one that  *)
(* is, with other faults.                                                  *)
THEOREM StaysOut ==
  ASSUME Faults \subseteq {"crash"}
  PROVE  Spec => []LoggedOutStaysOut
<1> USE DEF OnlyCrash
<1>1. ASSUME Base, Leaving
      PROVE  LoggedOutStaysOut
  <2> SUFFICES ASSUME NEW s \in Scope, Serves(s), NEW t \in answered \cap Current(s)
               PROVE  t \in expired
    BY DEF LoggedOutStaysOut
  <2>1. hydrated[s] = TRUE
    BY <1>1 DEF Serves, Base, Types, TypeOK
  <2>2. t \in Rows(s)
    BY <2>1 DEF Current, Rows
  <2>3. t \in Alive
    BY <2>2, AliveRows
  <2> QED
    BY <1>1, <2>3 DEF Leaving
<1>2. Base /\ Leaving /\ [Next]_vars => Base' /\ Leaving'
  BY BaseKeeps, LeavingKeeps DEF NoEarly
<1> QED
  BY <1>1, <1>2, BaseInit, LeavingInit, PTL DEF Spec
=============================================================================
