---------------------------- MODULE RequestsProofs ---------------------------
(***************************************************************************)
(* The safety of the parts that serve requests, each for any values of its *)
(* constants: the gateway's login, the skill market, the images, the pages *)
(* of the tenant and the administrators and the configuration of a         *)
(* tenant's models.  The parts share no state, so that each has invariants *)
(* of its own, which hold where MCRequests runs this part; what gives the  *)
(* parts their types is in the end.                                        *)
(*                                                                         *)
(* The gateway, for any number of requests, hosts and starts of the        *)
(* container.  The argument: an activation is owned by the request that    *)
(* began it, which waits for it and for nothing else as long as it is      *)
(* under way; so its host stands still, whatever the caches lose           *)
(* meanwhile, and all who joined it are answered when it ends.  A retried  *)
(* page always begins an activation of its own, which asks the container   *)
(* after the refusal: its cookie is of the key that refused it, or of a    *)
(* later one.                                                              *)
(***************************************************************************)
EXTENDS MCRequests, FiniteSetTheorems, SequenceTheorems, TLAPS

ReqPcs == {"idle", "wait", "forward", "401"}
ActPcs == {"idle", "tail", "started", "activate", "cookie", "restart", "again"}

Box == [gen : Nat, key : Nat, line : {"none", "tail", "rolled"},
        need : Need, open : BOOLEAN]
Launch == [started : Nat, token : Nat]
Entry == [cookie : Nat, by : Req \cup {NoReq}]
Activation == [pc : ActPcs, token : Nat]
Request == [pc : ReqPcs, kind : Kind, host : Host \cup {NoReq}, on : Req \cup {NoReq},
            cookie : Nat, retried : BOOLEAN, seen : Nat]

Types == /\ box \in Box /\ launch \in Launch /\ throttle \in BOOLEAN
         /\ jar \in [Host -> Entry] /\ act \in [Req -> Activation]
         /\ req \in [Req -> Request] /\ recovered \in Nat

(* Nothing is newer than the container.                                    *)
Bounds == /\ 1 <= box.key /\ box.key <= box.gen /\ box.gen <= MaxGen
          /\ launch.started <= box.gen /\ launch.token <= launch.started
          /\ \A h \in Host : jar[h].cookie <= box.key
          /\ \A p \in Req : /\ req[p].cookie <= box.key /\ req[p].seen <= box.key
                            /\ act[p].token <= box.gen
                            /\ act[p].pc = "cookie" => act[p].token <= box.key

(* A request that waits, and the activation it waits for; the requests of  *)
(* other activations, and what the cookie cache says of them.              *)
Running(q) == q \in Req /\ act[q].pc # "idle"
Waits(p) == /\ req[p].host \in Host
            /\ Running(req[p].on) /\ req[req[p].on].host = req[p].host
Paired == /\ \A p \in Req : req[p].pc = "wait" <=> req[p].on # NoReq
          /\ \A p \in Req : req[p].pc = "forward" => req[p].host \in Host
          /\ \A p \in Req : req[p].pc = "wait" => Waits(p)
          /\ \A p \in Req : Running(p) => req[p].on = p
          /\ \A h \in Host : LET q == jar[h].by IN
               q # NoReq => Running(q) /\ req[q].host = h

(* At most one recovery in the window of the throttle.                     *)
Spaced == /\ recovered <= 1
          /\ recovered = 1 => throttle
          /\ \A p \in Req : act[p].pc = "restart" => throttle /\ recovered = 0
          /\ \A p, q \in Req : act[p].pc = "restart" /\ act[q].pc = "restart" => p = q

(* What a retried page has, or is going to get.                            *)
Renewed(p) ==
  CASE req[p].pc = "wait" -> /\ req[p].on = p
                             /\ act[p].pc = "cookie" /\ act[p].token # 0
                                  => req[p].seen <= act[p].token
    [] req[p].pc = "forward" -> req[p].seen <= req[p].cookie
    [] OTHER -> TRUE
Healing == \A p \in Req : /\ req[p].retried => req[p].kind = "page" /\ Renewed(p)
                          /\ ~req[p].retried => req[p].seen = 0
                          /\ req[p].pc = "401" => req[p].seen < box.key

IInv == Types /\ Bounds /\ Paired /\ Spaced /\ Healing

-----------------------------------------------------------------------------
(* The step of a request that asks the cache j: it is not waiting and has  *)
(* no activation under way, so that nobody waits for it.                   *)
LEMMA AskKeeps ==
  ASSUME IInv, NEW p \in Req, NEW t \in Request, NEW j, j \in {jar, NoJar},
         req[p].pc \in {"idle", "forward"}, act[p].pc = "idle",
         t.host \in Host, t.on = NoReq, t.cookie = 0, t.seen <= box.key,
         t.retried => t.kind = "page" /\ j = NoJar, ~t.retried => t.seen = 0,
         Ask(p, t, j), UNCHANGED <<box, launch, throttle, recovered>>
  PROVE  IInv'
<1> DEFINE e == j[t.host]
<1> USE DEF IInv
<1>1. e \in Entry /\ e.cookie <= box.key /\ j \in [Host -> Entry]
  BY DEF Types, Bounds, Entry, NoJar, NoEntry, Box
<1>2. /\ e.by # NoReq => e.by # p /\ Running(e.by) /\ req[e.by].host = t.host
      /\ \A h \in Host : j[h].by # NoReq =>
           /\ j[h].by # p /\ Running(j[h].by) /\ req[j[h].by].host = h
  BY DEF Paired, Running, NoJar, NoEntry
<1>3. \A q \in Req : req[q].pc = "wait" => req[q].on # p /\ q # p
  BY DEF Paired, Waits, Running
<1> DEFINE Asked(u) ==
           /\ req' = [req EXCEPT ![p] = u]
           /\ u.host = t.host /\ u.kind = t.kind /\ u.retried = t.retried /\ u.seen = t.seen
           /\ \/ /\ u.pc = "forward" /\ u.cookie = e.cookie /\ u.on = NoReq
                 /\ e.cookie # 0 /\ jar' = j /\ act' = act
              \/ /\ u.pc = "wait" /\ u.on = e.by /\ u.cookie = 0
                 /\ e.by # NoReq /\ jar' = j /\ act' = act
              \/ /\ u.pc = "wait" /\ u.on = p /\ u.cookie = 0
                 /\ act' = [act EXCEPT ![p] = [pc |-> "tail", token |-> 0]]
                 /\ jar' = [j EXCEPT ![t.host] = [cookie |-> 0, by |-> p]]
<1>4. \E u \in Request : Asked(u)
  <2>1. CASE e.cookie # 0 /\ req' = [req EXCEPT ![p] = [t EXCEPT !.pc = "forward", !.cookie = e.cookie]]
             /\ jar' = j /\ act' = act
    <3> DEFINE u == [t EXCEPT !.pc = "forward", !.cookie = e.cookie]
    <3>1. /\ u \in Request /\ u.host = t.host /\ u.kind = t.kind /\ u.retried = t.retried
          /\ u.seen = t.seen /\ u.pc = "forward" /\ u.cookie = e.cookie /\ u.on = NoReq
      BY <1>1 DEF Request, ReqPcs, Entry
    <3> QED BY <2>1, <3>1
  <2>2. CASE e.by # NoReq /\ req' = [req EXCEPT ![p] = [t EXCEPT !.pc = "wait", !.on = e.by]]
             /\ jar' = j /\ act' = act
    <3> DEFINE u == [t EXCEPT !.pc = "wait", !.on = e.by]
    <3>1. /\ u \in Request /\ u.host = t.host /\ u.kind = t.kind /\ u.retried = t.retried
          /\ u.seen = t.seen /\ u.pc = "wait" /\ u.cookie = 0 /\ u.on = e.by
      BY <1>1 DEF Request, ReqPcs, Entry
    <3> QED BY <2>2, <3>1
  <2>3. CASE req' = [req EXCEPT ![p] = [t EXCEPT !.pc = "wait", !.on = p]]
             /\ act' = [act EXCEPT ![p] = [pc |-> "tail", token |-> 0]]
             /\ jar' = [j EXCEPT ![t.host] = [cookie |-> 0, by |-> p]]
    <3> DEFINE u == [t EXCEPT !.pc = "wait", !.on = p]
    <3>1. /\ u \in Request /\ u.host = t.host /\ u.kind = t.kind /\ u.retried = t.retried
          /\ u.seen = t.seen /\ u.pc = "wait" /\ u.cookie = 0 /\ u.on = p
      BY DEF Request, ReqPcs
    <3> QED BY <2>3, <3>1
  <2> QED
    BY <2>1, <2>2, <2>3 DEF Ask
<1>5. PICK u \in Request : Asked(u)
  BY <1>4
<1>6. /\ req' \in [Req -> Request] /\ req'[p] = u
      /\ \A q \in Req : q # p => req'[q] = req[q]
  BY <1>5 DEF Types
<1>7. /\ act' \in [Req -> Activation] /\ \A q \in Req : q # p => act'[q] = act[q]
      /\ act'[p].pc \in {"idle", "tail"} /\ act'[p].token <= box.gen
      /\ act'[p].pc # "idle" <=> u.on = p
  <2>1. /\ act \in [Req -> Activation] /\ act[p].token <= box.gen /\ box.gen \in Nat
        /\ p # NoReq /\ act[p].pc = "idle"
    BY NoReqAssumption DEF Types, Bounds, Box
  <2>2. CASE act' = act /\ u.on # p
    BY <2>1, <2>2
  <2>3. CASE act' = [act EXCEPT ![p] = [pc |-> "tail", token |-> 0]] /\ u.on = p
    <3>1. [pc |-> "tail", token |-> 0] \in Activation
      BY DEF Activation, ActPcs
    <3> QED
      BY <2>1, <2>3, <3>1
  <2> QED
    BY <1>2, <1>5, <2>1, <2>2, <2>3
<1>8. /\ jar' \in [Host -> Entry]
      /\ \A h \in Host : \/ jar'[h] = j[h]
                         \/ jar'[h].cookie = 0 /\ jar'[h].by = p /\ h = t.host /\ u.on = p
  <2> [cookie |-> 0, by |-> p] \in Entry
    BY DEF Entry
  <2> QED
    BY <1>1, <1>5
<1>9. /\ \A h \in Host : j[h].cookie <= box.key
      /\ u.cookie <= box.key /\ u.seen <= box.key
  BY <1>1, <1>5 DEF Bounds, NoJar, NoEntry, Types, Box
<1>10. Types'
  BY <1>6, <1>7, <1>8 DEF Types
<1>11. Bounds'
  <2>1. \A h \in Host : jar'[h].cookie <= box.key
    BY <1>8, <1>9 DEF Bounds, Types, Box
  <2>2. ASSUME NEW q \in Req
        PROVE  req'[q].cookie <= box.key /\ req'[q].seen <= box.key
    BY <1>6, <1>9 DEF Bounds
  <2>3. ASSUME NEW q \in Req
        PROVE  act'[q].token <= box.gen /\ (act'[q].pc = "cookie" => act'[q].token <= box.key)
    BY <1>7 DEF Bounds
  <2> QED
    BY <2>1, <2>2, <2>3 DEF Bounds
<1>12. Paired'
  BY <1>2, <1>3, <1>5, <1>6, <1>7, <1>8, NoReqAssumption DEF Types, Paired, Waits, Running
<1>13. Spaced'
  BY <1>6, <1>7 DEF Types, Spaced
<1>14. Healing'
  BY <1>3, <1>5, <1>6, <1>7 DEF Types, Healing, Renewed, NoJar, NoEntry
<1> QED
  BY <1>10, <1>11, <1>12, <1>13, <1>14

(* An activation ends, whatever its entry is by now.                       *)
LEMMA FinishKeeps ==
  ASSUME IInv, NEW p \in Req, act[p].pc # "idle", NEW c \in Nat,
         c = 0 \/ (act[p].pc = "cookie" /\ c = act[p].token),
         Finish(p, c), UNCHANGED <<box, launch, throttle, recovered>>
  PROVE  IInv'
<1> USE DEF IInv
<1>1. req[p].host \in Host /\ req[p].on = p /\ req[p].pc = "wait"
  BY NoReqAssumption DEF Paired, Waits, Running
<1>2. /\ act' \in [Req -> Activation] /\ act'[p] = NoAct
      /\ \A q \in Req : q # p => act'[q] = act[q]
  <2> NoAct \in Activation
    BY DEF NoAct, Activation, ActPcs
  <2> QED
    BY DEF Finish, Types
<1>3. /\ jar' \in [Host -> Entry] /\ jar'[req[p].host] = [cookie |-> c, by |-> NoReq]
      /\ \A h \in Host : h # req[p].host => jar'[h] = jar[h]
  <2> [cookie |-> c, by |-> NoReq] \in Entry
    BY DEF Entry
  <2> QED
    BY <1>1 DEF Finish, Types
<1>4. ASSUME NEW q \in Req
      PROVE  /\ req'[q] \in Request /\ req'[q].cookie <= box.key /\ req'[q].seen <= box.key
             /\ \/ req'[q] = req[q] /\ req[q].on # p
                \/ req'[q] = IdleReq /\ req[q].on = p
                \/ /\ req[q].pc = "wait" /\ req[q].on = p /\ (c # 0 \/ req[q].kind = "rpc")
                   /\ req'[q].pc = "forward" /\ req'[q].on = NoReq /\ req'[q].cookie = c
                   /\ req'[q].kind = req[q].kind /\ req'[q].host = req[q].host
                   /\ req'[q].retried = req[q].retried /\ req'[q].seen = req[q].seen
  <2>1. IdleReq \in Request /\ IdleReq.cookie = 0 /\ IdleReq.seen = 0
    BY DEF IdleReq, Request, ReqPcs, Kind
  <2>2. c <= box.key /\ req[q] \in Request /\ req[q].cookie <= box.key /\ req[q].seen <= box.key
    BY DEF Types, Bounds, Box
  <2>3. CASE req[q].pc # "wait" \/ req[q].on # p
    <3>1. req'[q] = req[q]
      BY <2>3 DEF Finish
    <3>2. req[q].on # p
      BY <2>3, NoReqAssumption DEF Paired
    <3> QED
      BY <2>2, <3>1, <3>2
  <2>4. CASE req[q].pc = "wait" /\ req[q].on = p /\ c = 0 /\ req[q].kind # "rpc"
    <3>1. req'[q] = IdleReq
      BY <2>4 DEF Finish
    <3> QED
      BY <2>1, <2>4, <3>1 DEF Types, Bounds, Box
  <2>5. CASE req[q].pc = "wait" /\ req[q].on = p /\ (c # 0 \/ req[q].kind = "rpc")
    <3>1. req'[q] = [req[q] EXCEPT !.on = NoReq, !.cookie = c, !.pc = "forward"]
      BY <2>5 DEF Finish
    <3> QED
      BY <2>2, <2>5, <3>1 DEF Request, ReqPcs
  <2> QED
    BY <2>3, <2>4, <2>5
<1>5. Types'
  BY <1>2, <1>3, <1>4 DEF Types, Finish
<1>6. Bounds'
  <2>1. \A h \in Host : jar'[h].cookie <= box.key
    BY <1>1, <1>3 DEF Types, Bounds, Box
  <2>2. ASSUME NEW q \in Req
        PROVE  act'[q].token <= box.gen /\ (act'[q].pc = "cookie" => act'[q].token <= box.key)
    BY <1>2 DEF Types, Bounds, Box, NoAct
  <2> QED
    BY <1>4, <2>1, <2>2 DEF Bounds
<1>7. Paired'
  <2>1. IdleReq.pc = "idle" /\ IdleReq.on = NoReq /\ NoAct.pc = "idle"
    BY DEF IdleReq, NoAct
  <2>2. \A q \in Req : q # p /\ Running(q) => req'[q] = req[q] /\ act'[q] = act[q]
    BY <1>2, <1>4 DEF Paired
  <2>3. ASSUME NEW h \in Host, jar'[h].by # NoReq
        PROVE  (Running(jar[h].by) /\ req[jar[h].by].host = h)'
    <3>1. h # req[p].host /\ jar'[h] = jar[h]
      BY <1>3, <2>3
    <3>2. Running(jar[h].by) /\ req[jar[h].by].host = h
      BY <2>3, <3>1 DEF Paired
    <3> QED
      BY <2>2, <3>1, <3>2 DEF Running
  <2>4. ASSUME NEW q \in Req
        PROVE  /\ req'[q].pc = "wait" <=> req'[q].on # NoReq
               /\ req'[q].pc = "forward" => req'[q].host \in Host
               /\ req'[q].pc = "wait" => Waits(q)'
    <3>1. CASE req'[q] = req[q] /\ req[q].on # p
      <4>1. req[q].pc = "wait" => /\ req[q].on \in Req /\ req'[req[q].on] = req[req[q].on]
                                 /\ Running(req[q].on)'
        BY <3>1, <1>2, <2>2 DEF Paired, Waits, Running
      <4> QED
        BY <3>1, <4>1 DEF Paired, Waits
    <3>2. CASE req'[q] = IdleReq
      BY <3>2, <2>1
    <3>3. CASE req[q].pc = "wait" /\ req'[q].pc = "forward" /\ req'[q].on = NoReq
               /\ req'[q].host = req[q].host
      BY <3>3 DEF Paired, Waits
    <3> QED
      BY <1>4, <3>1, <3>2, <3>3
  <2>5. ASSUME NEW q \in Req, Running(q)'
        PROVE  req'[q].on = q
    <3>1. q # p /\ Running(q)
      BY <1>2, <2>1, <2>5 DEF Running
    <3> QED
      BY <2>2, <3>1 DEF Paired
  <2> QED
    BY <2>3, <2>4, <2>5 DEF Paired
<1>8. Spaced'
  BY <1>2 DEF Types, Spaced, NoAct
<1>9. Healing'
  <2>1. ~IdleReq.retried /\ IdleReq.seen = 0 /\ IdleReq.pc = "idle"
    BY DEF IdleReq
  <2> QED
    BY <1>1, <1>2, <1>4, <2>1 DEF Types, Healing, Renewed, Box, Bounds, Request
<1> QED
  BY <1>5, <1>6, <1>7, <1>8, <1>9

(* An activation goes on.                                                  *)
LEMMA GotoKeeps ==
  ASSUME IInv, NEW p \in Req, act[p].pc # "idle", NEW l \in ActPcs \ {"idle", "restart"},
         NEW k \in Nat, k <= box.gen, l = "cookie" => k \in {0, box.key},
         Goto(p, l, k), launch' \in Launch, launch'.started <= box.gen,
         launch'.token <= launch'.started, UNCHANGED <<box, throttle, jar, req, recovered>>
  PROVE  IInv'
<1> USE DEF IInv
<1>1. /\ act' \in [Req -> Activation] /\ act'[p] = [pc |-> l, token |-> k]
      /\ \A q \in Req : q # p => act'[q] = act[q]
  <2> [pc |-> l, token |-> k] \in Activation
    BY DEF Activation
  <2> QED
    BY DEF Goto, Types
<1>2. Types' /\ Spaced'
  BY <1>1 DEF Types, Spaced
<1>3. Bounds'
  BY <1>1 DEF Bounds, Types, Box
<1>4. Paired'
  BY <1>1 DEF Paired, Waits, Running
<1>5. Healing'
  BY <1>1 DEF Healing, Renewed, Bounds, Types, Box
<1> QED
  BY <1>2, <1>3, <1>4, <1>5

(* The container changes, and the cookies are perhaps forgotten.           *)
LEMMA BoxKeeps ==
  ASSUME IInv, box' \in Box, box.key <= box'.key, box.gen <= box'.gen,
         box'.key <= box'.gen, box'.gen <= MaxGen, jar' \in {jar, NoJar},
         UNCHANGED <<launch, throttle, act, req, recovered>>
  PROVE  IInv'
<1> USE DEF IInv
<1>1. NoJar \in [Host -> Entry] /\ \A h \in Host : NoJar[h] = [cookie |-> 0, by |-> NoReq]
  BY DEF NoJar, NoEntry, Entry
<1>2. Types' /\ Spaced'
  BY <1>1 DEF Types, Spaced
<1>3. Bounds'
  BY <1>1, GenAssumption DEF Types, Bounds, Box, Launch, Entry, Request, Activation
<1>4. Paired'
  BY <1>1 DEF Paired, Waits, Running
<1>5. Healing'
  BY DEF Healing, Renewed, Types, Box, Request
<1> QED
  BY <1>2, <1>3, <1>4, <1>5

(* No request, no activation, nothing remembered.                          *)
Empty == /\ box \in Box /\ 1 <= box.key /\ box.key <= box.gen /\ box.gen <= MaxGen
         /\ launch = [started |-> 0, token |-> 0] /\ throttle = FALSE /\ jar = NoJar
         /\ act = [p \in Req |-> NoAct] /\ req = [p \in Req |-> IdleReq]
         /\ recovered = 0

LEMMA EmptyInv == Empty => IInv
<1> SUFFICES ASSUME Empty
             PROVE  IInv
  OBVIOUS
<1> USE DEF Empty
<1>1. /\ NoJar \in [Host -> Entry] /\ \A h \in Host : NoJar[h].cookie = 0 /\ NoJar[h].by = NoReq
      /\ NoAct \in Activation /\ NoAct.pc = "idle" /\ NoAct.token = 0
  BY DEF NoJar, NoEntry, Entry, NoAct, Activation, ActPcs
<1>2. /\ IdleReq \in Request /\ IdleReq.pc = "idle" /\ IdleReq.on = NoReq /\ IdleReq.cookie = 0
      /\ IdleReq.seen = 0 /\ ~IdleReq.retried
  BY DEF IdleReq, Request, ReqPcs, Kind
<1>3. Types
  BY <1>1, <1>2 DEF Types, Launch
<1>4. Bounds
  BY <1>1, <1>2 DEF Bounds, Box
<1>5. Paired
  BY <1>1, <1>2 DEF Paired, Running
<1>6. Spaced /\ Healing
  BY <1>1, <1>2 DEF Spaced, Healing, Box
<1> QED
  BY <1>3, <1>4, <1>5, <1>6 DEF IInv

LEMMA StutterKeeps ==
  ASSUME IInv, UNCHANGED vars
  PROVE  IInv'
  BY DEF IInv, vars, Types, Bounds, Paired, Waits, Running, Spaced, Healing, Renewed

(* A request without an activation leaves, or goes to the container.       *)
LEMMA LeaveKeeps ==
  ASSUME IInv, NEW p \in Req, req[p].pc # "wait", NEW u \in Request,
         req' = [req EXCEPT ![p] = u], u.pc # "wait", u.on = NoReq, u.cookie = 0,
         u.pc = "forward" => u.host \in Host /\ ~u.retried, u.seen <= box.key, u.retried => u.kind = "page",
         ~u.retried => u.seen = 0, u.pc = "401" => u.seen < box.key,
         UNCHANGED <<box, launch, throttle, jar, act, recovered>>
  PROVE  IInv'
<1> USE DEF IInv
<1>1. /\ req' \in [Req -> Request] /\ req'[p] = u
      /\ \A q \in Req : q # p => req'[q] = req[q]
  BY DEF Types
<1>2. Types' /\ Spaced' /\ Bounds'
  BY <1>1 DEF Types, Spaced, Bounds, Box
<1>3. \A q \in Req : Running(q) => q # p
  BY NoReqAssumption DEF Paired, Running
<1>4. Paired'
  BY <1>1, <1>3 DEF Paired, Waits, Running
<1>5. Healing'
  BY <1>1 DEF Healing, Renewed
<1> QED
  BY <1>2, <1>4, <1>5

-----------------------------------------------------------------------------
(* The actions, one step of the proof for each.                            *)

LEMMA ArriveKeeps ==
  ASSUME IInv, NEW p \in Req, NEW h \in Host, Arrive(p, h) \/ Check(p, h)
  PROVE  IInv'
<1> USE DEF IInv
<1>1. /\ IdleReq \in Request /\ IdleReq.pc = "idle" /\ IdleReq.on = NoReq /\ IdleReq.cookie = 0
      /\ IdleReq.seen = 0 /\ ~IdleReq.retried
  BY DEF IdleReq, Request, ReqPcs, Kind
<1>2. req[p] \in Request /\ box.key \in Nat /\ 1 <= box.key
  BY DEF Types, Box, Bounds
<1>3. ASSUME NEW k \in Kind, req[p].pc = "idle", act[p].pc = "idle",
             NEW t, t = [IdleReq EXCEPT !.kind = k, !.host = h] \/ t = [IdleReq EXCEPT !.host = h],
             \/ Ask(p, t, jar)
             \/ req' = [req EXCEPT ![p] = [t EXCEPT !.pc = "forward"]] /\ UNCHANGED <<jar, act>>
             \/ UNCHANGED <<req, jar, act>>,
             UNCHANGED <<box, launch, throttle, recovered>>
      PROVE  IInv'
  <2>1. /\ t \in Request /\ t.host = h /\ t.on = NoReq /\ t.cookie = 0 /\ t.seen = 0
        /\ ~t.retried
    BY <1>1, <1>3 DEF Request
  <2>2. CASE Ask(p, t, jar)
    <3>1. /\ req[p].pc \in {"idle", "forward"} /\ act[p].pc = "idle" /\ jar \in {jar, NoJar}
          /\ t.host \in Host /\ t.seen <= box.key
      BY <1>2, <1>3, <2>1
    <3> QED
      BY <1>3, <2>1, <2>2, <3>1, AskKeeps
  <2>3. CASE req' = [req EXCEPT ![p] = [t EXCEPT !.pc = "forward"]] /\ UNCHANGED <<jar, act>>
    <3> DEFINE u == [t EXCEPT !.pc = "forward"]
    <3>1. /\ u \in Request /\ u.pc = "forward" /\ u.host = h /\ u.on = NoReq
          /\ u.cookie = 0 /\ u.seen = 0 /\ ~u.retried
      BY <2>1 DEF Request, ReqPcs
    <3>2. req' = [req EXCEPT ![p] = u] /\ req[p].pc # "wait" /\ u.pc # "wait" /\ u.pc # "401"
          /\ u.seen <= box.key
      BY <1>2, <1>3, <2>3, <3>1
    <3> HIDE DEF u
    <3> QED
      BY <1>3, <2>3, <3>1, <3>2, LeaveKeeps
  <2>4. CASE UNCHANGED <<req, jar, act>>
    BY <1>3, <2>4, StutterKeeps DEF vars
  <2> QED
    BY <1>3, <2>2, <2>3, <2>4
<1>4. CASE Arrive(p, h)
  BY <1>3, <1>4 DEF Arrive, Kind
<1>5. CASE Check(p, h)
  BY <1>3, <1>5 DEF Check, Kind
<1> QED
  BY <1>4, <1>5

LEMMA RequestKeeps ==
  ASSUME IInv, NEW p \in Req,
         Forwarded(p) \/ Refused(p) \/ PassedOn(p) \/ Retry(p) \/ Done(p)
  PROVE  IInv'
<1> USE DEF IInv
<1>1. /\ IdleReq \in Request /\ IdleReq.pc = "idle" /\ IdleReq.on = NoReq /\ IdleReq.cookie = 0
      /\ IdleReq.seen = 0 /\ ~IdleReq.retried
  BY DEF IdleReq, Request, ReqPcs, Kind
<1>2. req[p] \in Request /\ box.key \in Nat /\ 1 <= box.key
  BY DEF Types, Box, Bounds
<1>3. ASSUME req[p].pc # "wait", req' = [req EXCEPT ![p] = IdleReq],
             UNCHANGED <<box, launch, throttle, jar, act, recovered>>
      PROVE  IInv'
  <2>1. IdleReq.pc # "wait" /\ IdleReq.pc # "forward" /\ IdleReq.pc # "401" /\ IdleReq.seen <= box.key
    BY <1>1, <1>2
  <2> QED
    BY <1>1, <1>3, <2>1, LeaveKeeps
<1>4. CASE Forwarded(p) \/ PassedOn(p) \/ Done(p)
  BY <1>3, <1>4 DEF Forwarded, PassedOn, Done
<1>5. CASE Refused(p)
  <2> DEFINE u == [req[p] EXCEPT !.pc = "401", !.host = NoReq, !.cookie = 0]
  <2>1. /\ req[p].pc = "forward" /\ req[p].on = NoReq /\ req[p].cookie # box.key
        /\ req[p].kind = "page" /\ req[p].seen <= req[p].cookie
        /\ req[p].cookie <= box.key
    BY <1>2, <1>5 DEF Refused, Accepts, Paired, Healing, Renewed, Bounds, Request
  <2>2. /\ u \in Request /\ u.pc = "401" /\ u.on = NoReq /\ u.cookie = 0 /\ u.kind = "page"
        /\ u.seen = req[p].seen /\ u.retried = req[p].retried
    BY <1>2, <2>1 DEF Request, ReqPcs
  <2>3. u.seen < box.key /\ (~u.retried => u.seen = 0)
    BY <1>2, <2>1, <2>2 DEF Request, Healing
  <2>4. req' = [req EXCEPT ![p] = u] /\ UNCHANGED <<box, launch, throttle, jar, act, recovered>>
    BY <1>5 DEF Refused
  <2> HIDE DEF u
  <2>5. u.seen <= box.key
    BY <1>2, <2>2, <2>3 DEF Request
  <2> QED
    BY <2>1, <2>2, <2>3, <2>4, <2>5, LeaveKeeps
<1>6. CASE Retry(p)
  <2> DEFINE t == [req[p] EXCEPT !.retried = TRUE, !.cookie = 0, !.seen = box.key]
  <2>1. /\ req[p].pc = "forward" /\ req[p].kind = "page" /\ req[p].on = NoReq
        /\ req[p].host \in Host /\ act[p].pc = "idle"
    BY <1>6, NoReqAssumption DEF Retry, Repeatable, Paired, Running
  <2>2. /\ t \in Request /\ t.host \in Host /\ t.on = NoReq /\ t.cookie = 0
        /\ t.seen = box.key /\ t.retried /\ t.kind = "page"
    BY <1>2, <2>1 DEF Request
  <2>3. Ask(p, t, NoJar) /\ UNCHANGED <<box, launch, throttle, recovered>>
    BY <1>6 DEF Retry
  <2> HIDE DEF t
  <2> QED
    BY <1>2, <2>1, <2>2, <2>3, AskKeeps
<1> QED
  BY <1>4, <1>5, <1>6

LEMMA NextStart ==
  ASSUME box \in Box, box.gen < MaxGen
  PROVE  LET b == [box EXCEPT !.gen = @ + 1, !.line = "none"] IN
           b \in Box /\ b.gen = box.gen + 1 /\ b.key = box.key /\ b.gen <= MaxGen
<1> DEFINE g == box.gen + 1
<1>1. g \in Nat /\ g <= MaxGen
  BY GenAssumption DEF Box
<1> HIDE DEF g
<1> DEFINE b == [box EXCEPT !.gen = g, !.line = "none"]
<1>2. b \in Box /\ b.gen = g /\ b.key = box.key
  BY <1>1 DEF Box
<1> QED
  BY <1>1, <1>2 DEF g

LEMMA ActivationKeeps ==
  ASSUME IInv, NEW p \in Req,
         TailRead(p) \/ StartRead(p) \/ Remembered(p) \/ GiveUp(p) \/ Recover(p)
           \/ Restarted(p) \/ RestartFailed(p) \/ TailAgain(p) \/ Activated(p)
           \/ Cookied(p)
  PROVE  IInv'
<1> USE DEF IInv
<1>1. /\ act[p] \in Activation /\ act[p].token <= box.gen /\ box.gen \in Nat /\ box.key \in Nat
      /\ launch \in Launch /\ launch.started <= box.gen /\ launch.token <= launch.started
      /\ launch.started \in Nat /\ launch.token \in Nat /\ act[p].token \in Nat
      /\ box.key <= box.gen
  BY DEF Types, Bounds, Box, Launch, Activation
<1>2. Seen \in Nat /\ Seen <= box.gen
  BY <1>1 DEF Seen
<1>3. CASE TailRead(p)
  BY <1>1, <1>2, <1>3, GotoKeeps DEF TailRead, ActPcs
<1>4. CASE StartRead(p)
  <2>1. launch' \in Launch /\ launch'.started = box.gen /\ launch'.token = act[p].token
    BY <1>1, <1>4 DEF StartRead, Launch
  <2> QED
    BY <1>1, <1>4, <2>1, GotoKeeps DEF StartRead, ActPcs
<1>5. CASE Remembered(p)
  BY <1>1, <1>5, GotoKeeps DEF Remembered, ActPcs
<1>6. CASE GiveUp(p)
  BY <1>6, FinishKeeps DEF GiveUp, Unknown
<1>7. CASE Recover(p)
  <2>1. /\ act' \in [Req -> Activation] /\ act'[p] = [pc |-> "restart", token |-> 0]
        /\ \A q \in Req : q # p => act'[q] = act[q]
    <3> [pc |-> "restart", token |-> 0] \in Activation
      BY DEF Activation, ActPcs
    <3> QED
      BY <1>7 DEF Recover, Goto, Types
  <2>2. Types' /\ Bounds'
    BY <1>1, <1>7, <2>1 DEF Recover, Types, Bounds
  <2>3. Paired'
    BY <1>7, <2>1 DEF Recover, Unknown, Paired, Waits, Running
  <2>4. Spaced'
    BY <1>7, <2>1 DEF Recover, Types, Spaced
  <2>5. Healing'
    BY <1>7, <2>1 DEF Recover, Healing, Renewed
  <2> QED
    BY <2>2, <2>3, <2>4, <2>5
<1>8. CASE Restarted(p)
  <2>1. /\ act' \in [Req -> Activation] /\ act'[p] = [pc |-> "again", token |-> 0]
        /\ \A q \in Req : q # p => act'[q] = act[q]
    <3> [pc |-> "again", token |-> 0] \in Activation
      BY DEF Activation, ActPcs
    <3> QED
      BY <1>8 DEF Restarted, Goto, Types
  <2>2. box' \in Box /\ box'.gen = box.gen + 1 /\ box'.key = box.key /\ box'.gen <= MaxGen
    BY <1>1, <1>8, NextStart DEF Restarted, Types
  <2>3. Types'
    BY <1>8, <2>1, <2>2 DEF Restarted, Types
  <2>4. Bounds'
    BY <1>1, <1>8, <2>1, <2>2 DEF Restarted, Types, Bounds, Activation
  <2>5. Paired'
    BY <1>8, <2>1 DEF Restarted, Paired, Waits, Running
  <2>6. Spaced'
    BY <1>8, <2>1 DEF Restarted, Types, Spaced
  <2>7. Healing'
    BY <1>8, <2>1, <2>2 DEF Restarted, Healing, Renewed
  <2> QED
    BY <2>3, <2>4, <2>5, <2>6, <2>7
<1>9. CASE RestartFailed(p)
  BY <1>9, FinishKeeps DEF RestartFailed
<1>10. CASE TailAgain(p)
  <2>1. CASE Seen # 0 /\ Goto(p, "started", Seen) /\ UNCHANGED <<jar, req>>
    BY <1>1, <1>2, <1>10, <2>1, GotoKeeps DEF TailAgain, ActPcs
  <2>2. CASE Finish(p, 0)
    BY <1>10, <2>2, FinishKeeps DEF TailAgain
  <2> QED
    BY <1>10, <2>1, <2>2 DEF TailAgain
<1>11. CASE Activated(p)
  <2> DEFINE k == IF act[p].token = box.gen /\ box.line # "none" THEN box.key ELSE 0
  <2>1. k \in Nat /\ k \in {0, box.key} /\ k <= box.gen
    BY <1>1
  <2>2. Goto(p, "cookie", k) /\ act[p].pc # "idle"
        /\ UNCHANGED <<box, launch, throttle, jar, req, recovered>>
    BY <1>11 DEF Activated
  <2> HIDE DEF k
  <2> QED
    BY <1>1, <2>1, <2>2, GotoKeeps DEF ActPcs
<1>12. CASE Cookied(p)
  BY <1>1, <1>12, FinishKeeps DEF Cookied
<1> QED
  BY <1>3, <1>4, <1>5, <1>6, <1>7, <1>8, <1>9, <1>10, <1>11, <1>12

LEMMA WorldKeeps ==
  ASSUME IInv,
         Printed \/ Rolled \/ Cooled \/ Reboot \/ Listen \/ Crash
           \/ \E n \in Need, new \in BOOLEAN : Rebuild(n, new)
  PROVE  IInv'
<1> USE DEF IInv
<1>1. /\ box \in Box /\ box.gen \in Nat /\ box.key \in Nat /\ box.key <= box.gen
      /\ box.gen <= MaxGen /\ MaxGen \in Nat
  BY GenAssumption DEF Types, Bounds, Box
<1>2. CASE Printed \/ Rolled
  BY <1>1, <1>2, BoxKeeps DEF Printed, Rolled, Box
<1>3. CASE Reboot
  <2>1. box' \in Box /\ box'.gen = box.gen + 1 /\ box'.key = box.key
    BY <1>1, <1>3, NextStart DEF Reboot
  <2> QED
    BY <1>1, <1>3, <2>1, BoxKeeps DEF Reboot
<1>4. CASE Listen
  <2>1. box' \in Box /\ box'.gen = box.gen /\ box'.key = box.key
    BY <1>1, <1>4 DEF Listen, Box
  <2> QED
    BY <1>1, <1>4, <2>1, BoxKeeps DEF Listen
<1>5. ASSUME NEW n \in Need, NEW new \in BOOLEAN, Rebuild(n, new)
      PROVE  IInv'
  <2>1. box' \in Box /\ box'.gen = box.gen + 1 /\ box'.key \in {box.key, box.key + 1}
    <3> DEFINE k == IF new THEN box.key + 1 ELSE box.key
               b == [box EXCEPT !.gen = @ + 1, !.line = "none"]
    <3>1. b \in Box /\ b.gen = box.gen + 1 /\ b.key = box.key
      <4> box.gen < MaxGen
        BY <1>5 DEF Rebuild
      <4> QED
        BY <1>1, NextStart
    <3>2. k \in Nat /\ k \in {box.key, box.key + 1}
      BY <1>1
    <3>3. box' = [b EXCEPT !.need = n, !.open = FALSE, !.key = k]
      BY <1>1, <1>5 DEF Rebuild, Box
    <3> HIDE DEF k, b
    <3>4. box' \in Box /\ box'.gen = b.gen /\ box'.key = k
      BY <3>1, <3>2, <3>3 DEF Box
    <3> QED
      BY <3>1, <3>2, <3>4
  <2>2. /\ box.key <= box'.key /\ box.gen <= box'.gen /\ box'.key <= box'.gen
        /\ box'.gen <= MaxGen
    <3>1. box.gen < MaxGen
      BY <1>5 DEF Rebuild
    <3> QED
      BY <1>1, <2>1, <3>1
  <2>3. jar' \in {jar, NoJar} /\ UNCHANGED <<launch, throttle, act, req, recovered>>
    BY <1>5 DEF Rebuild
  <2> QED
    BY <2>1, <2>2, <2>3, BoxKeeps
<1>6. CASE Cooled
  <2> USE <1>6 DEF Cooled
  <2>1. Types' /\ Bounds'
    BY DEF Types, Bounds
  <2>2. Paired'
    BY DEF Paired, Waits, Running
  <2>3. Spaced'
    BY DEF Spaced
  <2>4. Healing'
    BY DEF Healing, Renewed
  <2> QED
    BY <2>1, <2>2, <2>3, <2>4
<1>7. CASE Crash
  <2>1. Empty'
    BY <1>1, <1>7 DEF Crash, Empty, Bounds
  <2>2. Empty' => IInv'
    BY EmptyInv, PTL
  <2> QED
    BY <2>1, <2>2
<1> QED
  BY <1>2, <1>3, <1>4, <1>5, <1>6, <1>7

LEMMA InitInv == Init => IInv
<1> SUFFICES ASSUME Init
             PROVE  IInv
  OBVIOUS
<1>1. /\ box \in Box /\ 1 <= box.key /\ box.key <= box.gen /\ box.gen <= MaxGen
      /\ box.key = 1 /\ box.gen = 1
  BY GenAssumption DEF Init, Box, Need
<1> QED
  BY <1>1, EmptyInv DEF Init, Empty

(* IInv is inductive.                                                      *)
LEMMA GatewayKeeps == IInv /\ [Next]_vars => IInv'
<1> SUFFICES ASSUME IInv, [Next]_vars
             PROVE  IInv'
  OBVIOUS
<1>1. ASSUME NEW p \in Req, NEW h \in Host, Arrive(p, h) \/ Check(p, h)
      PROVE  IInv'
  BY <1>1, ArriveKeeps
<1>2. ASSUME NEW p \in Req, Handle(p)
      PROVE  IInv'
  BY <1>2, RequestKeeps, ActivationKeeps DEF Handle
<1>3. CASE UNCHANGED vars
  BY <1>3, StutterKeeps
<1> QED
  BY <1>1, <1>2, <1>3, WorldKeeps DEF Next

LEMMA Inductive == Spec => []IInv
  BY InitInv, GatewayKeeps, PTL DEF Spec

LEMMA GatewayTypes == IInv => TypeOK
  BY GenAssumption DEF IInv, Types, Bounds, Paired, TypeOK, Box, Launch, Entry, Request, Activation,
    ReqPcs

(* Every variable keeps its type, for any number of requests, hosts and    *)
(* starts: the caches hold nothing that is newer than the container.       *)
THEOREM TypeCorrect == Spec => []TypeOK
  BY Inductive, GatewayTypes, PTL

(* Nobody waits for an activation that is not under way, or for that of    *)
(* another host, whatever is cleared, rebuilt or restarted meanwhile       *)
(* (dsh-auth.service.js:283).                                              *)
THEOREM NoWaiterStranded == Spec => []NobodyStranded
<1>1. IInv => NobodyStranded
  BY DEF IInv, Paired, Waits, Running, NobodyStranded
<1> QED
  BY <1>1, Inductive, PTL

(* A page is refused only by a container that has got a new key since the  *)
(* gateway retried, and recoveries restart the container once in five      *)
(* minutes (tenant-proxy.service.js:465, dsh-auth.service.js:157).         *)
THEOREM Recovers == Spec => []GatewayRecovers
<1>1. IInv => GatewayRecovers
  BY DEF IInv, Types, Healing, Spaced, Box, Request, GatewayRecovers, GetHealed, RestartsSpaced
<1> QED
  BY <1>1, Inductive, PTL

-----------------------------------------------------------------------------
(* The skill market.  A skill of a volume whose operations neither failed  *)
(* nor overlapped has at most one operation under way, so that what an     *)
(* operation has done to the volume waits only for its own record.  And a  *)
(* publication under way has read every entry that is older than it.       *)
Shared == [sharer : Addr, hash : Nat \ {0}, at : Nat]
SkillList == [Name -> Shared \cup {Skills!None}]
SkillJob == [pc : {"idle", "extract", "publish", "unlink"} \cup Skills!Writing,
             addr : Addr \cup {"none"}, name : Name \cup {"none"}, share : Name \cup {"none"},
             text : Nat, hash : Nat, begun : Nat, entries : SkillList]

(* What a request knows when it has come to a place.                       *)
SkillJobRight(r) ==
  /\ r.pc \in {"extract", "publish"} \cup Skills!Writing => r.addr \in Addr /\ r.name \in Name
  /\ r.pc \in {"extract", "publish", "unlink"} => r.share \in Name
  /\ r.pc = "publish" => r.text # 0
  /\ r.pc \in {"install", "record"} => /\ r.text # 0 /\ r.hash # 0
                                       /\ <<r.addr, r.name>> \notin mixed => r.text = r.hash
  /\ r.pc \in {"uninstall", "erase"} => r.hash = 0

Skill == [text : Nat, by : {"none", "tenant", "market"}]
SkillTypes ==
  /\ index \in SkillList /\ body \in [Name -> Nat] /\ count \in Nat
  /\ volume \in [Addr -> [Name -> Skill]]
  /\ installs \in [Addr -> [Name -> Nat]]
  /\ job \in [Job -> SkillJob] /\ \A j \in Job : SkillJobRight(job[j])

(* j works on a's skill n; and it has done its script.                     *)
WorksOn(j, a, n) == job[j].pc \in Skills!Writing /\ job[j].addr = a /\ job[j].name = n
Scripted(j, a, n) == WorksOn(j, a, n) /\ job[j].pc \in {"record", "erase"}

HashesTrue ==
  \A n \in Name : n \notin restored /\ index[n] # Skills!None /\ body[n] # 0 => index[n].hash = body[n]

(* Of a's skill n: the work of one, and the record, which agrees with the  *)
(* volume or will when that one has written it.                            *)
Alone(a, n) == \A i, j \in Job : WorksOn(i, a, n) /\ WorksOn(j, a, n) => i = j
Agrees(v, h, p, gone) == /\ h # 0 => v.text # 0 \/ p \in gone
                         /\ v.by = "market" => h = v.text
RecordTrue(a, n) ==
  /\ (\A j \in Job : ~Scripted(j, a, n)) => Agrees(volume[a][n], installs[a][n], <<a, n>>, lost)
  /\ \A j \in Job : Scripted(j, a, n) => Agrees(volume[a][n], job[j].hash, <<a, n>>, lost)
RecordsTrue == \A a \in Addr, n \in Name : <<a, n>> \notin mixed => Alone(a, n) /\ RecordTrue(a, n)

(* A publication under way has the list as it was when the request began:  *)
(* the name was free or the sharer's own, and the entries of then that are *)
(* there still are in it.                                                  *)
Older(e, n) == e[n].at <= count
ListRight(r) ==
  r.pc \in {"extract", "publish"} =>
    /\ r.begun <= count
    /\ r.entries[r.share] = Skills!None \/ r.entries[r.share].sharer = r.addr
    /\ \A n \in Name : /\ Older(r.entries, n)
                       /\ n \notin restored /\ index[n] # Skills!None /\ index[n].at < r.begun
                            => r.entries[n] = index[n]
ListsTrue == (\A n \in Name : Older(index, n)) /\ \A j \in Job : ListRight(job[j])

SkillInv == SkillTypes /\ HashesTrue /\ RecordsTrue /\ ListsTrue

LEMMA SkillInit == Skills!Init => SkillInv
<1> SUFFICES ASSUME Skills!Init
             PROVE  SkillInv
  OBVIOUS
<1>1. /\ Skills!Idle \in SkillJob /\ SkillJobRight(Skills!Idle) /\ Skills!NoIndex \in SkillList
      /\ Skills!Idle.pc = "idle"
  BY DEF Skills!Idle, SkillJob, SkillJobRight, SkillList, Skills!NoIndex, Skills!Writing
<1>2. PICK v : v = [text |-> 1, by |-> "tenant"]
  OBVIOUS
<1>3. v \in Skill /\ v.text = 1 /\ v.by = "tenant"
  BY <1>2 DEF Skill
<1>4. volume = [a \in Addr |-> [n \in Name |-> v]]
  BY <1>2 DEF Skills!Init
<1>5. SkillTypes
  BY <1>1, <1>3, <1>4 DEF Skills!Init, SkillTypes
<1>6. HashesTrue
  BY DEF Skills!Init, HashesTrue, Skills!NoIndex
<1>7. \A j \in Job, a \in Addr, n \in Name : ~WorksOn(j, a, n) /\ ~Scripted(j, a, n)
  BY <1>1 DEF Skills!Init, WorksOn, Scripted, Skills!Writing
<1>8. RecordsTrue
  <2>1. ASSUME NEW a \in Addr, NEW n \in Name
        PROVE  Agrees(volume[a][n], installs[a][n], <<a, n>>, lost)
    BY <1>3, <1>4 DEF Skills!Init, Agrees
  <2> QED
    BY <1>7, <2>1 DEF RecordsTrue, Alone, RecordTrue
<1>9. ListsTrue
  <2>1. \A n \in Name : index[n] = Skills!None /\ count = 1
    BY DEF Skills!Init, Skills!NoIndex
  <2>2. \A n \in Name : Older(index, n)
    BY <2>1 DEF Older, Skills!None
  <2> QED
    BY <1>1, <2>2 DEF Skills!Init, ListsTrue, ListRight
<1> QED
  BY <1>5, <1>6, <1>8, <1>9 DEF SkillInv

(* A request that is not at work on a volume takes a step, and is not at   *)
(* work on one then.                                                       *)
LEMMA OthersWork ==
  ASSUME SkillInv, NEW j \in Job, NEW t \in SkillJob, Skills!Become(j, t), SkillJobRight(t),
         job[j].pc \notin Skills!Writing, t.pc \notin Skills!Writing,
         UNCHANGED <<volume, installs, mixed, lost>>
  PROVE  /\ RecordsTrue' /\ job' \in [Job -> SkillJob] /\ \A i \in Job : SkillJobRight(job[i])'
         /\ job'[j] = t /\ \A i \in Job : i # j => job'[i] = job[i]
<1>1. /\ job' \in [Job -> SkillJob] /\ job'[j] = t
      /\ \A i \in Job : i # j => job'[i] = job[i]
  BY DEF Skills!Become, SkillInv, SkillTypes
<1>2. ASSUME NEW i \in Job, NEW a \in Addr, NEW n \in Name
      PROVE  /\ WorksOn(i, a, n)' <=> WorksOn(i, a, n)
             /\ Scripted(i, a, n)' <=> Scripted(i, a, n)
             /\ Scripted(i, a, n) => job'[i] = job[i]
  BY <1>1 DEF WorksOn, Scripted
<1>3. \A i \in Job : SkillJobRight(job[i])'
  BY <1>1 DEF SkillInv, SkillTypes, SkillJobRight
<1>4. ASSUME NEW a \in Addr, NEW n \in Name, <<a, n>> \notin mixed'
      PROVE  Alone(a, n)' /\ RecordTrue(a, n)'
  <2>1. Alone(a, n) /\ RecordTrue(a, n)
    BY <1>4 DEF SkillInv, RecordsTrue
  <2> QED
    BY <1>2, <2>1 DEF Alone, RecordTrue
<1> QED
  BY <1>1, <1>3, <1>4 DEF RecordsTrue

(* Time goes on, a request goes on with its list or ends: the lists stay   *)
(* true where the index only loses entries.                                *)
LEMMA ListsKeep ==
  ASSUME SkillInv, \A i \in Job : job'[i] = job[i] \/ ListRight(job[i])',
         count' \in Nat, count <= count', UNCHANGED restored,
         \A n \in Name : index'[n] \in {index[n], Skills!None}
  PROVE  ListsTrue'
<1>1. /\ index \in SkillList /\ count \in Nat
      /\ \A n \in Name : index[n].at \in Nat /\ index[n].at <= count
  BY DEF SkillInv, SkillTypes, ListsTrue, Older, SkillList, Shared, Skills!None
<1>2. \A n \in Name : Older(index, n)'
  BY <1>1 DEF Older, Skills!None
<1>3. ASSUME NEW i \in Job, job'[i] = job[i]
      PROVE  ListRight(job[i])'
  <2>1. PICK r : r = job[i]
    OBVIOUS
  <2>2. r.begun \in Nat /\ r.entries \in SkillList /\ ListRight(r)
    BY <2>1 DEF SkillInv, SkillTypes, SkillJob, ListsTrue
  <2>3. ASSUME r.pc \in {"extract", "publish"}
        PROVE  /\ r.begun <= count'
               /\ r.entries[r.share] = Skills!None \/ r.entries[r.share].sharer = r.addr
    BY <1>1, <2>2, <2>3 DEF ListRight
  <2>4. ASSUME r.pc \in {"extract", "publish"}, NEW n \in Name
        PROVE  /\ r.entries[n].at <= count'
               /\ n \notin restored' /\ index'[n] # Skills!None /\ index'[n].at < r.begun
                    => r.entries[n] = index'[n]
    <3>1. r.entries[n].at \in Nat /\ r.entries[n].at <= count
      BY <2>2, <2>4 DEF ListRight, Older, SkillList, Shared, Skills!None
    <3>2. n \notin restored /\ index[n] # Skills!None /\ index[n].at < r.begun
            => r.entries[n] = index[n]
      BY <2>2, <2>4 DEF ListRight
    <3> QED
      BY <1>1, <3>1, <3>2
  <2>5. job'[i] = r
    BY <1>3, <2>1
  <2> QED
    BY <2>3, <2>4, <2>5 DEF ListRight, Older
<1> QED
  BY <1>2, <1>3 DEF ListsTrue

LEMMA IdleJob ==
  /\ Skills!Idle \in SkillJob /\ SkillJobRight(Skills!Idle)
  /\ Skills!Idle.pc = "idle" /\ Skills!Idle.pc \notin Skills!Writing
BY DEF Skills!Idle, SkillJob, SkillJobRight, SkillList, Skills!NoIndex, Skills!Writing

LEMMA PublishKeeps ==
  ASSUME SkillInv, NEW j \in Job, NEW a \in Addr, NEW n \in Name, NEW s \in Name,
         Skills!Publish(j, a, n, s)
  PROVE  SkillInv'
<1>1. PICK t : t = [Skills!Idle EXCEPT !.pc = "extract", !.addr = a, !.name = n, !.share = s,
                                       !.begun = count + 1, !.entries = index]
  OBVIOUS
<1>2. /\ t \in SkillJob /\ SkillJobRight(t) /\ t.pc = "extract"
      /\ t.addr = a /\ t.share = s /\ t.begun = count + 1 /\ t.entries = index
  <2>1. index \in SkillList /\ count + 1 \in Nat
    BY DEF SkillInv, SkillTypes
  <2>2. /\ t.pc = "extract" /\ t.addr = a /\ t.share = s /\ t.name = n
        /\ t.begun = count + 1 /\ t.entries = index
    BY <1>1 DEF Skills!Idle
  <2>3. t \in SkillJob
    BY <1>1, <2>1 DEF Skills!Idle, SkillJob
  <2> QED
    BY <2>2, <2>3 DEF SkillJobRight, Skills!Writing
<1>3. /\ job[j].pc = "idle" /\ Skills!Become(j, t) /\ count' = count + 1 /\ count \in Nat
      /\ UNCHANGED <<index, body, volume, installs, restored, mixed, lost>>
  BY <1>1 DEF Skills!Publish, Skills!At, Skills!Counted, Skills!market, Skills!tenants, SkillInv,
              SkillTypes
<1>4. /\ RecordsTrue' /\ job' \in [Job -> SkillJob] /\ \A i \in Job : SkillJobRight(job[i])'
      /\ job'[j] = t /\ \A i \in Job : i # j => job'[i] = job[i]
  BY <1>2, <1>3, OthersWork DEF Skills!Writing
<1>5. ListRight(job[j])'
  <2>1. index[s] # Skills!None => index[s].sharer = a
    BY DEF Skills!Publish, Skills!Free
  <2>2. \A m \in Name : index[m].at \in Nat /\ index[m].at <= count
    BY DEF SkillInv, SkillTypes, ListsTrue, Older, SkillList, Shared, Skills!None
  <2> QED
    BY <1>2, <1>3, <1>4, <2>1, <2>2 DEF ListRight, Older
<1>6. ListsTrue'
  BY <1>3, <1>4, <1>5, ListsKeep
<1> QED
  BY <1>3, <1>4, <1>6 DEF SkillInv, SkillTypes, HashesTrue

LEMMA ExtractedKeeps ==
  ASSUME SkillInv, NEW j \in Job, Skills!Extracted(j)
  PROVE  SkillInv'
<1>1. PICK v : v = volume[job[j].addr][job[j].name].text
  OBVIOUS
<1>2. PICK t : t = [job[j] EXCEPT !.pc = "publish", !.text = v]
  OBVIOUS
<1>3. /\ job[j] \in SkillJob /\ SkillJobRight(job[j]) /\ job[j].pc = "extract"
      /\ ListRight(job[j]) /\ count \in Nat
      /\ UNCHANGED <<index, body, volume, installs, count, restored, mixed, lost>>
  BY DEF Skills!Extracted, Skills!At, Skills!market, Skills!tenants, SkillInv, SkillTypes, ListsTrue
<1>4. v \in Nat
  <2>1. job[j].addr \in Addr /\ job[j].name \in Name
    BY <1>3 DEF SkillJobRight
  <2> QED
    BY <1>1, <2>1 DEF SkillInv, SkillTypes, Skill
<1>5. /\ RecordsTrue' /\ job' \in [Job -> SkillJob] /\ \A i \in Job : SkillJobRight(job[i])'
      /\ \A i \in Job : i # j => job'[i] = job[i]
      /\ ListRight(job[j])'
  <2>1. CASE v # 0 /\ Skills!Become(j, t)
    <3>1. /\ t \in SkillJob /\ SkillJobRight(t) /\ t.pc = "publish"
          /\ t.addr = job[j].addr /\ t.share = job[j].share /\ t.begun = job[j].begun
          /\ t.entries = job[j].entries
      BY <1>2, <1>3, <1>4, <2>1 DEF SkillJob, SkillJobRight, Skills!Writing
    <3>2. /\ RecordsTrue' /\ job' \in [Job -> SkillJob] /\ \A i \in Job : SkillJobRight(job[i])'
          /\ job'[j] = t /\ \A i \in Job : i # j => job'[i] = job[i]
      BY <1>3, <2>1, <3>1, OthersWork DEF Skills!Writing
    <3>3. ListRight(job[j])'
      BY <1>3, <3>1, <3>2 DEF ListRight, Older
    <3> QED
      BY <3>2, <3>3
  <2>2. CASE Skills!Become(j, Skills!Idle)
    <3>1. /\ RecordsTrue' /\ job' \in [Job -> SkillJob] /\ \A i \in Job : SkillJobRight(job[i])'
          /\ job'[j] = Skills!Idle /\ \A i \in Job : i # j => job'[i] = job[i]
      BY <1>3, <2>2, IdleJob, OthersWork DEF Skills!Writing
    <3>2. ListRight(job[j])'
      BY <3>1, IdleJob DEF ListRight
    <3> QED
      BY <3>1, <3>2
  <2> QED
    BY <1>1, <1>2, <2>1, <2>2 DEF Skills!Extracted
<1>6. ListsTrue'
  BY <1>3, <1>5, ListsKeep
<1> QED
  BY <1>3, <1>5, <1>6 DEF SkillInv, SkillTypes, HashesTrue

(* The entry is new, and so newer than every request under way; what else  *)
(* an older list changes counts as restored.                               *)
LEMMA PublishedKeeps ==
  ASSUME SkillInv, NEW j \in Job, Skills!Published(j)
  PROVE  SkillInv'
<1>1. PICK e : e = [sharer |-> job[j].addr, hash |-> job[j].text, at |-> count]
  OBVIOUS
<1>2. PICK s : s = job[j].share
  OBVIOUS
<1>3. PICK x : x = job[j].text
  OBVIOUS
<1>4. PICK old : old = Skills!List(j)
  OBVIOUS
<1>5. /\ job[j] \in SkillJob /\ SkillJobRight(job[j]) /\ job[j].pc = "publish"
      /\ Skills!Become(j, Skills!Idle) /\ UNCHANGED <<volume, installs, count, mixed, lost>>
      /\ body' = [body EXCEPT ![s] = x] /\ index' = [old EXCEPT ![s] = e]
      /\ restored' = (restored \cup {m \in Name : old[m] # index[m]}) \ {s}
  BY <1>1, <1>2, <1>3, <1>4 DEF Skills!Published, Skills!At, Skills!tenants, SkillInv, SkillTypes
<1>6. /\ s \in Name /\ e \in Shared /\ x \in Nat /\ e.hash = x /\ e.at = count
      /\ count \in Nat /\ body \in [Name -> Nat] /\ index \in SkillList
  BY <1>1, <1>2, <1>3, <1>5 DEF SkillJobRight, SkillJob, Shared, SkillInv, SkillTypes
<1>7. old \in SkillList /\ \A m \in Name : old[m].at <= count
  BY <1>4, <1>5, <1>6 DEF Skills!List, SkillJob, SkillInv, ListsTrue, ListRight, Older
<1>8. /\ RecordsTrue' /\ job' \in [Job -> SkillJob] /\ \A i \in Job : SkillJobRight(job[i])'
      /\ job'[j] = Skills!Idle /\ \A i \in Job : i # j => job'[i] = job[i]
  BY <1>5, IdleJob, OthersWork DEF Skills!Writing
<1>9. /\ index' \in SkillList /\ index'[s] = e
      /\ \A m \in Name : m # s => index'[m] = old[m]
  BY <1>5, <1>6, <1>7 DEF SkillList
<1>10. body' \in [Name -> Nat] /\ body'[s] = x /\ \A m \in Name : m # s => body'[m] = body[m]
  BY <1>5, <1>6
<1>11. \A m \in Name : m # s /\ m \notin restored' => old[m] = index[m] /\ m \notin restored
  BY <1>5
<1>12. HashesTrue'
  BY <1>6, <1>9, <1>10, <1>11 DEF SkillInv, HashesTrue
<1>13. \A m \in Name : Older(index, m)'
  BY <1>5, <1>6, <1>7, <1>9 DEF Older
<1>14. ASSUME NEW i \in Job
       PROVE  ListRight(job[i])'
  <2>1. CASE i = j
    BY <1>8, <2>1, IdleJob DEF ListRight
  <2>2. CASE i # j
    <3>1. PICK r : r = job[i]
      OBVIOUS
    <3>2. r \in SkillJob /\ r.begun \in Nat /\ ListRight(r) /\ job'[i] = r
      BY <1>8, <2>2, <3>1 DEF SkillInv, SkillTypes, ListsTrue, SkillJob
    <3>3. ASSUME r.pc \in {"extract", "publish"}, NEW m \in Name, m \notin restored',
                 index'[m] # Skills!None, index'[m].at < r.begun
          PROVE  r.entries[m] = index'[m]
      <4>1. m # s
        BY <1>6, <1>9, <3>2, <3>3 DEF ListRight
      <4> QED
        BY <1>9, <1>11, <3>2, <3>3, <4>1 DEF ListRight
    <3> QED
      BY <1>5, <3>2, <3>3 DEF ListRight, Older
  <2> QED
    BY <2>1, <2>2
<1>15. ListsTrue'
  BY <1>13, <1>14 DEF ListsTrue
<1> QED
  BY <1>5, <1>8, <1>9, <1>10, <1>12, <1>15 DEF SkillInv, SkillTypes

(* The entry goes before the file, so that none is left without one.       *)
LEMMA UnpublishKeeps ==
  ASSUME SkillInv, NEW j \in Job, NEW s \in Name, Skills!Unpublish(j, s)
  PROVE  SkillInv'
<1>1. PICK t : t = [Skills!Idle EXCEPT !.pc = "unlink", !.share = s]
  OBVIOUS
<1>2. t \in SkillJob /\ SkillJobRight(t) /\ t.pc = "unlink"
  BY <1>1, IdleJob DEF SkillJob, SkillJobRight, Skills!Writing
<1>3. /\ job[j].pc = "idle" /\ index' = [index EXCEPT ![s] = Skills!None]
      /\ count' = count + 1 /\ count \in Nat
      /\ UNCHANGED <<volume, installs, restored, mixed, lost>>
  BY DEF Skills!Unpublish, Skills!At, Skills!Counted, Skills!tenants, SkillInv, SkillTypes
<1>4. /\ body' \in [Name -> Nat] /\ \A n \in Name : n # s => body'[n] = body[n]
      /\ RecordsTrue' /\ job' \in [Job -> SkillJob] /\ \A i \in Job : SkillJobRight(job[i])'
      /\ \A i \in Job : job'[i] = job[i] \/ job'[i].pc = "unlink"
  <2>1. CASE body' = [body EXCEPT ![s] = 0] /\ UNCHANGED job
    BY <1>3, <2>1 DEF SkillInv, SkillTypes, SkillJobRight, RecordsTrue, Alone, RecordTrue, WorksOn,
                      Scripted, Agrees
  <2>2. CASE Skills!Become(j, t) /\ UNCHANGED body
    <3>1. /\ RecordsTrue' /\ job' \in [Job -> SkillJob] /\ \A i \in Job : SkillJobRight(job[i])'
          /\ job'[j] = t /\ \A i \in Job : i # j => job'[i] = job[i]
      BY <1>2, <1>3, <2>2, OthersWork DEF Skills!Writing
    <3> QED
      BY <1>2, <2>2, <3>1 DEF SkillInv, SkillTypes
  <2> QED
    BY <1>1, <2>1, <2>2 DEF Skills!Unpublish
<1>5. /\ index' \in SkillList /\ index'[s] = Skills!None
      /\ \A n \in Name : n # s => index'[n] = index[n]
  BY <1>3 DEF SkillInv, SkillTypes, SkillList
<1>6. HashesTrue'
  BY <1>3, <1>4, <1>5 DEF SkillInv, HashesTrue
<1>7. ListsTrue'
  <2>1. \A i \in Job : job'[i] = job[i] \/ ListRight(job[i])'
    BY <1>4 DEF ListRight
  <2> QED
    BY <1>3, <1>5, <2>1, ListsKeep
<1> QED
  BY <1>3, <1>4, <1>5, <1>6, <1>7 DEF SkillInv, SkillTypes

LEMMA UnlinkedKeeps ==
  ASSUME SkillInv, NEW j \in Job, Skills!Unlinked(j)
  PROVE  SkillInv'
<1>1. /\ job[j] \in SkillJob /\ SkillJobRight(job[j]) /\ job[j].pc = "unlink" /\ count \in Nat
      /\ Skills!Become(j, Skills!Idle) /\ body' = [body EXCEPT ![job[j].share] = 0]
      /\ UNCHANGED <<index, volume, installs, count, restored, mixed, lost>>
  BY DEF Skills!Unlinked, Skills!At, Skills!tenants, SkillInv, SkillTypes
<1>2. /\ RecordsTrue' /\ job' \in [Job -> SkillJob] /\ \A i \in Job : SkillJobRight(job[i])'
      /\ job'[j] = Skills!Idle /\ \A i \in Job : i # j => job'[i] = job[i]
  BY <1>1, IdleJob, OthersWork DEF Skills!Writing
<1>3. body' \in [Name -> Nat] /\ HashesTrue'
  BY <1>1 DEF SkillInv, SkillTypes, HashesTrue, SkillJobRight
<1>4. ListsTrue'
  <2>1. ListRight(job[j])'
    BY <1>2, IdleJob DEF ListRight
  <2> QED
    BY <1>1, <1>2, <2>1, ListsKeep
<1> QED
  BY <1>1, <1>2, <1>3, <1>4 DEF SkillInv, SkillTypes

(* The tenant, or whoever erases its volume, changes it: to a skill of the *)
(* tenant's own, or to none, which is then lost.                           *)
LEMMA VolumeKeeps ==
  ASSUME SkillInv, Skills!Counted, UNCHANGED <<index, body, restored, installs, job, mixed>>,
         lost \subseteq lost', volume' \in [Addr -> [Name -> Skill]],
         \A a \in Addr, n \in Name :
           \/ volume'[a][n] = volume[a][n]
           \/ /\ volume'[a][n].by # "market"
              /\ volume'[a][n].text # 0 \/ <<a, n>> \in lost'
  PROVE  SkillInv'
<1>1. count' = count + 1 /\ count \in Nat
  BY DEF Skills!Counted, SkillInv, SkillTypes
<1>2. RecordsTrue'
  <2>1. ASSUME NEW b \in Addr, NEW m \in Name, <<b, m>> \notin mixed'
        PROVE  Alone(b, m)' /\ RecordTrue(b, m)'
    <3>1. Alone(b, m) /\ RecordTrue(b, m)
      BY <2>1 DEF SkillInv, RecordsTrue
    <3>2. \A h : Agrees(volume[b][m], h, <<b, m>>, lost) => Agrees(volume'[b][m], h, <<b, m>>, lost')
      BY DEF Agrees
    <3>3. \A i \in Job : Scripted(i, b, m)' <=> Scripted(i, b, m)
      BY DEF Scripted, WorksOn
    <3>4. Alone(b, m)'
      BY <3>1 DEF Alone, WorksOn
    <3>5. RecordTrue(b, m)'
      BY <3>1, <3>2, <3>3 DEF RecordTrue, Agrees
    <3> QED
      BY <3>4, <3>5
  <2> QED
    BY <2>1 DEF RecordsTrue
<1>3. \A i \in Job : SkillJobRight(job[i])'
  BY DEF SkillInv, SkillTypes, SkillJobRight
<1>4. ListsTrue'
  BY <1>1, ListsKeep
<1> QED
  BY <1>1, <1>2, <1>3, <1>4 DEF SkillInv, SkillTypes, HashesTrue

LEMMA TenantKeeps ==
  ASSUME SkillInv, NEW a \in Addr,
         Skills!Erase(a) \/ \E n \in Name : Skills!Write(a, n) \/ Skills!Delete(a, n)
  PROVE  SkillInv'
<1>1. volume \in [Addr -> [Name -> Skill]] /\ count \in Nat
  BY DEF SkillInv, SkillTypes
<1>2. ASSUME NEW n \in Name, Skills!Write(a, n)
      PROVE  SkillInv'
  <2>1. PICK v : v = [text |-> count', by |-> "tenant"]
    OBVIOUS
  <2>2. /\ volume' = [volume EXCEPT ![a][n] = v] /\ Skills!Counted /\ count' = count + 1
        /\ UNCHANGED <<index, body, restored, installs, job, mixed, lost>>
    BY <1>2, <2>1 DEF Skills!Write, Skills!Counted, Skills!market
  <2>3. v \in Skill /\ v.by # "market" /\ v.text # 0
    BY <1>1, <2>1, <2>2 DEF Skill
  <2>4. /\ volume' \in [Addr -> [Name -> Skill]]
        /\ \A b \in Addr, m \in Name : volume'[b][m] \in {v, volume[b][m]}
    BY <1>1, <2>2, <2>3
  <2> QED
    BY <2>2, <2>3, <2>4, VolumeKeeps
<1>3. PICK v : v = Skills!NoSkill
  OBVIOUS
<1>4. v \in Skill /\ v.by # "market"
  BY <1>3 DEF Skill, Skills!NoSkill
<1>5. ASSUME NEW n \in Name, Skills!Delete(a, n)
      PROVE  SkillInv'
  <2>1. /\ volume' = [volume EXCEPT ![a][n] = v] /\ Skills!Counted /\ lost' = lost \cup {<<a, n>>}
        /\ UNCHANGED <<index, body, restored, installs, job, mixed>>
    BY <1>3, <1>5 DEF Skills!Delete, Skills!market
  <2>2. /\ volume' \in [Addr -> [Name -> Skill]]
        /\ \A b \in Addr, m \in Name : volume'[b][m] = volume[b][m]
                                       \/ (volume'[b][m] = v /\ b = a /\ m = n)
    BY <1>1, <1>4, <2>1
  <2> QED
    BY <1>4, <2>1, <2>2, VolumeKeeps
<1>6. ASSUME Skills!Erase(a)
      PROVE  SkillInv'
  <2>1. /\ volume' = [volume EXCEPT ![a] = [n \in Name |-> v]] /\ Skills!Counted
        /\ lost' = lost \cup ({a} \X Name)
        /\ UNCHANGED <<index, body, restored, installs, job, mixed>>
    BY <1>3, <1>6 DEF Skills!Erase, Skills!market
  <2>2. /\ volume' \in [Addr -> [Name -> Skill]]
        /\ \A b \in Addr, m \in Name : volume'[b][m] = volume[b][m]
                                       \/ (volume'[b][m] = v /\ b = a)
    BY <1>1, <1>4, <2>1
  <2> QED
    BY <1>4, <2>1, <2>2, VolumeKeeps
<1> QED
  BY <1>2, <1>5, <1>6

(* An operation on a volume begins: alone, or its skill counts as mixed.   *)
LEMMA BeginKeeps ==
  ASSUME SkillInv, NEW j \in Job, NEW a \in Addr, NEW n \in Name,
         NEW l \in {"install", "uninstall"}, NEW x \in Nat, NEW h \in Nat,
         l = "install" => x # 0 /\ h # 0, l = "uninstall" => h = 0,
         Skills!Begin(j, l, a, n, x, h)
  PROVE  SkillInv'
<1>1. PICK t : t = [Skills!Idle EXCEPT !.pc = l, !.addr = a, !.name = n, !.text = x, !.hash = h]
  OBVIOUS
<1>2. /\ t \in SkillJob /\ t.pc = l /\ t.addr = a /\ t.name = n /\ t.text = x /\ t.hash = h
  BY <1>1, IdleJob DEF SkillJob, Skills!Writing
<1>3. /\ job[j].pc = "idle" /\ Skills!Become(j, t) /\ count' = count + 1 /\ count \in Nat
      /\ mixed' = IF Skills!Busy(a, n) \/ x # h THEN mixed \cup {<<a, n>>} ELSE mixed
      /\ UNCHANGED <<index, body, volume, installs, restored, lost>>
  BY <1>1 DEF Skills!Begin, Skills!At, Skills!Counted, Skills!market, SkillInv, SkillTypes
<1>4. /\ job' \in [Job -> SkillJob] /\ job'[j] = t
      /\ \A i \in Job : i # j => job'[i] = job[i]
  BY <1>2, <1>3 DEF Skills!Become, SkillInv, SkillTypes
<1>5. \A i \in Job : SkillJobRight(job[i])'
  <2>1. SkillJobRight(job[j])'
    BY <1>2, <1>3, <1>4 DEF SkillJobRight, Skills!Writing
  <2>2. \A i \in Job : i # j => SkillJobRight(job[i])'
    BY <1>3, <1>4 DEF SkillInv, SkillTypes, SkillJobRight
  <2> QED
    BY <2>1, <2>2
<1>6. ASSUME NEW i \in Job, NEW b \in Addr, NEW m \in Name
      PROVE  /\ WorksOn(i, b, m)' <=> WorksOn(i, b, m) \/ (i = j /\ b = a /\ m = n)
             /\ Scripted(i, b, m)' <=> Scripted(i, b, m)
             /\ Scripted(i, b, m) => job'[i] = job[i]
  BY <1>2, <1>3, <1>4 DEF WorksOn, Scripted, Skills!Writing
<1>7. RecordsTrue'
  <2>1. ASSUME NEW b \in Addr, NEW m \in Name, <<b, m>> \notin mixed'
        PROVE  Alone(b, m)' /\ RecordTrue(b, m)'
    <3>1. Alone(b, m) /\ RecordTrue(b, m)
      BY <1>3, <2>1 DEF SkillInv, RecordsTrue
    <3>2. b = a /\ m = n => \A i \in Job : ~WorksOn(i, b, m)
      BY <1>3, <2>1 DEF Skills!Busy, WorksOn
    <3>3. Alone(b, m)'
      BY <1>6, <3>1, <3>2 DEF Alone
    <3>4. RecordTrue(b, m)'
      BY <1>3, <1>6, <3>1 DEF RecordTrue
    <3> QED
      BY <3>3, <3>4
  <2> QED
    BY <2>1 DEF RecordsTrue
<1>8. ListsTrue'
  <2>1. ListRight(job[j])'
    BY <1>2, <1>4 DEF ListRight
  <2> QED
    BY <1>3, <1>4, <2>1, ListsKeep
<1> QED
  BY <1>3, <1>4, <1>5, <1>7, <1>8 DEF SkillInv, SkillTypes, HashesTrue

LEMMA OperationKeeps ==
  ASSUME SkillInv, NEW j \in Job, NEW a \in Addr, NEW n \in Name,
         Skills!Install(j, a, n) \/ Skills!Import(j, a, n) \/ Skills!Uninstall(j, a, n)
  PROVE  SkillInv'
<1>1. CASE Skills!Install(j, a, n)
  <2>1. body[n] # 0 /\ body[n] \in Nat /\ index[n].hash \in Nat /\ index[n].hash # 0
    BY <1>1 DEF Skills!Install, SkillInv, SkillTypes, SkillList, Shared
  <2>2. Skills!Begin(j, "install", a, n, body[n], index[n].hash)
    BY <1>1 DEF Skills!Install
  <2> QED
    BY <2>1, <2>2, BeginKeeps
<1>2. CASE Skills!Import(j, a, n)
  <2>1. count + 1 \in Nat /\ count + 1 # 0
    BY DEF SkillInv, SkillTypes
  <2> QED
    BY <1>2, <2>1, BeginKeeps DEF Skills!Import
<1>3. CASE Skills!Uninstall(j, a, n)
  BY <1>3, BeginKeeps DEF Skills!Uninstall
<1> QED
  BY <1>1, <1>2, <1>3

(* A script has changed the volume as it should, or its skill is mixed.    *)
LEMMA ScriptedKeeps ==
  ASSUME SkillInv, NEW j \in Job, NEW from, NEW to,
         NEW skill \in Skill,
         <<from, to>> \in {<<"install", "record">>, <<"uninstall", "erase">>},
         \A p : p \notin mixed /\ p = <<job[j].addr, job[j].name>> => Agrees(skill, job[j].hash, p, {}),
         Skills!Scripted(j, from, to, skill)
  PROVE  SkillInv'
<1> DEFINE a == job[j].addr
           n == job[j].name
           t == [job[j] EXCEPT !.pc = to]
<1>1. /\ from \in Skills!Writing /\ to \in {"record", "erase"} /\ to \in Skills!Writing
      /\ from \notin {"record", "erase"} /\ job[j].pc = from
      /\ UNCHANGED <<index, body, restored, installs, count>> /\ count \in Nat
      /\ volume' \in {volume, [volume EXCEPT ![a][n] = skill]}
  BY DEF Skills!Scripted, Skills!At, Skills!market, Skills!Writing, SkillInv, SkillTypes
<1>2. job[j] \in SkillJob /\ SkillJobRight(job[j]) /\ a \in Addr /\ n \in Name
  BY <1>1 DEF SkillInv, SkillTypes, SkillJobRight
<1>3. /\ volume' \in [Addr -> [Name -> Skill]]
      /\ \A b \in Addr, m \in Name : b # a \/ m # n => volume'[b][m] = volume[b][m]
  <2>1. volume \in [Addr -> [Name -> Skill]]
    BY DEF SkillInv, SkillTypes
  <2>2. CASE volume' = volume
    BY <2>1, <2>2
  <2>3. CASE volume' = [volume EXCEPT ![a][n] = skill]
    BY <1>2, <2>1, <2>3
  <2> QED
    BY <1>1, <2>2, <2>3
<1>4. /\ t \in SkillJob /\ t.pc = to /\ t.addr = a /\ t.name = n
      /\ t.hash = job[j].hash /\ t.text = job[j].text
  BY <1>1, <1>2 DEF SkillJob, Skills!Writing
<1>5. WorksOn(j, a, n) /\ \A b \in Addr, m \in Name : WorksOn(j, b, m) => b = a /\ m = n
  BY <1>1 DEF WorksOn
<1>6. /\ \A p : p # <<a, n>> => (p \in lost' <=> p \in lost)
      /\ \/ /\ volume' = [volume EXCEPT ![a][n] = skill] /\ Skills!Become(j, t) /\ mixed' = mixed
         \/ Skills!Become(j, Skills!Idle) /\ mixed' = mixed \cup {<<a, n>>}
  BY DEF Skills!Scripted, Skills!Goto
<1>7. PICK u \in {t, Skills!Idle} : /\ Skills!Become(j, u)
                                    /\ u = Skills!Idle => <<a, n>> \in mixed'
                                    /\ u = t /\ t # Skills!Idle => volume'[a][n] = skill
                                    /\ mixed \subseteq mixed'
  <2>1. volume' = [volume EXCEPT ![a][n] = skill] => volume'[a][n] = skill
    BY <1>2 DEF SkillInv, SkillTypes
  <2>2. t # Skills!Idle
    BY <1>1, <1>4, IdleJob
  <2> QED
    BY <1>6, <2>1, <2>2
<1>8. /\ job' \in [Job -> SkillJob] /\ job'[j] = u
      /\ \A i \in Job : i # j => job'[i] = job[i]
  BY <1>4, <1>7, IdleJob DEF Skills!Become, SkillInv, SkillTypes
<1>9. \A i \in Job : SkillJobRight(job[i])'
  <2>1. SkillJobRight(job[j])'
    <3>1. CASE u = t
      BY <1>1, <1>2, <1>4, <1>7, <1>8, <3>1 DEF SkillJobRight, Skills!Writing
    <3>2. CASE u = Skills!Idle
      BY <1>8, <3>2, IdleJob DEF SkillJobRight, Skills!Writing
    <3> QED
      BY <3>1, <3>2
  <2>2. \A i \in Job : i # j => SkillJobRight(job[i])'
    BY <1>7, <1>8 DEF SkillInv, SkillTypes, SkillJobRight
  <2> QED
    BY <2>1, <2>2
<1>10. RecordsTrue'
  <2>1. ASSUME NEW b \in Addr, NEW m \in Name, <<b, m>> \notin mixed'
        PROVE  Alone(b, m)' /\ RecordTrue(b, m)'
    <3>1. Alone(b, m) /\ RecordTrue(b, m) /\ <<b, m>> \notin mixed
      BY <1>7, <2>1 DEF SkillInv, RecordsTrue
    <3>2. ASSUME NEW i \in Job, i # j
          PROVE  /\ WorksOn(i, b, m)' <=> WorksOn(i, b, m)
                 /\ Scripted(i, b, m)' <=> Scripted(i, b, m)
                 /\ job'[i] = job[i]
      BY <1>8, <3>2 DEF WorksOn, Scripted
    <3>3. CASE b = a /\ m = n
      <4>1. u = t /\ job'[j] = t /\ volume'[a][n] = skill
        BY <1>1, <1>4, <1>7, <1>8, <2>1, <3>3, IdleJob
      <4>2. \A i \in Job : i # j => ~WorksOn(i, b, m)
        BY <1>5, <3>1, <3>3 DEF Alone
      <4>3. Scripted(j, b, m)' /\ job'[j].hash = job[j].hash
        BY <1>1, <1>4, <3>3, <4>1 DEF Scripted, WorksOn
      <4>4. \A i \in Job : i # j => ~WorksOn(i, b, m)' /\ ~Scripted(i, b, m)'
        BY <3>2, <4>2 DEF Scripted
      <4>5. Alone(b, m)'
        BY <4>4 DEF Alone
      <4>6. Agrees(skill, job[j].hash, <<a, n>>, {})
        BY <3>1, <3>3
      <4>7. Agrees(skill, job[j].hash, <<a, n>>, lost')
        BY <4>6 DEF Agrees
      <4>8. RecordTrue(b, m)'
        BY <3>3, <4>1, <4>3, <4>4, <4>7 DEF RecordTrue, Agrees
      <4> QED
        BY <4>5, <4>8
    <3>4. CASE b # a \/ m # n
      <4>1. volume'[b][m] = volume[b][m] /\ installs'[b][m] = installs[b][m]
        BY <1>1, <1>3, <3>4
      <4>2. ~WorksOn(j, b, m) /\ ~WorksOn(j, b, m)' /\ ~Scripted(j, b, m) /\ ~Scripted(j, b, m)'
        BY <1>4, <1>5, <1>8, <3>4, IdleJob DEF WorksOn, Scripted
      <4>3. Alone(b, m)'
        BY <3>1, <3>2, <4>2 DEF Alone
      <4>4. <<b, m>> \in lost' <=> <<b, m>> \in lost
        BY <1>6, <3>4
      <4>5. RecordTrue(b, m)'
        BY <3>1, <3>2, <4>1, <4>2, <4>4 DEF RecordTrue, Agrees
      <4> QED
        BY <4>3, <4>5
    <3> QED
      BY <3>3, <3>4
  <2> QED
    BY <2>1 DEF RecordsTrue
<1>11. ListsTrue'
  <2>1. u.pc \notin {"extract", "publish"}
    BY <1>1, <1>4, IdleJob
  <2>2. ListRight(job[j])'
    BY <1>8, <2>1 DEF ListRight
  <2> QED
    BY <1>1, <1>8, <2>2, ListsKeep
<1> QED
  BY <1>1, <1>3, <1>8, <1>9, <1>10, <1>11 DEF SkillInv, SkillTypes, HashesTrue

LEMMA RecordedKeeps ==
  ASSUME SkillInv, NEW j \in Job, Skills!Recorded(j)
  PROVE  SkillInv'
<1> DEFINE a == job[j].addr
           n == job[j].name
<1>1. /\ job[j].pc \in {"record", "erase"} /\ job[j].pc \in Skills!Writing
      /\ installs' = [installs EXCEPT ![a][n] = job[j].hash]
      /\ Skills!Become(j, Skills!Idle) /\ count \in Nat
      /\ UNCHANGED <<index, body, restored, volume, count, mixed, lost>>
  BY DEF Skills!Recorded, Skills!market, Skills!Writing, SkillInv, SkillTypes
<1>2. job[j] \in SkillJob /\ a \in Addr /\ n \in Name /\ job[j].hash \in Nat
  BY <1>1 DEF SkillInv, SkillTypes, SkillJobRight, SkillJob
<1>3. /\ job' \in [Job -> SkillJob] /\ job'[j] = Skills!Idle
      /\ \A i \in Job : i # j => job'[i] = job[i]
      /\ \A i \in Job : SkillJobRight(job[i])'
  BY <1>1, IdleJob DEF Skills!Become, SkillInv, SkillTypes, SkillJobRight
<1>4. /\ installs' \in [Addr -> [Name -> Nat]] /\ installs'[a][n] = job[j].hash
      /\ \A b \in Addr, m \in Name : b # a \/ m # n => installs'[b][m] = installs[b][m]
  BY <1>1, <1>2 DEF SkillInv, SkillTypes
<1>5. RecordsTrue'
  <2>1. ASSUME NEW b \in Addr, NEW m \in Name, <<b, m>> \notin mixed'
        PROVE  Alone(b, m)' /\ RecordTrue(b, m)'
    <3>1. Alone(b, m) /\ RecordTrue(b, m)
      BY <1>1, <2>1 DEF SkillInv, RecordsTrue
    <3>2. ASSUME NEW i \in Job
          PROVE  /\ WorksOn(i, b, m)' <=> i # j /\ WorksOn(i, b, m)
                 /\ Scripted(i, b, m)' <=> i # j /\ Scripted(i, b, m)
                 /\ i # j => job'[i] = job[i]
      BY <1>3, IdleJob DEF WorksOn, Scripted
    <3>3. Alone(b, m)'
      BY <3>1, <3>2 DEF Alone
    <3>4. RecordTrue(b, m)'
      <4>1. CASE b = a /\ m = n
        <5>1. Scripted(j, b, m)
          BY <1>1, <4>1 DEF Scripted, WorksOn
        <5>2. Agrees(volume[b][m], job[j].hash, <<b, m>>, lost)
          BY <3>1, <5>1 DEF RecordTrue
        <5>3. \A i \in Job : ~Scripted(i, b, m)'
          BY <3>1, <3>2, <5>1 DEF Alone, Scripted
        <5> QED
          BY <1>1, <1>4, <4>1, <5>2, <5>3 DEF RecordTrue, Agrees
      <4>2. CASE b # a \/ m # n
        <5>1. ~Scripted(j, b, m)
          BY <4>2 DEF Scripted, WorksOn
        <5> QED
          BY <1>1, <1>4, <3>1, <3>2, <4>2, <5>1 DEF RecordTrue, Agrees
      <4> QED
        BY <4>1, <4>2
    <3> QED
      BY <3>3, <3>4
  <2> QED
    BY <2>1 DEF RecordsTrue
<1>6. ListsTrue'
  <2>1. ListRight(job[j])'
    BY <1>3, IdleJob DEF ListRight
  <2> QED
    BY <1>1, <1>3, <2>1, ListsKeep
<1> QED
  BY <1>1, <1>3, <1>4, <1>5, <1>6 DEF SkillInv, SkillTypes, HashesTrue

LEMMA SkillsKeep ==
  ASSUME SkillInv, Skills!Next
  PROVE  SkillInv'
<1>1. ASSUME NEW j \in Job, Skills!Installed(j)
      PROVE  SkillInv'
  <2> DEFINE skill == [text |-> job[j].text, by |-> "market"]
  <2>1. job[j] \in SkillJob /\ job[j].pc = "install" /\ SkillJobRight(job[j])
    BY <1>1 DEF Skills!Installed, Skills!Scripted, Skills!At, SkillInv, SkillTypes
  <2>2. /\ skill \in Skill
        /\ <<job[j].addr, job[j].name>> \notin mixed
             => Agrees(skill, job[j].hash, <<job[j].addr, job[j].name>>, {})
    <3>1. skill \in Skill
      BY <2>1 DEF SkillJob, Skill
    <3>2. PICK r : r = job[j]
      OBVIOUS
    <3>3. r.text # 0 /\ (<<r.addr, r.name>> \notin mixed => r.text = r.hash)
      BY <2>1, <3>2 DEF SkillJobRight
    <3> QED
      BY <3>1, <3>2, <3>3 DEF Agrees
  <2> QED
    BY <1>1, <2>2, ScriptedKeeps DEF Skills!Installed
<1>2. ASSUME NEW j \in Job, Skills!Uninstalled(j)
      PROVE  SkillInv'
  <2>1. job[j].hash = 0
    BY <1>2 DEF Skills!Uninstalled, Skills!Scripted, Skills!At, SkillInv, SkillTypes, SkillJobRight
  <2>2. Skills!NoSkill \in Skill /\ \A p : Agrees(Skills!NoSkill, job[j].hash, p, {})
    BY <2>1 DEF Skills!NoSkill, Skill, Agrees
  <2> QED
    BY <1>2, <2>2, ScriptedKeeps DEF Skills!Uninstalled
<1> QED
  BY <1>1, <1>2, TenantKeeps, PublishKeeps, OperationKeeps, UnpublishKeeps, ExtractedKeeps,
     PublishedKeeps, UnlinkedKeeps, RecordedKeeps DEF Skills!Next

(* The skill market of the run is the one of its module.                   *)
SkillsRight == part = "skills" => SkillInv

LEMMA SkillsInductive == PartSpec => []SkillsRight
<1>1. PartInit => SkillsRight
  BY SkillInit DEF PartInit, SkillsRight
<1>2. /\ SkillsRight
      /\ [PartNext]_<<part, vars, skillVars, configVars, lineVars, imageVars, pageVars, panelVars>>
      => SkillsRight'
  <2> SUFFICES ASSUME SkillsRight, part' = "skills", part' = part,
                      Skills!Next \/ UNCHANGED skillVars
               PROVE  SkillInv'
    BY DEF PartNext, SkillsRight
  <2>1. CASE Skills!Next
    BY <2>1, SkillsKeep DEF SkillsRight
  <2>2. CASE UNCHANGED skillVars
    BY <2>2 DEF skillVars, SkillsRight, SkillInv, SkillTypes, SkillJobRight, HashesTrue, RecordsTrue,
                Alone, RecordTrue, WorksOn, Scripted, Agrees, ListsTrue, ListRight, Older
  <2> QED
    BY <2>1, <2>2
<1> QED
  BY <1>1, <1>2, PTL DEF PartSpec

(* With either provider, the hash shown of a skill is that of the file the *)
(* market gives out, and the records agree with a volume that nobody       *)
(* erased and on which nothing failed or overlapped, whatever is           *)
(* published, withdrawn and installed meanwhile (skill.service.js:257,     *)
(* skill.service.js:373).  What an older list of the json provider puts    *)
(* back is left out.                                                       *)
THEOREM SkillsShownTrue == PartSpec => []ShownTrue
<1>1. SkillsRight => ShownTrue
  <2> SUFFICES ASSUME SkillInv
               PROVE  Skills!ShownTrue
    BY DEF SkillsRight, ShownTrue
  <2>1. ASSUME NEW a \in Addr, NEW n \in Name, <<a, n>> \notin mixed, ~Skills!Busy(a, n)
        PROVE  Agrees(volume[a][n], installs[a][n], <<a, n>>, lost)
    <3>1. \A j \in Job : ~Scripted(j, a, n)
      BY <2>1 DEF Skills!Busy, Scripted, WorksOn
    <3> QED
      BY <2>1, <3>1 DEF SkillInv, RecordsTrue, RecordTrue
  <2> QED
    BY <2>1 DEF SkillInv, HashesTrue, Agrees, Skills!ShownTrue
<1> QED
  BY <1>1, SkillsInductive, PTL

(* With either provider, nobody loses a share to a request that began when *)
(* it was there, other than one that unpublishes it: neither its entry nor *)
(* its ownership, however many publications overlap (skill.service.js:324, *)
(* skill.service.js:391).                                                  *)
THEOREM SkillSharesKept == PartSpec => SharesKept
<1>1. ASSUME SkillInv, Skills!Next
      PROVE  Skills!ShareLeft
  <2>1. ASSUME NEW j \in Job, Skills!Published(j)
        PROVE  Skills!ShareLeft
    <3>1. SUFFICES ASSUME NEW n \in Name, n \notin restored, index[n] # Skills!None,
                          index'[n].sharer # index[n].sharer, ~(job[j].begun <= index[n].at)
                   PROVE  FALSE
      <4>1. ASSUME NEW n \in Name, n \notin restored, index[n] # Skills!None,
                   index'[n].sharer # index[n].sharer, job[j].begun <= index[n].at
            PROVE  job[j].pc = "publish" /\ (job[j].share = n \/ provider = "json")
        BY <1>1, <2>1, <4>1 DEF Skills!Published, Skills!At, Skills!List, SkillInv, SkillTypes, SkillList
      <4> QED
        BY <3>1, <4>1 DEF Skills!ShareLeft, Skills!At
    <3>2. /\ job[j].pc = "publish" /\ job[j] \in SkillJob /\ SkillJobRight(job[j]) /\ ListRight(job[j])
          /\ index \in SkillList /\ index' = [Skills!List(j) EXCEPT ![job[j].share] =
                 [sharer |-> job[j].addr, hash |-> job[j].text, at |-> count]]
      BY <1>1, <2>1 DEF Skills!Published, Skills!At, SkillInv, SkillTypes, ListsTrue
    <3>3. job[j].begun \in Nat /\ index[n].at \in Nat /\ job[j].entries \in SkillList
      BY <3>1, <3>2 DEF SkillJob, SkillList, Shared
    <3>4. job[j].entries[n] = index[n]
      BY <3>1, <3>2, <3>3 DEF ListRight
    <3>5. Skills!List(j) \in SkillList /\ Skills!List(j)[n] = index[n]
      BY <3>2, <3>3, <3>4 DEF Skills!List
    <3>6. n = job[j].share => index'[n].sharer = job[j].addr
      BY <3>2, <3>5 DEF SkillList
    <3>7. n # job[j].share => index'[n] = index[n]
      BY <3>2, <3>5 DEF SkillList
    <3> QED
      BY <3>1, <3>2, <3>4, <3>6, <3>7 DEF ListRight
  <2>2. ASSUME NEW j \in Job, NEW s \in Name, Skills!Unpublish(j, s)
        PROVE  Skills!ShareLeft
    <3>1. \A n \in Name : n # s => index'[n] = index[n]
      BY <1>1, <2>2 DEF Skills!Unpublish, SkillInv, SkillTypes, SkillList
    <3> QED
      BY <2>2, <3>1 DEF Skills!ShareLeft
  <2>3. CASE UNCHANGED index
    BY <2>3 DEF Skills!ShareLeft
  <2>4. ASSUME NEW j \in Job, NEW a \in Addr, NEW n \in Name,
               \/ \E s \in Name : Skills!Publish(j, a, n, s)
               \/ Skills!Install(j, a, n) \/ Skills!Import(j, a, n) \/ Skills!Uninstall(j, a, n)
        PROVE  UNCHANGED index
    BY <2>4 DEF Skills!Publish, Skills!Install, Skills!Import, Skills!Uninstall, Skills!Begin,
                Skills!market
  <2>5. ASSUME NEW j \in Job,
               \/ Skills!Extracted(j) \/ Skills!Unlinked(j) \/ Skills!Installed(j)
               \/ Skills!Uninstalled(j) \/ Skills!Recorded(j)
        PROVE  UNCHANGED index
    BY <2>5 DEF Skills!Extracted, Skills!Unlinked, Skills!Installed, Skills!Uninstalled,
                Skills!Scripted, Skills!Recorded, Skills!market
  <2>6. ASSUME NEW a \in Addr,
               Skills!Erase(a) \/ \E n \in Name : Skills!Write(a, n) \/ Skills!Delete(a, n)
        PROVE  UNCHANGED index
    BY <2>6 DEF Skills!Write, Skills!Delete, Skills!Erase, Skills!market
  <2> QED
    BY <1>1, <2>1, <2>2, <2>3, <2>4, <2>5, <2>6 DEF Skills!Next
<1>2. /\ SkillsRight
      /\ [PartNext]_<<part, vars, skillVars, configVars, lineVars, imageVars, pageVars, panelVars>>
      => [part = "skills" => Skills!ShareLeft]_skillVars
  BY <1>1 DEF PartNext, SkillsRight
<1> QED
  BY <1>2, SkillsInductive, PTL DEF PartSpec, SharesKept

-----------------------------------------------------------------------------
(* The tenant image.  At most one request that changes the default is not  *)
(* overtaken, the one that tagged it last.  What that one has read of it   *)
(* stays true until it is recorded, or the image is removed: an image      *)
(* keeps its version, and one that is gone does not come back.             *)
Known == Version \cup {"none", "gone"}
Repo == [version : [Builds!Image -> Known], tag : [Version -> Builds!Image \cup {0}],
         latest : Builds!Image \cup {0}]
BuildPcs == {"idle", "asked", "building", "built", "versioned", "tagged", "named", "select",
             "prune", "reclaim"}
BuildJob == [pc : BuildPcs, build : BOOLEAN, ref : Version \cup Builds!Image \cup {Latest},
             version : Known, image : Builds!Image \cup {0}, list : SUBSET Builds!Image]
ImageTypes == /\ repo \in Repo /\ build \in [Job -> BuildJob] /\ clash \in BOOLEAN
              /\ late \subseteq Job /\ \A j \in late : Builds!Changing(j)

(* What a tag names is there; the tag of a version names that version.     *)
TagsRight == /\ repo.latest # 0 => repo.version[repo.latest] \in Version
             /\ \A w \in Version : repo.tag[w] # 0 => repo.version[repo.tag[w]] = w

(* A build is of a version, or of the latest one; a choice knows the       *)
(* version of what it will tag, if that is still there.                    *)
ChoiceRight(r) ==
  /\ r.pc \in {"asked", "building"} => r.ref \in Version \cup {Latest}
  /\ r.pc = "select" => /\ r.version \in Version
                        /\ r.ref \in Version => r.version = r.ref
                        /\ r.ref \notin Version => /\ r.ref \in Builds!Image
                                                   /\ repo.version[r.ref] \in {r.version, "gone"}

(* What a request has read of the default, or has not for docker's error.  *)
ReadRight(r) ==
  repo.latest # 0 =>
    /\ r.pc \in {"versioned", "tagged", "named"} => r.version \in {repo.version[repo.latest], "none"}
    /\ r.pc = "named" => r.image \in {repo.latest, 0}
RecordRight == /\ record.image \in {repo.latest, 0}
               /\ record.version \in {repo.version[repo.latest], "none"}
Ahead(j) == Builds!Changing(j) /\ j \notin late
DefaultRight ==
  /\ \A i, j \in Job : Ahead(i) /\ Ahead(j) => i = j
  /\ \A j \in Job : j \notin late => ReadRight(build[j])
  /\ repo.latest # 0 /\ ~clash /\ (\A j \in Job : ~Ahead(j)) => RecordRight

ImagesInv == ImageTypes /\ TagsRight /\ (\A j \in Job : ChoiceRight(build[j])) /\ DefaultRight

LEMMA ImageNumbers == /\ Builds!Image \subseteq Nat \ {0} /\ 1 \in Builds!Image
                      /\ 0 \notin Builds!Image
BY ImagesAssumption DEF Builds!Image

LEMMA IdleBuild ==
  /\ Builds!Idle \in BuildJob /\ ChoiceRight(Builds!Idle) /\ ReadRight(Builds!Idle)
  /\ Builds!Idle.pc = "idle"
BY DEF Builds!Idle, BuildJob, BuildPcs, Known, ChoiceRight, ReadRight, Builds!Image

LEMMA ImagesInit == Builds!Init => ImagesInv
<1> SUFFICES ASSUME Builds!Init
             PROVE  ImagesInv
  OBVIOUS
<1>1. PICK v \in Version :
        /\ repo = [version |-> [n \in Builds!Image |-> IF n = 1 THEN v ELSE "none"],
                   tag |-> [w \in Version |-> 0], latest |-> 1]
        /\ record = Builds!Entry(v, 1)
  BY DEF Builds!Init
<1>2. /\ repo \in Repo /\ repo.latest = 1 /\ repo.version[1] = v /\ \A w \in Version : repo.tag[w] = 0
  BY <1>1, ImageNumbers DEF Repo, Known
<1>3. \A j \in Job : build[j] = Builds!Idle /\ ~Builds!Changing(j)
  BY IdleBuild DEF Builds!Init, Builds!Changing
<1>4. ImageTypes
  BY <1>2, IdleBuild DEF Builds!Init, ImageTypes
<1>5. DefaultRight
  <2>1. RecordRight
    BY <1>1, <1>2 DEF RecordRight, Builds!Entry
  <2> QED
    BY <1>3, <2>1, IdleBuild DEF DefaultRight, Ahead
<1> QED
  BY <1>2, <1>3, <1>4, <1>5, IdleBuild DEF ImagesInv, TagsRight

(* A request takes a step that touches neither image nor record.           *)
LEMMA StepKeeps ==
  ASSUME ImagesInv, NEW j \in Job, NEW t \in BuildJob, Builds!Become(j, t),
         UNCHANGED <<repo, record, late, clash>>,
         ChoiceRight(t), j \notin late => ReadRight(t),
         t.pc \in {"built", "versioned", "tagged", "named"} <=> Builds!Changing(j)
  PROVE  ImagesInv'
<1>1. /\ build' \in [Job -> BuildJob] /\ build'[j] = t
      /\ \A i \in Job : i # j => build'[i] = build[i]
  BY DEF Builds!Become, ImagesInv, ImageTypes
<1>2. \A i \in Job : Builds!Changing(i)' <=> Builds!Changing(i)
  BY <1>1 DEF Builds!Changing
<1>3. \A i \in Job : Ahead(i)' <=> Ahead(i)
  BY <1>2 DEF Ahead
<1>4. \A i \in Job : ChoiceRight(build[i])'
  BY <1>1 DEF ImagesInv, ChoiceRight
<1>5. DefaultRight'
  <2>1. DefaultRight
    BY DEF ImagesInv
  <2>2. ASSUME NEW i \in Job, i \notin late'
        PROVE  ReadRight(build[i])'
    <3>1. CASE i = j
      BY <1>1, <2>2, <3>1 DEF ReadRight
    <3>2. CASE i # j
      BY <1>1, <2>1, <2>2, <3>2 DEF DefaultRight, ReadRight
    <3> QED
      BY <3>1, <3>2
  <2> QED
    BY <1>3, <2>1, <2>2 DEF DefaultRight, RecordRight
<1>6. ImageTypes'
  BY <1>1, <1>2 DEF ImagesInv, ImageTypes
<1> QED
  BY <1>4, <1>5, <1>6 DEF ImagesInv, TagsRight

(* A request tags another default: it alone is ahead then.                 *)
LEMMA TagKeeps ==
  ASSUME ImagesInv, NEW j \in Job, NEW t \in BuildJob, Builds!Become(j, t),
         t.pc \in {"built", "tagged"}, UNCHANGED record, Builds!Overtake(j),
         repo' \in Repo, TagsRight',
         \A m \in Builds!Image : repo.version[m] # "none" => repo'.version[m] = repo.version[m],
         t.pc = "tagged" => t.version = repo'.version[repo'.latest]
  PROVE  ImagesInv'
<1>1. /\ build' \in [Job -> BuildJob] /\ build'[j] = t
      /\ \A i \in Job : i # j => build'[i] = build[i]
  BY DEF Builds!Become, ImagesInv, ImageTypes
<1>2. ASSUME NEW i \in Job
      PROVE  ChoiceRight(build[i])'
  <2>1. CASE i = j
    BY <1>1, <2>1 DEF ChoiceRight
  <2>2. CASE i # j
    BY <1>1, <2>2, VersionAssumption DEF ImagesInv, ChoiceRight
  <2> QED
    BY <2>1, <2>2
<1>3. late' = (late \cup {i \in Job : Builds!Changing(i)}) \ {j} /\ clash' = clash
  BY DEF Builds!Overtake
<1>4. \A i \in Job : i # j => (Builds!Changing(i)' <=> Builds!Changing(i))
  BY <1>1 DEF Builds!Changing
<1>5. Builds!Changing(j)'
  BY <1>1 DEF Builds!Changing
<1>6. \A i \in Job : Ahead(i)' <=> i = j
  BY <1>3, <1>4, <1>5 DEF Ahead
<1>7. ASSUME NEW i \in Job, i \notin late'
      PROVE  ReadRight(build[i])'
  <2>1. CASE i = j
    BY <1>1, <2>1 DEF ReadRight
  <2>2. CASE i # j
    <3>1. ~Builds!Changing(i)'
      BY <1>6, <1>7, <2>2 DEF Ahead
    <3> QED
      BY <3>1 DEF ReadRight, Builds!Changing
  <2> QED
    BY <2>1, <2>2
<1>8. DefaultRight'
  BY <1>6, <1>7 DEF DefaultRight
<1>9. ImageTypes'
  BY <1>1, <1>3, <1>4 DEF ImagesInv, ImageTypes
<1> QED
  BY <1>2, <1>8, <1>9 DEF ImagesInv

LEMMA BuiltKeeps ==
  ASSUME ImagesInv, NEW j \in Job, Builds!Built(j)
  PROVE  ImagesInv'
<1> DEFINE r == build[j].ref
           t == [build[j] EXCEPT !.pc = "built"]
<1>1. /\ UNCHANGED record /\ Builds!Overtake(j) /\ Builds!Become(j, t)
      /\ build[j] \in BuildJob /\ r \in Version \cup {Latest}
  BY DEF Builds!Built, Builds!At, ImagesInv, ImageTypes, ChoiceRight
<1>2. t \in BuildJob /\ t.pc = "built"
  BY <1>1 DEF BuildJob, BuildPcs
<1>3. PICK v \in IF r = Latest THEN Version ELSE {r} : \E n \in Builds!Products(v) :
        repo' = [version |-> [repo.version EXCEPT ![n] = v], latest |-> n,
                 tag |-> [w \in Version |-> IF w = r THEN n ELSE repo.tag[w]]]
  BY DEF Builds!Built
<1>4. PICK n \in Builds!Products(v) :
        repo' = [version |-> [repo.version EXCEPT ![n] = v], latest |-> n,
                 tag |-> [w \in Version |-> IF w = r THEN n ELSE repo.tag[w]]]
  BY <1>3
<1>5. v \in Version /\ (r \in Version => v = r) /\ (r \notin Version => r = Latest)
  BY <1>1, <1>3, VersionAssumption
<1>6. n \in Builds!Image /\ repo.version[n] \in {v, "none"} /\ n # 0
  BY <1>4, ImageNumbers DEF Builds!Products, Builds!Present, Builds!Made
<1>7. /\ repo.version \in [Builds!Image -> Known] /\ repo.tag \in [Version -> Builds!Image \cup {0}]
      /\ \A w \in Version : repo.tag[w] # 0 => repo.version[repo.tag[w]] = w
  BY DEF ImagesInv, ImageTypes, Repo, TagsRight
<1>8. /\ repo'.version = [repo.version EXCEPT ![n] = v] /\ repo'.latest = n
      /\ repo'.tag = [w \in Version |-> IF w = r THEN n ELSE repo.tag[w]]
      /\ repo'.version[n] = v
      /\ \A m \in Builds!Image : repo.version[m] # "none" => repo'.version[m] = repo.version[m]
  BY <1>4, <1>6, <1>7
<1>9. repo' \in Repo
  <2>1. /\ repo'.version \in [Builds!Image -> Known] /\ n \in Builds!Image \cup {0}
        /\ repo'.tag \in [Version -> Builds!Image \cup {0}]
    BY <1>5, <1>6, <1>7, <1>8 DEF Known
  <2> QED
    BY <1>4, <2>1, <1>8 DEF Repo
<1>10. TagsRight'
  <2>1. ASSUME NEW w \in Version, repo'.tag[w] # 0
        PROVE  repo'.version[repo'.tag[w]] = w
    <3>1. CASE w = r
      BY <1>5, <1>8, <3>1
    <3>2. CASE w # r
      <4>1. repo'.tag[w] = repo.tag[w] /\ repo.version[repo.tag[w]] = w /\ w # "none"
            /\ repo.tag[w] \in Builds!Image
        BY <1>7, <1>8, <2>1, <3>2, VersionAssumption
      <4> QED
        BY <1>8, <4>1
    <3> QED
      BY <3>1, <3>2
  <2> QED
    BY <1>5, <1>8, <2>1 DEF TagsRight
<1> QED
  BY <1>1, <1>2, <1>8, <1>9, <1>10, TagKeeps

LEMMA TaggedKeeps ==
  ASSUME ImagesInv, NEW j \in Job, Builds!Tagged(j)
  PROVE  ImagesInv'
<1> DEFINE r == build[j].ref
           n == Builds!Resolve(r)
           t == [build[j] EXCEPT !.pc = "tagged", !.ref = Latest]
<1>1. /\ build[j].pc = "select" /\ UNCHANGED record /\ build[j] \in BuildJob
      /\ ChoiceRight(build[j]) /\ repo \in Repo
  BY DEF Builds!Tagged, Builds!At, ImagesInv, ImageTypes
<1>2. CASE n = 0
  <2>1. Builds!Become(j, Builds!Idle) /\ UNCHANGED <<repo, late, clash>>
    BY <1>2 DEF Builds!Tagged, Builds!marks
  <2> QED
    BY <1>1, <2>1, IdleBuild, StepKeeps DEF Builds!Changing
<1>3. CASE n # 0
  <2>1. repo' = [repo EXCEPT !.latest = n] /\ Builds!Overtake(j) /\ Builds!Become(j, t)
    BY <1>3 DEF Builds!Tagged
  <2>2. n \in Builds!Image /\ repo.version[n] = build[j].version /\ build[j].version \in Version
    <3>1. CASE r \in Version
      BY <1>1, <1>3, <3>1 DEF Builds!Resolve, ChoiceRight, ImagesInv, TagsRight, Repo
    <3>2. CASE r \notin Version
      BY <1>1, <1>3, <3>2 DEF Builds!Resolve, Builds!Present, ChoiceRight
    <3> QED
      BY <3>1, <3>2
  <2>3. repo' \in Repo /\ repo'.latest = n /\ repo'.version = repo.version /\ repo'.tag = repo.tag
    BY <1>1, <2>1, <2>2 DEF Repo
  <2>4. TagsRight'
    BY <2>2, <2>3 DEF ImagesInv, TagsRight
  <2>5. t \in BuildJob /\ t.pc = "tagged" /\ t.version = build[j].version
    BY <1>1 DEF BuildJob, BuildPcs
  <2> QED
    BY <1>1, <2>1, <2>2, <2>3, <2>4, <2>5, TagKeeps
<1> QED
  BY <1>2, <1>3

(* What a request has read of the default is recorded.                     *)
LEMMA ImageRecordedKeeps ==
  ASSUME ImagesInv, NEW j \in Job, Builds!Recorded(j)
  PROVE  ImagesInv'
<1>1. /\ build[j].pc = "named" /\ Builds!Become(j, Builds!Idle) /\ UNCHANGED repo
      /\ record' = Builds!Entry(build[j].version, build[j].image)
      /\ clash' = (j \in late) /\ late' = late \ {j}
  BY DEF Builds!Recorded, Builds!At
<1>2. /\ build' \in [Job -> BuildJob] /\ build'[j] = Builds!Idle
      /\ \A i \in Job : i # j => build'[i] = build[i]
  BY <1>1, IdleBuild DEF Builds!Become, ImagesInv, ImageTypes
<1>3. \A i \in Job : ChoiceRight(build[i])'
  BY <1>1, <1>2, IdleBuild DEF ImagesInv, ChoiceRight
<1>4. \A i \in Job : Builds!Changing(i)' <=> i # j /\ Builds!Changing(i)
  BY <1>2, IdleBuild DEF Builds!Changing
<1>5. \A i \in Job : Ahead(i)' <=> i # j /\ Ahead(i)
  BY <1>1, <1>4 DEF Ahead
<1>6. DefaultRight /\ Builds!Changing(j)
  BY <1>1 DEF ImagesInv, Builds!Changing
<1>7. ASSUME NEW i \in Job, i \notin late'
      PROVE  ReadRight(build[i])'
  <2>1. CASE i = j
    BY <1>2, <2>1, IdleBuild DEF ReadRight
  <2>2. CASE i # j
    BY <1>1, <1>2, <1>6, <1>7, <2>2 DEF DefaultRight, ReadRight
  <2> QED
    BY <2>1, <2>2
<1>8. repo.latest # 0 /\ j \notin late => RecordRight'
  BY <1>1, <1>6 DEF DefaultRight, ReadRight, RecordRight, Builds!Entry
<1>9. DefaultRight'
  BY <1>1, <1>5, <1>6, <1>7, <1>8 DEF DefaultRight
<1>10. ImageTypes'
  <2>1. clash' \in BOOLEAN
    BY <1>1
  <2> QED
    BY <1>1, <1>2, <1>4, <2>1 DEF ImagesInv, ImageTypes
<1> QED
  BY <1>1, <1>3, <1>9, <1>10 DEF ImagesInv, TagsRight

(* An image is removed, with its tag: whoever has read it as the default   *)
(* knows nothing wrong of a default then.                                  *)
LEMMA RemovedKeeps ==
  ASSUME ImagesInv, NEW j \in Job, NEW n \in Builds!Image, Builds!Removed(j, n)
  PROVE  ImagesInv'
<1> DEFINE rest == [build[j] EXCEPT !.list = @ \ {n}]
           t == IF rest.list = {} THEN Builds!Idle ELSE rest
<1>1. /\ build[j].pc \in {"prune", "reclaim"} /\ Builds!Become(j, t)
      /\ UNCHANGED <<record, late, clash>> /\ build[j] \in BuildJob /\ ~Builds!Changing(j)
  BY DEF Builds!Removed, Builds!marks, ImagesInv, ImageTypes, Builds!Changing
<1>2. t \in BuildJob /\ t.pc \in {"prune", "reclaim", "idle"}
  BY <1>1, IdleBuild DEF BuildJob
<1>3. ChoiceRight(t) /\ ReadRight(t)
  BY <1>2 DEF ChoiceRight, ReadRight
<1>4. CASE UNCHANGED repo
  BY <1>1, <1>2, <1>3, <1>4, StepKeeps DEF Builds!Changing
<1>5. CASE repo' = [version |-> [repo.version EXCEPT ![n] = "gone"],
                    tag |-> [v \in Version |-> IF repo.tag[v] = n THEN 0 ELSE repo.tag[v]],
                    latest |-> IF repo.latest = n THEN 0 ELSE repo.latest]
  <2>1. /\ repo.version \in [Builds!Image -> Known] /\ repo.tag \in [Version -> Builds!Image \cup {0}]
        /\ repo.latest \in Builds!Image \cup {0}
    BY DEF ImagesInv, ImageTypes, Repo
  <2>2. /\ repo'.version = [repo.version EXCEPT ![n] = "gone"]
        /\ repo'.tag = [v \in Version |-> IF repo.tag[v] = n THEN 0 ELSE repo.tag[v]]
        /\ repo'.latest = IF repo.latest = n THEN 0 ELSE repo.latest
    BY <1>5
  <2>3. \A m \in Builds!Image : \/ m # n /\ repo'.version[m] = repo.version[m]
                                \/ m = n /\ repo'.version[m] = "gone"
    BY <2>1, <2>2
  <2>4. repo' \in Repo
    <3>1. /\ repo'.version \in [Builds!Image -> Known]
          /\ repo'.tag \in [Version -> Builds!Image \cup {0}]
          /\ repo'.latest \in Builds!Image \cup {0}
      BY <2>1, <2>2 DEF Known
    <3> QED
      BY <1>5, <2>2, <3>1 DEF Repo
  <2>5. repo'.latest # 0 => /\ repo'.latest = repo.latest /\ repo.latest # 0
                            /\ repo'.version[repo.latest] = repo.version[repo.latest]
    BY <2>1, <2>2, <2>3
  <2>6. TagsRight'
    <3>1. ASSUME NEW w \in Version, repo'.tag[w] # 0
          PROVE  repo'.version[repo'.tag[w]] = w
      <4>1. repo'.tag[w] = repo.tag[w] /\ repo.tag[w] # n /\ repo.tag[w] \in Builds!Image
        BY <2>1, <2>2, <3>1
      <4> QED
        BY <2>3, <3>1, <4>1 DEF ImagesInv, TagsRight
    <3> QED
      BY <2>5, <3>1 DEF ImagesInv, TagsRight
  <2>7. /\ build' \in [Job -> BuildJob] /\ build'[j] = t
        /\ \A i \in Job : i # j => build'[i] = build[i]
    BY <1>1, <1>2 DEF Builds!Become, ImagesInv, ImageTypes
  <2>8. ASSUME NEW i \in Job
        PROVE  ChoiceRight(build[i])'
    <3>1. CASE i = j
      BY <1>2, <2>7, <3>1 DEF ChoiceRight
    <3>2. CASE i # j
      BY <2>3, <2>7, <3>2 DEF ImagesInv, ChoiceRight
    <3> QED
      BY <3>1, <3>2
  <2>9. \A i \in Job : Builds!Changing(i)' <=> Builds!Changing(i)
    BY <1>1, <1>2, <2>7 DEF Builds!Changing
  <2>10. DefaultRight'
    <3>1. DefaultRight
      BY DEF ImagesInv
    <3>2. \A i \in Job : Ahead(i)' <=> Ahead(i)
      BY <1>1, <2>9 DEF Ahead
    <3>3. ASSUME NEW i \in Job, i \notin late'
          PROVE  ReadRight(build[i])'
      <4>1. CASE i = j
        BY <1>2, <2>7, <4>1 DEF ReadRight
      <4>2. CASE i # j
        BY <1>1, <2>5, <2>7, <3>1, <3>3, <4>2 DEF DefaultRight, ReadRight
      <4> QED
        BY <4>1, <4>2
    <3>4. repo'.latest # 0 /\ RecordRight => RecordRight'
      BY <1>1, <2>5 DEF RecordRight
    <3> QED
      BY <1>1, <2>5, <3>1, <3>2, <3>3, <3>4 DEF DefaultRight
  <2> QED
    BY <1>1, <2>4, <2>6, <2>7, <2>8, <2>9, <2>10 DEF ImagesInv, ImageTypes
<1> QED
  BY <1>4, <1>5 DEF Builds!Removed

LEMMA ManageKeeps ==
  ASSUME ImagesInv, Builds!Manage
  PROVE  ImagesInv'
<1>1. ASSUME NEW j \in Job, NEW v \in Version \cup {Latest}, Builds!BuildAsked(j, v)
      PROVE  ImagesInv'
  <2> DEFINE t == [Builds!Idle EXCEPT !.pc = "asked", !.build = TRUE, !.ref = v]
  <2>1. t \in BuildJob /\ ChoiceRight(t) /\ ReadRight(t) /\ t.pc = "asked"
    BY IdleBuild DEF BuildJob, BuildPcs, ChoiceRight, ReadRight
  <2> QED
    BY <1>1, <2>1, StepKeeps DEF Builds!BuildAsked, Builds!Step, Builds!At, Builds!Changing, Builds!marks
<1>2. ASSUME NEW j \in Job, NEW r \in Version \cup Builds!Image, Builds!Select(j, r)
      PROVE  ImagesInv'
  <2> DEFINE n == Builds!Resolve(r)
             t == [Builds!Idle EXCEPT !.pc = "select", !.ref = r, !.version = Builds!VersionOf(n)]
  <2>1. n # 0 /\ build[j].pc = "idle" /\ Builds!Become(j, t) /\ UNCHANGED <<repo, record, late, clash>>
    BY <1>2 DEF Builds!Select, Builds!Step, Builds!At, Builds!marks
  <2>2. /\ repo.version[n] \in Version /\ r \in Version => repo.version[n] = r
        /\ r \notin Version => n = r
        /\ repo.version[n] \in Version
    <3>1. CASE r \in Version
      BY <2>1, <3>1 DEF Builds!Resolve, ImagesInv, TagsRight
    <3>2. CASE r \notin Version
      BY <1>2, <2>1, <3>2 DEF Builds!Resolve, Builds!Present, Builds!Made, ImagesInv, ImageTypes,
                              Repo, Known
    <3> QED
      BY <3>1, <3>2
  <2>3. /\ t \in BuildJob /\ t.pc = "select" /\ t.ref = r /\ t.version = repo.version[n]
    BY <2>1, <2>2, IdleBuild DEF BuildJob, BuildPcs, Known, Builds!VersionOf
  <2>4. ChoiceRight(t) /\ ReadRight(t)
    BY <1>2, <2>2, <2>3 DEF ChoiceRight, ReadRight
  <2> QED
    BY <2>1, <2>3, <2>4, StepKeeps DEF Builds!Changing
<1>3. ASSUME NEW j \in Job, NEW l \in {"prune", "reclaim"}, NEW S \in SUBSET Builds!Image,
             Builds!Step(j, "idle", [Builds!Idle EXCEPT !.pc = l, !.list = S])
      PROVE  ImagesInv'
  <2> DEFINE t == [Builds!Idle EXCEPT !.pc = l, !.list = S]
  <2>1. t \in BuildJob /\ ChoiceRight(t) /\ ReadRight(t) /\ t.pc = l
    BY IdleBuild DEF BuildJob, BuildPcs, ChoiceRight, ReadRight
  <2> QED
    BY <1>3, <2>1, StepKeeps DEF Builds!Step, Builds!At, Builds!Changing, Builds!marks
<1>4. Builds!Prunable \subseteq Builds!Image
  BY DEF Builds!Prunable, Builds!Present, Builds!Made
<1>5. ASSUME NEW j \in Job, Builds!BuildStarted(j)
      PROVE  ImagesInv'
  <2> DEFINE t == [build[j] EXCEPT !.pc = "building"]
  <2>1. build[j].pc = "asked" /\ build[j] \in BuildJob /\ ChoiceRight(build[j])
    BY <1>5 DEF Builds!BuildStarted, Builds!At, ImagesInv, ImageTypes
  <2>2. t \in BuildJob /\ ChoiceRight(t) /\ ReadRight(t) /\ t.pc = "building"
    BY <2>1 DEF BuildJob, BuildPcs, ChoiceRight, ReadRight
  <2> QED
    BY <1>5, <2>1, <2>2, StepKeeps DEF Builds!BuildStarted, Builds!Changing, Builds!marks
<1>6. ASSUME NEW j \in Job, Builds!BuildFailed(j)
      PROVE  ImagesInv'
  BY <1>6, IdleBuild, StepKeeps DEF Builds!BuildFailed, Builds!At, Builds!Changing, Builds!marks
<1>7. ASSUME NEW j \in Job, Builds!VersionRead(j)
      PROVE  ImagesInv'
  <2>1. PICK v \in {Builds!VersionOf(repo.latest), "none"} :
          Builds!Step(j, "built", [build[j] EXCEPT !.pc = "versioned", !.ref = Latest, !.version = v])
    BY <1>7 DEF Builds!VersionRead
  <2> DEFINE t == [build[j] EXCEPT !.pc = "versioned", !.ref = Latest, !.version = v]
  <2>2. build[j].pc = "built" /\ build[j] \in BuildJob /\ repo \in Repo
    BY <2>1 DEF Builds!Step, Builds!At, ImagesInv, ImageTypes
  <2>3. v \in Known
    BY <2>2 DEF Builds!VersionOf, Repo, Known
  <2>4. t \in BuildJob /\ t.pc = "versioned" /\ t.version = v
    BY <2>2, <2>3 DEF BuildJob, BuildPcs
  <2>5. ChoiceRight(t) /\ ReadRight(t)
    BY <2>4 DEF ChoiceRight, ReadRight, Builds!VersionOf
  <2> QED
    BY <2>1, <2>2, <2>4, <2>5, StepKeeps DEF Builds!Step, Builds!Changing, Builds!marks
<1>8. ASSUME NEW j \in Job, Builds!IdRead(j)
      PROVE  ImagesInv'
  <2>1. PICK n \in {repo.latest, 0} :
          Builds!Step(j, build[j].pc, [build[j] EXCEPT !.pc = "named", !.image = n])
    BY <1>8 DEF Builds!IdRead
  <2> DEFINE t == [build[j] EXCEPT !.pc = "named", !.image = n]
  <2>2. build[j].pc \in {"versioned", "tagged"} /\ build[j] \in BuildJob /\ repo \in Repo
    BY <1>8 DEF Builds!IdRead, ImagesInv, ImageTypes
  <2>3. t \in BuildJob /\ t.pc = "named" /\ t.version = build[j].version /\ t.image = n
    BY <2>2 DEF BuildJob, BuildPcs, Repo
  <2>4. j \notin late => ReadRight(t)
    BY <2>2, <2>3 DEF ImagesInv, DefaultRight, ReadRight
  <2> QED
    BY <2>1, <2>2, <2>3, <2>4, StepKeeps DEF Builds!Step, Builds!Changing, ChoiceRight, Builds!marks
<1>9. ASSUME NEW t \in Tenant, NEW n \in Builds!Image \cup {0}, Builds!Rebuild(t, n)
      PROVE  ImagesInv'
  BY <1>9 DEF Builds!Rebuild, Builds!marks, ImagesInv, ImageTypes, TagsRight, ChoiceRight,
              DefaultRight, ReadRight, RecordRight, Ahead, Builds!Changing
<1>10. ASSUME NEW j \in Job, NEW S \in SUBSET Builds!Image, Builds!Prune(j, S)
       PROVE  ImagesInv'
  BY <1>3, <1>4, <1>10 DEF Builds!Prune
<1>11. ASSUME NEW j \in Job, Builds!Reclaim(j)
       PROVE  ImagesInv'
  <2>1. PICK S \in SUBSET Builds!Image :
          Builds!Step(j, "idle", [Builds!Idle EXCEPT !.pc = "reclaim", !.list = S])
    BY <1>4, <1>11 DEF Builds!Reclaim
  <2> QED
    BY <1>3, <2>1
<1> QED
  BY <1>1, <1>2, <1>5, <1>6, <1>7, <1>8, <1>9, <1>10, <1>11, RemovedKeeps, BuiltKeeps,
     ImageRecordedKeeps, TaggedKeeps DEF Builds!Manage

(* The images of the run are those of their module.                        *)
ImagesRight == part = "images" => ImagesInv

(* Once no default waits for its record, the record has nothing that is    *)
(* not of the default image, whatever was built, chosen and removed at     *)
(* once and whatever docker did not answer, unless the last to write it    *)
(* had been overtaken by another's default (admin.routes.js:1249).         *)
THEOREM CurrentImageRecorded == PartSpec => []CurrentRecorded
<1>1. PartInit => ImagesRight
  BY ImagesInit DEF PartInit, ImagesRight
<1>2. /\ ImagesRight
      /\ [PartNext]_<<part, vars, skillVars, configVars, lineVars, imageVars, pageVars, panelVars>>
      => ImagesRight'
  <2> SUFFICES ASSUME ImagesRight, part' = "images", part' = part,
                      Builds!Manage \/ UNCHANGED imageVars
               PROVE  ImagesInv'
    BY DEF PartNext, ImagesRight
  <2>1. CASE Builds!Manage
    BY <2>1, ManageKeeps DEF ImagesRight
  <2>2. CASE UNCHANGED imageVars
    BY <2>2 DEF imageVars, ImagesRight, ImagesInv, ImageTypes, TagsRight, ChoiceRight, DefaultRight,
                ReadRight, RecordRight, Ahead, Builds!Changing
  <2> QED
    BY <2>1, <2>2
<1>3. ImagesRight => CurrentRecorded
  BY DEF ImagesRight, ImagesInv, DefaultRight, RecordRight, Ahead, CurrentRecorded,
         Builds!CurrentRecorded, Builds!VersionOf
<1> QED
  BY <1>1, <1>2, <1>3, PTL DEF PartSpec

-----------------------------------------------------------------------------
(* The tenant's page.  A flow covers the page when whatever becomes of it  *)
(* hides the overlay in the end; the queue timer's fetch does only if it   *)
(* has put up the overlay itself.  While the overlay is up, one covers.    *)
Fetching == {"info", "again"}
Hiding == {"accounts", "status", "sign", "settle", "post", "mine"}
Covers(r) == \/ r.pc \in Hiding
             \/ r.pc \in Fetching /\ (r.kind = "poll" => r.opened)

(* The timer's flow only asks and fetches; the fetch of a shell is covered *)
(* by its own overlay.                                                     *)
FlowRight(r) == /\ r.kind = "poll" => r.pc \in {"asking"} \cup Fetching
                /\ r.pc \in Fetching /\ r.shell => r.opened
PageInv == /\ flow \in [Flow -> Page!Pending]
           /\ {shown, saved, wallet, poll} \subseteq Account \cup {NoAddr}
           /\ \A f \in Flow : FlowRight(flow[f])
           /\ loading => \E f \in Flow : Covers(flow[f])

(* A flow that covers the page after its step, or hides the overlay, or    *)
(* leaves it as it is and did not cover before.                            *)
LEMMA FlowKeeps ==
  ASSUME PageInv, NEW f \in Flow, NEW r \in Page!Pending, Page!Become(f, r), FlowRight(r),
         {shown', saved', wallet', poll'} \subseteq Account \cup {NoAddr},
         \/ Covers(r)
         \/ ~loading'
         \/ (loading' => loading) /\ ~Covers(flow[f])
  PROVE  PageInv'
<1>1. /\ flow' \in [Flow -> Page!Pending] /\ flow'[f] = r
      /\ \A g \in Flow : g # f => flow'[g] = flow[g]
  BY DEF Page!Become, PageInv
<1>2. \A g \in Flow : FlowRight(flow'[g])
  BY <1>1 DEF PageInv
<1>3. loading' => \E g \in Flow : Covers(flow'[g])
  BY <1>1 DEF PageInv
<1> QED
  BY <1>1, <1>2, <1>3 DEF PageInv

LEMMA IdleFlow == Page!Idle \in Page!Pending /\ FlowRight(Page!Idle) /\ Page!Idle.pc = "idle"
                  /\ ~Covers(Page!Idle)
BY DEF Page!Idle, Page!Pending, Page!Pcs, Page!Kinds, FlowRight, Covers, Hiding, Fetching

LEMMA PageStart == Page!Init => PageInv
<1> SUFFICES ASSUME Page!Init
             PROVE  PageInv
  OBVIOUS
<1> DEFINE r == [Page!Idle EXCEPT !.pc = "mount", !.kind = "mount"]
<1>1. r \in Page!Pending /\ FlowRight(r)
  BY DEF Page!Idle, Page!Pending, Page!Pcs, Page!Kinds, FlowRight, Hiding, Fetching
<1>2. /\ ~loading /\ \E f \in Flow : flow = [g \in Flow |-> IF g = f THEN r ELSE Page!Idle]
      /\ {shown, saved, wallet, poll} \subseteq Account \cup {NoAddr}
  BY DEF Page!Init
<1>3. flow \in [Flow -> Page!Pending] /\ \A f \in Flow : FlowRight(flow[f])
  BY <1>1, <1>2, IdleFlow
<1> QED
  BY <1>2, <1>3 DEF PageInv

(* A flow that is started: the page is covered as it was, or by it.        *)
LEMMA StartKeeps ==
  ASSUME PageInv, NEW f \in Flow, NEW k, NEW l, NEW a \in Account \cup {NoAddr},
         <<k, l>> \in {<<"switch", "revoke">>, <<"connect", "accounts">>, <<"enter", "sign">>,
                       <<"start", "sign">>, <<"control", "confirm">>, <<"poll", "asking">>},
         Page!Start(f, k, l, a),
         {shown', saved', wallet', poll'} \subseteq Account \cup {NoAddr},
         UNCHANGED loading \/ l \in Hiding
  PROVE  PageInv'
<1> DEFINE r == [Page!Idle EXCEPT !.pc = l, !.kind = k, !.addr = a]
<1>1. /\ r \in Page!Pending /\ FlowRight(r) /\ (l \in Hiding => Covers(r))
  BY IdleFlow DEF Page!Pending, Page!Pcs, Page!Kinds, FlowRight, Covers, Hiding, Fetching
<1>2. Page!Become(f, r) /\ ~Covers(flow[f])
  BY DEF Page!Start, Page!At, Covers, Hiding, Fetching
<1> QED
  BY <1>1, <1>2, FlowKeeps

(* The events.                                                             *)
LEMMA EventsKeep ==
  ASSUME PageInv, Page!Events
  PROVE  PageInv'
<1>1. ASSUME NEW w \in Account \cup {NoAddr}, Page!Announce(w)
      PROVE  PageInv'
  <2>1. {shown', saved', wallet', poll'} \subseteq Account \cup {NoAddr} /\ UNCHANGED loading
    BY <1>1 DEF Page!Announce, Page!refs, PageInv
  <2>2. CASE UNCHANGED flow
    BY <2>1, <2>2 DEF PageInv
  <2>3. ASSUME NEW f \in Flow, Page!Start(f, "switch", "revoke", w)
        PROVE  PageInv'
    BY <2>1, <2>3, StartKeeps
  <2> QED
    BY <1>1, <2>2, <2>3 DEF Page!Announce
<1>2. ASSUME NEW f \in Flow, Page!ConnectWallet(f)
      PROVE  PageInv'
  <2>1. {shown', saved', wallet', poll'} \subseteq Account \cup {NoAddr}
    BY <1>2 DEF Page!ConnectWallet, Page!refs, PageInv
  <2> QED
    BY <1>2, <2>1, StartKeeps DEF Page!ConnectWallet, Hiding
<1>3. ASSUME NEW f \in Flow, Page!Enter(f)
      PROVE  PageInv'
  <2>1. {shown', saved', wallet', poll'} \subseteq Account \cup {NoAddr}
    BY <1>3 DEF Page!Enter, Page!refs, PageInv
  <2> QED
    BY <1>3, <2>1, StartKeeps DEF Page!Enter, Hiding
<1>4. ASSUME NEW f \in Flow, Page!RestartContainer(f)
      PROVE  PageInv'
  <2>1. {shown', saved', wallet', poll'} \subseteq Account \cup {NoAddr}
    BY <1>4 DEF Page!RestartContainer, Page!refs, PageInv
  <2>2. shown \in Account \cup {NoAddr}
    BY DEF PageInv
  <2> QED
    BY <1>4, <2>1, <2>2, StartKeeps DEF Page!RestartContainer, Hiding
<1>5. ASSUME NEW f \in Flow, Page!Control(f)
      PROVE  PageInv'
  <2>1. {shown', saved', wallet', poll'} \subseteq Account \cup {NoAddr}
    BY <1>5 DEF Page!Control, Page!refs, PageInv
  <2> QED
    BY <1>5, <2>1, StartKeeps DEF Page!Control
<1>6. ASSUME NEW f \in Flow, Page!Tick(f)
      PROVE  PageInv'
  <2>1. {shown', saved', wallet', poll'} \subseteq Account \cup {NoAddr}
        /\ poll \in Account \cup {NoAddr}
    BY <1>6 DEF Page!Tick, Page!refs, PageInv
  <2> QED
    BY <1>6, <2>1, StartKeeps DEF Page!Tick
<1>7. CASE Page!CancelWaiting
  BY <1>7 DEF Page!CancelWaiting, PageInv
<1> QED
  BY <1>1, <1>2, <1>3, <1>4, <1>5, <1>6, <1>7 DEF Page!Events

(* What the flows do with an address, up to their next answer.             *)
LEMMA HandleKeeps ==
  ASSUME PageInv, NEW f \in Flow, NEW a \in Account \cup {NoAddr}, Page!HandleAddress(f, a),
         flow[f].kind # "poll", saved' \in Account \cup {NoAddr}, UNCHANGED <<wallet, poll>>
  PROVE  PageInv'
<1> DEFINE r == [flow[f] EXCEPT !.pc = "status", !.addr = a]
<1>1. r \in Page!Pending /\ r.pc = "status" /\ r.kind = flow[f].kind
  BY DEF PageInv, Page!Pending, Page!Pcs
<1> FlowRight(r) /\ Covers(r)
  BY <1>1 DEF FlowRight, Covers, Hiding, Fetching
<1>2. Page!Become(f, r) /\ {shown', saved', wallet', poll'} \subseteq Account \cup {NoAddr}
  BY DEF Page!HandleAddress, PageInv
<1> QED
  BY <1>1, <1>2, FlowKeeps

(* The fetch of a flow that is no poll covers, and so does a poll's that   *)
(* has put up the overlay.                                                 *)
LEMMA FetchKeeps ==
  ASSUME PageInv, NEW f \in Flow, NEW r \in Page!Pending, Page!Become(f, r), r.pc = "info",
         r.shell => r.opened, r.kind = "poll" => r.opened \/ (loading /\ ~Covers(flow[f])),
         {shown', saved', wallet', poll'} \subseteq Account \cup {NoAddr}
  PROVE  PageInv'
<1>1. FlowRight(r) /\ (Covers(r) \/ (loading /\ ~Covers(flow[f])))
  BY DEF FlowRight, Covers, Fetching
<1> QED
  BY <1>1, FlowKeeps

LEMMA ShellKeeps ==
  ASSUME PageInv, NEW f \in Flow, Page!Queue(f) \/ Page!Limit(f) \/ Page!Present(f),
         flow[f].kind # "poll", UNCHANGED wallet
  PROVE  PageInv'
<1>1. flow[f] \in Page!Pending
  BY DEF PageInv
<1>2. {shown', saved', wallet', poll'} \subseteq Account \cup {NoAddr}
  BY <1>1 DEF Page!Queue, Page!Limit, Page!Present, PageInv, Page!Pending
<1>3. PICK r \in Page!Pending : /\ Page!Become(f, r) /\ r.pc = "info" /\ r.kind = flow[f].kind
                                /\ r.shell => r.opened
  <2>1. CASE Page!Queue(f) \/ Page!Limit(f)
    <3> DEFINE r == [flow[f] EXCEPT !.pc = "info", !.shell = TRUE, !.opened = TRUE]
    <3>1. r \in Page!Pending /\ r.pc = "info" /\ r.kind = flow[f].kind /\ r.opened
      BY <1>1 DEF Page!Pending, Page!Pcs
    <3>2. Page!Become(f, r)
      BY <2>1 DEF Page!Queue, Page!Limit
    <3> QED
      BY <3>1, <3>2
  <2>2. CASE Page!Present(f)
    <3> DEFINE r == [flow[f] EXCEPT !.pc = "info", !.shell = FALSE, !.opened = FALSE]
    <3>1. r \in Page!Pending /\ r.pc = "info" /\ r.kind = flow[f].kind /\ ~r.shell
      BY <1>1 DEF Page!Pending, Page!Pcs
    <3>2. Page!Become(f, r)
      BY <2>2 DEF Page!Present
    <3> QED
      BY <3>1, <3>2
  <2> QED
    BY <2>1, <2>2
<1> QED
  BY <1>2, <1>3, FetchKeeps

LEMMA EndKeeps ==
  ASSUME PageInv, NEW f \in Flow, Page!End(f),
         ~loading' \/ (UNCHANGED loading /\ ~Covers(flow[f])),
         {shown', saved', wallet', poll'} \subseteq Account \cup {NoAddr}
  PROVE  PageInv'
BY IdleFlow, FlowKeeps DEF Page!End

LEMMA FlowGotoKeeps ==
  ASSUME PageInv, NEW f \in Flow, NEW l \in Hiding \cup {"again"}, Page!Goto(f, l),
         l = "again" => flow[f].pc = "info" /\ UNCHANGED loading,
         l \in Hiding => flow[f].kind # "poll",
         {shown', saved', wallet', poll'} \subseteq Account \cup {NoAddr}
  PROVE  PageInv'
<1> DEFINE r == [flow[f] EXCEPT !.pc = l]
<1>1. /\ r \in Page!Pending /\ r.pc = l /\ r.kind = flow[f].kind /\ r.shell = flow[f].shell
      /\ r.opened = flow[f].opened
  BY DEF PageInv, Page!Pending, Page!Pcs, Hiding
<1>2. CASE l \in Hiding
  <2>1. FlowRight(r) /\ Covers(r)
    BY <1>1, <1>2 DEF FlowRight, Covers, Hiding, Fetching
  <2> QED
    BY <2>1, <1>1, FlowKeeps DEF Page!Goto
<1>3. CASE l = "again"
  <2>1. FlowRight(r) /\ (Covers(r) <=> Covers(flow[f]))
    BY <1>1, <1>3 DEF PageInv, FlowRight, Covers, Hiding, Fetching
  <2> QED
    BY <2>1, <1>1, <1>3, FlowKeeps DEF Page!Goto
<1> QED
  BY <1>2, <1>3

(* The answer to a fetch, and what its caller does then.                   *)
LEMMA ResumeKeeps ==
  ASSUME PageInv, NEW f \in Flow, flow[f].pc \in Fetching,
         NEW s \in Account \cup {NoAddr}, NEW c, NEW v \in Account \cup {NoAddr},
         Page!Resume(f, s, c, v)
  PROVE  PageInv'
<1> DEFINE k == flow[f].kind
           hidden == IF flow[f].opened THEN FALSE ELSE loading
<1>1. flow[f] \in Page!Pending /\ FlowRight(flow[f])
  BY DEF PageInv
<1>2. {shown', saved', wallet', poll'} \subseteq Account \cup {NoAddr}
  BY <1>1 DEF Page!Resume, PageInv, Page!Pending
<1>3. CASE k = "poll"
  <2>1. Page!End(f) /\ loading' = hidden
    BY <1>3 DEF Page!Resume
  <2>2. flow[f].opened \/ ~Covers(flow[f])
    BY <1>3 DEF Covers, Hiding, Fetching
  <2> QED
    BY <1>2, <2>1, <2>2, EndKeeps
<1>4. CASE k = "connect"
  <2>1. ~loading' /\ (Page!End(f) \/ Page!Goto(f, "mine"))
    BY <1>4 DEF Page!Resume
  <2>2. CASE Page!End(f)
    BY <1>2, <2>1, <2>2, EndKeeps
  <2>3. CASE Page!Goto(f, "mine")
    BY <1>2, <1>4, <2>3, FlowGotoKeeps DEF Hiding
  <2> QED
    BY <2>1, <2>2, <2>3
<1>5. CASE k \notin {"poll", "connect"}
  <2>1. Page!End(f) /\ loading' = (flow[f].shell /\ hidden)
    BY <1>5 DEF Page!Resume
  <2>2. ~loading'
    BY <1>1, <2>1 DEF FlowRight
  <2> QED
    BY <1>2, <2>1, <2>2, EndKeeps
<1> QED
  BY <1>3, <1>4, <1>5

(* The steps that put up the overlay for a signing.                        *)
LEMMA SignKeeps ==
  ASSUME PageInv, NEW f \in Flow, NEW b \in BOOLEAN, flow[f].kind # "poll",
         Page!Sign(f, b), UNCHANGED <<connected, waiting, shown, saved, poll, wallet>>
  PROVE  PageInv'
<1> DEFINE r == [flow[f] EXCEPT !.pc = "sign", !.retry = b]
<1>1. r \in Page!Pending /\ r.pc = "sign" /\ r.kind = flow[f].kind
  BY DEF PageInv, Page!Pending, Page!Pcs
<1>2. FlowRight(r) /\ Covers(r)
  BY <1>1 DEF FlowRight, Covers, Hiding, Fetching
<1>3. Page!Become(f, r) /\ {shown', saved', wallet', poll'} \subseteq Account \cup {NoAddr}
  BY DEF Page!Sign, PageInv
<1> QED
  BY <1>1, <1>2, <1>3, FlowKeeps

LEMMA AnswersKeep ==
  ASSUME PageInv, NEW f \in Flow,
         \/ Page!Mounted(f) \/ Page!Compared(f) \/ Page!Revoked(f) \/ Page!Accounts(f)
         \/ Page!StatusAnswer(f) \/ Page!Stage(f) \/ Page!Confirmed(f) \/ Page!Signed(f)
         \/ Page!SignFailed(f) \/ Page!Settled(f) \/ Page!Entered(f) \/ Page!Controlled(f)
         \/ Page!Ticked(f) \/ Page!InfoAnswer(f) \/ Page!InfoAgain(f) \/ Page!MineLoaded(f)
  PROVE  PageInv'
<1> DEFINE Addresses == {shown', saved', wallet', poll'} \subseteq Account \cup {NoAddr}
<1>1. /\ flow[f] \in Page!Pending /\ FlowRight(flow[f]) /\ flow[f].addr \in Account \cup {NoAddr}
      /\ saved \in Account \cup {NoAddr} /\ wallet \in Account \cup {NoAddr}
      /\ shown \in Account \cup {NoAddr} /\ poll \in Account \cup {NoAddr}
  BY DEF PageInv, Page!Pending
<1>2. flow[f].pc \notin {"asking"} \cup Fetching => flow[f].kind # "poll"
  BY <1>1 DEF FlowRight
<1>3. flow[f].pc \notin Hiding \cup Fetching => ~Covers(flow[f])
  BY DEF Covers
<1>4. CASE Page!Mounted(f)
  <2>1. flow[f].pc = "mount" /\ flow[f].kind # "poll" /\ ~Covers(flow[f])
    BY <1>2, <1>3, <1>4 DEF Page!Mounted, Page!At, Fetching, Hiding
  <2>2. CASE Page!Become(f, [flow[f] EXCEPT !.pc = "compare", !.addr = wallet])
             /\ UNCHANGED <<loading, Page!refs>>
    <3> DEFINE r == [flow[f] EXCEPT !.pc = "compare", !.addr = wallet]
    <3>1. r \in Page!Pending /\ r.pc = "compare" /\ r.kind = flow[f].kind
      BY <1>1 DEF Page!Pending, Page!Pcs
    <3>2. FlowRight(r)
      BY <2>1, <3>1 DEF FlowRight, Fetching
    <3>3. Addresses
      BY <1>1, <1>4, <2>2 DEF Page!Mounted, Page!refs
    <3> QED
      BY <2>1, <2>2, <3>1, <3>2, <3>3, FlowKeeps
  <2>3. CASE Page!HandleAddress(f, saved) /\ UNCHANGED saved
    BY <1>1, <1>4, <2>1, <2>3, HandleKeeps DEF Page!Mounted
  <2>4. CASE Page!End(f) /\ UNCHANGED <<loading, Page!refs>>
    <3>1. Addresses
      BY <1>1, <1>4, <2>4 DEF Page!Mounted, Page!refs
    <3> QED
      BY <2>1, <2>4, <3>1, EndKeeps
  <2> QED
    BY <1>4, <2>2, <2>3, <2>4 DEF Page!Mounted
<1>5. CASE Page!Compared(f)
  <2>1. flow[f].kind # "poll" /\ saved' \in Account \cup {NoAddr}
    BY <1>1, <1>2, <1>5 DEF Page!Compared, Page!At, Fetching
  <2> QED
    BY <1>1, <1>5, <2>1, HandleKeeps DEF Page!Compared
<1>6. CASE Page!Revoked(f)
  <2>1. flow[f].kind # "poll"
    BY <1>2, <1>6 DEF Page!Revoked, Page!At, Fetching
  <2> QED
    BY <1>1, <1>6, <2>1, HandleKeeps DEF Page!Revoked
<1>7. CASE Page!Accounts(f)
  <2>1. flow[f].kind # "poll"
    BY <1>2, <1>7 DEF Page!Accounts, Page!At, Fetching
  <2>2. CASE Page!HandleAddress(f, wallet) /\ UNCHANGED saved
    BY <1>1, <1>7, <2>1, <2>2, HandleKeeps DEF Page!Accounts
  <2>3. CASE Page!End(f) /\ loading' = FALSE /\ UNCHANGED Page!refs
    <3>1. Addresses
      BY <1>1, <1>7, <2>3 DEF Page!Accounts, Page!refs
    <3> QED
      BY <2>3, <3>1, EndKeeps
  <2> QED
    BY <1>7, <2>2, <2>3 DEF Page!Accounts
<1>8. CASE Page!StatusAnswer(f)
  <2>1. flow[f].kind # "poll" /\ UNCHANGED wallet
    BY <1>2, <1>8 DEF Page!StatusAnswer, Page!At, Fetching
  <2>2. CASE Page!Queue(f) \/ Page!Present(f)
    BY <2>1, <2>2, ShellKeeps
  <2>3. ASSUME NEW b \in BOOLEAN, Page!Sign(f, b), UNCHANGED <<Page!refs, poll>>
        PROVE  PageInv'
    BY <2>1, <2>3, SignKeeps DEF Page!refs
  <2>4. CASE Page!Busy(f)
    <3>1. Page!End(f) /\ ~loading' /\ Addresses
      BY <1>1, <2>1, <2>4 DEF Page!Busy, Page!Failed, Page!Over, Page!refs
    <3> QED
      BY <3>1, EndKeeps
  <2> QED
    BY <1>8, <2>2, <2>3, <2>4 DEF Page!StatusAnswer
<1>9. CASE Page!Stage(f)
  <2>1. flow[f].pc = "sign" /\ UNCHANGED <<shown, saved, wallet, poll, flow>>
    BY <1>9 DEF Page!Stage, Page!At, Page!refs
  <2> QED
    BY <2>1 DEF PageInv, Covers, Hiding
<1>10. CASE Page!Confirmed(f)
  <2>1. flow[f].kind # "poll" /\ Addresses /\ ~Covers(flow[f])
    BY <1>1, <1>2, <1>3, <1>10 DEF Page!Confirmed, Page!At, Page!refs, Fetching, Hiding
  <2>2. CASE Page!Become(f, [flow[f] EXCEPT !.pc = "post", !.addr = shown])
    <3> DEFINE r == [flow[f] EXCEPT !.pc = "post", !.addr = shown]
    <3>1. r \in Page!Pending /\ r.pc = "post" /\ r.kind = flow[f].kind
      BY <1>1 DEF Page!Pending, Page!Pcs
    <3>2. FlowRight(r) /\ Covers(r)
      BY <2>1, <3>1 DEF FlowRight, Covers, Hiding, Fetching
    <3> QED
      BY <2>1, <2>2, <3>1, <3>2, FlowKeeps
  <2>3. CASE Page!End(f) /\ UNCHANGED loading
    BY <2>1, <2>3, EndKeeps
  <2> QED
    BY <1>10, <2>2, <2>3 DEF Page!Confirmed
<1>11. CASE Page!Signed(f)
  <2>1. flow[f].kind # "poll" /\ UNCHANGED wallet
    BY <1>2, <1>11 DEF Page!Signed, Page!At, Fetching
  <2>2. CASE Page!Queue(f) \/ Page!Limit(f)
    BY <2>1, <2>2, ShellKeeps
  <2>3. CASE Page!Goto(f, "settle") /\ UNCHANGED <<loading, Page!refs, poll>>
    BY <1>1, <2>1, <2>3, FlowGotoKeeps DEF Page!refs, Hiding
  <2> QED
    BY <1>11, <2>2, <2>3 DEF Page!Signed
<1>12. CASE Page!SignFailed(f)
  <2>1. flow[f].kind # "poll" /\ flow[f].pc = "sign" /\ UNCHANGED wallet
    BY <1>2, <1>12 DEF Page!SignFailed, Page!At, Fetching
  <2>2. CASE Page!Failed(f)
    <3>1. Page!End(f) /\ ~loading' /\ Addresses
      BY <1>1, <2>1, <2>2 DEF Page!Failed, Page!Over, Page!refs
    <3> QED
      BY <3>1, EndKeeps
  <2>3. CASE Page!Become(f, [flow[f] EXCEPT !.retry = TRUE]) /\ UNCHANGED <<Page!refs, poll>>
    <3> DEFINE r == [flow[f] EXCEPT !.retry = TRUE]
    <3>1. r \in Page!Pending /\ r.pc = "sign" /\ r.kind = flow[f].kind
      BY <1>1, <2>1 DEF Page!Pending
    <3>2. FlowRight(r) /\ Covers(r)
      BY <2>1, <3>1 DEF FlowRight, Covers, Hiding, Fetching
    <3>3. Addresses
      BY <1>1, <2>1, <2>3 DEF Page!refs
    <3> QED
      BY <2>3, <3>1, <3>2, <3>3, FlowKeeps
  <2> QED
    BY <1>12, <2>2, <2>3 DEF Page!SignFailed
<1>13. CASE Page!Settled(f)
  <2>1. flow[f].kind # "poll"
    BY <1>2, <1>13 DEF Page!Settled, Page!At, Fetching
  <2> QED
    BY <1>13, <2>1, ShellKeeps DEF Page!Settled
<1>14. CASE Page!Entered(f)
  <2>1. flow[f].kind # "poll" /\ Addresses
    BY <1>1, <1>14 DEF Page!Entered, Page!refs
  <2>2. CASE loading' = FALSE /\ Page!End(f)
    BY <2>1, <2>2, EndKeeps
  <2>3. CASE Page!Goto(f, "settle")
    BY <2>1, <2>3, FlowGotoKeeps DEF Hiding
  <2> QED
    BY <1>14, <2>2, <2>3 DEF Page!Entered
<1>15. CASE Page!Controlled(f)
  <2>1. flow[f].kind # "poll" /\ Addresses
    BY <1>1, <1>2, <1>15 DEF Page!Controlled, Page!At, Page!refs, Fetching
  <2>2. CASE Page!FetchInfo(f, flow[f].addr, FALSE)
    <3> DEFINE r == [flow[f] EXCEPT !.pc = "info", !.addr = flow[f].addr, !.shell = FALSE,
                                    !.opened = ~loading]
    <3>1. r \in Page!Pending /\ r.pc = "info" /\ r.kind = flow[f].kind /\ ~r.shell
      BY <1>1 DEF Page!Pending, Page!Pcs
    <3> QED
      BY <2>1, <2>2, <3>1, FetchKeeps DEF Page!FetchInfo
  <2>3. CASE loading' = FALSE /\ Page!End(f)
    BY <2>1, <2>3, EndKeeps
  <2> QED
    BY <1>15, <2>2, <2>3 DEF Page!Controlled
<1>16. CASE Page!Ticked(f)
  <2>1. Addresses /\ ~Covers(flow[f])
    BY <1>1, <1>3, <1>16 DEF Page!Ticked, Page!At, Page!refs, Fetching, Hiding
  <2>2. CASE Page!FetchInfo(f, flow[f].addr, FALSE)
    <3> DEFINE r == [flow[f] EXCEPT !.pc = "info", !.addr = flow[f].addr, !.shell = FALSE,
                                    !.opened = ~loading]
    <3>1. r \in Page!Pending /\ r.pc = "info" /\ ~r.shell /\ (r.opened \/ loading)
      BY <1>1 DEF Page!Pending, Page!Pcs
    <3> QED
      BY <2>1, <2>2, <3>1, FetchKeeps DEF Page!FetchInfo
  <2>3. CASE Page!End(f) /\ UNCHANGED loading
    BY <2>1, <2>3, EndKeeps
  <2> QED
    BY <1>16, <2>2, <2>3 DEF Page!Ticked
<1>17. CASE Page!InfoAnswer(f)
  <2>1. flow[f].pc = "info"
    BY <1>17 DEF Page!InfoAnswer, Page!At
  <2>2. ASSUME NEW s \in Account \cup {NoAddr}, NEW c, NEW v \in Account \cup {NoAddr},
               Page!Resume(f, s, c, v)
        PROVE  PageInv'
    BY <2>1, <2>2, ResumeKeeps DEF Fetching
  <2>3. CASE Page!Goto(f, "again") /\ UNCHANGED <<loading, Page!refs, wallet, poll>>
    BY <1>1, <2>1, <2>3, FlowGotoKeeps DEF Page!refs, Hiding
  <2> QED
    BY <1>1, <1>17, <2>2, <2>3 DEF Page!InfoAnswer
<1>18. CASE Page!InfoAgain(f)
  BY <1>1, <1>18, ResumeKeeps DEF Page!InfoAgain, Page!At, Fetching
<1>19. CASE Page!MineLoaded(f)
  <2>1. Page!End(f) /\ ~loading' /\ Addresses
    BY <1>1, <1>19 DEF Page!MineLoaded, Page!refs
  <2> QED
    BY <2>1, EndKeeps
<1> QED
  BY <1>4, <1>5, <1>6, <1>7, <1>8, <1>9, <1>10, <1>11, <1>12, <1>13, <1>14, <1>15, <1>16, <1>17,
     <1>18, <1>19

(* The page of the run is the one of its module.                           *)
PageRight == part = "page" => PageInv

(* Once all flows of the tenant's page have ended, its overlay is down and *)
(* its buttons can be pressed, whichever flows overlapped and failed       *)
(* (UserCenter.vue:1270).                                                   *)
THEOREM PageNotFrozen == PartSpec => []LoadingEnds
<1>1. PartInit => PageRight
  BY PageStart DEF PartInit, PageRight
<1>2. /\ PageRight
      /\ [PartNext]_<<part, vars, skillVars, configVars, lineVars, imageVars, pageVars, panelVars>>
      => PageRight'
  <2> SUFFICES ASSUME PageRight, part' = "page", part' = part,
                      Page!Next \/ UNCHANGED pageVars
               PROVE  PageInv'
    BY DEF PartNext, PageRight
  <2>1. CASE Page!Next
    BY <2>1, EventsKeep, AnswersKeep DEF PageRight, Page!Next, Page!Answers
  <2>2. CASE UNCHANGED pageVars
    BY <2>2 DEF pageVars, PageRight, PageInv, Covers, FlowRight
  <2> QED
    BY <2>1, <2>2
<1>3. PageRight => LoadingEnds
  <2> SUFFICES ASSUME PageInv, \A f \in Flow : flow[f].pc = "idle"
               PROVE  ~loading
    BY DEF PageRight, LoadingEnds, Page!LoadingEnds, Page!At
  <2> QED
    BY DEF PageInv, Covers, Hiding, Fetching
<1> QED
  BY <1>1, <1>2, <1>3, PTL DEF PartSpec

-----------------------------------------------------------------------------
(* The configuration of a tenant's models.  What the scripts still to run  *)
(* will make of the files is fixed when the list of providers has been     *)
(* read: the list they leave, the keys they set and the keys they remove.  *)
KeyScript == [do : {"key"}, ref : Config!Ref, value : BOOLEAN]
Script == KeyScript \cup [do : {"override"}, value : BOOLEAN]
            \cup [do : {"list"}, value : [Route -> {"set", "null", "keep"}]] \cup {Config!Read}
Scripts(s) == {s[i] : i \in DOMAIN s}
LastRead(s) == /\ s # <<>> /\ s[Len(s)] = Config!Read
               /\ \A i \in 1 .. Len(s) - 1 : s[i].do \notin {"read", "list"}
NoRead(s) == /\ \A c \in Scripts(s) : c.do # "read"
             /\ s # <<>> => \A c \in Scripts(Tail(s)) : c.do # "list"

ConfigTypes ==
  /\ listed \in [Route -> Nat] /\ keys \in [Config!Ref -> Nat] /\ asks \in Nat
  /\ todo \in Seq(Script) /\ answer \in {"none", "ok", "error"}
  /\ fault \in [script : BOOLEAN, missed : BOOLEAN, read : BOOLEAN]
  /\ asked \in [kind : {"none", "list", "base", "clear", "clearKey"}, list : [Route -> BOOLEAN],
                keyed : SUBSET Route]
  /\ \A r \in asked.keyed : asked.list[r]
  /\ todo # <<>> => asks # 0 /\ answer = "none" /\ (LastRead(todo) \/ NoRead(todo))

(* The list as the next script leaves it: no later one changes it.         *)
Coming == IF todo # <<>> /\ Head(todo).do = "list"
          THEN {r \in Route : \/ Head(todo).value[r] = "set"
                              \/ Head(todo).value[r] = "keep" /\ listed[r] # 0}
          ELSE Config!Listed

(* The list of providers becomes what was asked for, with its keys.        *)
ListComes ==
  asked.kind = "list" /\ answer # "error" /\ ~fault.read /\ ~LastRead(todo) =>
    /\ Coming = {r \in Route : asked.list[r]}
    /\ \A r \in asked.keyed : /\ keys[RefOf[r]] = asks \/ Config!SetKey(RefOf[r]) \in Scripts(todo)
                              /\ Config!DelKey(RefOf[r]) \notin Scripts(todo)

(* A key that is or will be set is of a provider that stays; any other     *)
(* will be removed, unless something failed.                               *)
KeysOwned ==
  \A r \in Route :
    /\ Config!SetKey(RefOf[r]) \in Scripts(todo) => r \in Coming
    /\ ~fault.script /\ ~fault.missed /\ keys[RefOf[r]] # 0 /\ r \notin Coming
         => Config!DelKey(RefOf[r]) \in Scripts(todo)

(* The key of the official endpoint is of no custom provider.              *)
OfficialApart == \A r \in Route : RefOf[r] # Official

ConfigInv == ConfigTypes /\ ListComes /\ (OfficialApart => KeysOwned)

LEMMA ScriptsJoined ==
  ASSUME NEW X, NEW s \in Seq(X), NEW t \in Seq(X)
  PROVE  s \o t \in Seq(X) /\ Scripts(s \o t) = Scripts(s) \cup Scripts(t)
<1>1. /\ s \o t \in Seq(X) /\ Len(s \o t) = Len(s) + Len(t)
      /\ \A i \in 1 .. Len(s) + Len(t) :
           (s \o t)[i] = IF i <= Len(s) THEN s[i] ELSE t[i - Len(s)]
  OBVIOUS
<1>2. DOMAIN s = 1 .. Len(s) /\ DOMAIN t = 1 .. Len(t) /\ DOMAIN (s \o t) = 1 .. Len(s) + Len(t)
      /\ Len(s) \in Nat /\ Len(t) \in Nat
  BY <1>1
<1>3. ASSUME NEW x \in Scripts(s)
      PROVE  x \in Scripts(s \o t)
  <2>1. PICK i \in 1 .. Len(s) : x = s[i]
    BY <1>2, <1>3 DEF Scripts
  <2>2. i \in 1 .. Len(s) + Len(t) /\ (s \o t)[i] = x
    BY <1>1, <1>2, <2>1
  <2> QED
    BY <1>2, <2>2 DEF Scripts
<1>4. ASSUME NEW x \in Scripts(t)
      PROVE  x \in Scripts(s \o t)
  <2>1. PICK i \in 1 .. Len(t) : x = t[i]
    BY <1>2, <1>4 DEF Scripts
  <2>2. Len(s) + i \in 1 .. Len(s) + Len(t) /\ (s \o t)[Len(s) + i] = x
    BY <1>1, <1>2, <2>1
  <2> QED
    BY <1>2, <2>2 DEF Scripts
<1>5. ASSUME NEW x \in Scripts(s \o t)
      PROVE  x \in Scripts(s) \cup Scripts(t)
  <2>1. PICK i \in 1 .. Len(s) + Len(t) : x = (s \o t)[i]
    BY <1>2, <1>5 DEF Scripts
  <2> QED
    BY <1>1, <1>2, <2>1 DEF Scripts
<1> QED
  BY <1>1, <1>3, <1>4, <1>5

LEMMA ScriptsFirst ==
  ASSUME NEW X, NEW s \in Seq(X), s # <<>>
  PROVE  /\ Head(s) \in X /\ Tail(s) \in Seq(X) /\ Scripts(s) = {Head(s)} \cup Scripts(Tail(s))
         /\ Len(Tail(s)) = Len(s) - 1 /\ Len(s) \in Nat \ {0}
         /\ \A i \in 1 .. Len(s) - 1 : Tail(s)[i] = s[i + 1]
<1>1. /\ Len(s) \in Nat \ {0} /\ DOMAIN s = 1 .. Len(s) /\ Head(s) = s[1] /\ s[1] \in X
      /\ Tail(s) \in Seq(X) /\ Len(Tail(s)) = Len(s) - 1 /\ DOMAIN Tail(s) = 1 .. Len(s) - 1
      /\ \A i \in 1 .. Len(s) - 1 : Tail(s)[i] = s[i + 1]
  OBVIOUS
<1>2. ASSUME NEW x \in Scripts(s), x # Head(s)
      PROVE  x \in Scripts(Tail(s))
  <2>1. PICK i \in 1 .. Len(s) : x = s[i] /\ i # 1
    BY <1>1, <1>2 DEF Scripts
  <2>2. i - 1 \in 1 .. Len(s) - 1 /\ Tail(s)[i - 1] = x
    BY <1>1, <2>1
  <2> QED
    BY <1>1, <2>2 DEF Scripts
<1>3. ASSUME NEW x \in Scripts(Tail(s))
      PROVE  x \in Scripts(s)
  <2>1. PICK i \in 1 .. Len(s) - 1 : x = Tail(s)[i]
    BY <1>1, <1>3 DEF Scripts
  <2>2. i + 1 \in 1 .. Len(s) /\ s[i + 1] = x
    BY <1>1, <2>1
  <2> QED
    BY <1>1, <2>2 DEF Scripts
<1>4. Head(s) \in Scripts(s)
  BY <1>1 DEF Scripts
<1> QED
  BY <1>1, <1>2, <1>3, <1>4

LEMMA ScriptsSmall ==
  ASSUME NEW X
  PROVE  /\ <<>> \in Seq(X) /\ Scripts(<<>>) = {}
         /\ \A x \in X : <<x>> \in Seq(X) /\ Scripts(<<x>>) = {x}
         /\ \A x, y \in X : <<x, y>> \in Seq(X) /\ Scripts(<<x, y>>) = {x, y}
BY DEF Scripts

LEMMA SetToSeqRight ==
  ASSUME NEW S, IsFiniteSet(S)
  PROVE  Config!SetToSeq(S) \in Seq(S) /\ Scripts(Config!SetToSeq(S)) = S
<1> DEFINE n == Cardinality(S)
           s == Config!SetToSeq(S)
<1>1. n \in Nat /\ ExistsBijection(1..n, S)
  BY FS_CardinalityType
<1>2. \E f \in [1..n -> S] : Config!IsInjective(f)
  BY <1>1 DEF ExistsBijection, Bijection, Injection, Surjection, IsInjective, Config!IsInjective
<1>3. Config!Cardinality(S) = n
  BY DEF Config!Cardinality, Cardinality
<1>4. s \in [1..n -> S] /\ Config!IsInjective(s)
  BY <1>2, <1>3 DEF Config!SetToSeq
<1>5. s \in Injection(1..n, S)
  BY <1>4 DEF Injection, IsInjective, Config!IsInjective
<1>6. Cardinality(1..n) = n
  BY <1>1, FS_Interval
<1>7. s \in Surjection(1..n, S)
  BY <1>5, <1>6, FS_Injection
<1> QED
  BY <1>1, <1>4, <1>7 DEF Surjection, Scripts

(* The scripts that set, or remove, the keys of some routes.               *)
KeysOf(S, v) == {[do |-> "key", ref |-> RefOf[r], value |-> v] : r \in S}
LEMMA KeysOfRight ==
  ASSUME NEW S \in SUBSET Route, NEW v \in BOOLEAN
  PROVE  /\ IsFiniteSet(KeysOf(S, v)) /\ KeysOf(S, v) \subseteq Script
         /\ Config!SetToSeq(KeysOf(S, v)) \in Seq(Script)
         /\ Scripts(Config!SetToSeq(KeysOf(S, v))) = KeysOf(S, v)
<1> DEFINE f == [r \in S |-> [do |-> "key", ref |-> RefOf[r], value |-> v]]
<1>1. f \in Surjection(S, KeysOf(S, v))
  BY DEF Surjection, KeysOf
<1>2. IsFiniteSet(S)
  BY RouteAssumption, FS_Subset
<1>3. IsFiniteSet(KeysOf(S, v))
  BY <1>1, <1>2, FS_Surjection
<1>4. KeysOf(S, v) \subseteq Script
  BY DEF KeysOf, Script, KeyScript, Config!Ref
<1>5. Config!SetToSeq(KeysOf(S, v)) \in Seq(KeysOf(S, v))
  BY <1>3, SetToSeqRight
<1>6. Config!SetToSeq(KeysOf(S, v)) \in Seq(Script)
  BY <1>4, <1>5
<1> QED
  BY <1>3, <1>4, <1>6, SetToSeqRight

LEMMA ConfigStart == Config!Init => ConfigInv
<1> SUFFICES ASSUME Config!Init
             PROVE  ConfigInv
  OBVIOUS
<1>1. /\ todo = <<>> /\ asks = 0 /\ answer = "none" /\ keys = [k \in Config!Ref |-> 0]
      /\ listed = [r \in Route |-> 0] /\ asked = Config!NoRequest
      /\ fault = [script |-> FALSE, missed |-> FALSE, read |-> FALSE]
  BY DEF Config!Init
<1>2. ConfigTypes
  BY <1>1 DEF ConfigTypes, Config!NoRequest
<1>3. ListComes
  BY <1>1 DEF ListComes, Config!NoRequest
<1>4. \A r \in Route : keys[RefOf[r]] = 0
  BY <1>1 DEF Config!Ref
<1>5. KeysOwned
  BY <1>1, <1>4, ScriptsSmall DEF KeysOwned
<1> QED
  BY <1>2, <1>3, <1>5 DEF ConfigInv

(* A request begins when no script is left of the last one.                *)
LEMMA RequestBegins ==
  ASSUME ConfigInv, NEW k \in {"list", "base", "clear", "clearKey"},
         NEW list \in [Route -> BOOLEAN], NEW keyed \in SUBSET Route, NEW s \in Seq(Script),
         \A r \in keyed : list[r], s # <<>>, \A c \in Scripts(s) : c.do # "list",
         LastRead(s) \/ (NoRead(s) /\ k # "list"),
         OfficialApart => \A r \in Route : Config!SetKey(RefOf[r]) \notin Scripts(s),
         Config!Request(k, list, keyed, s)
  PROVE  ConfigInv'
<1>1. /\ todo = <<>> /\ asks' = asks + 1 /\ asked' = [kind |-> k, list |-> list, keyed |-> keyed]
      /\ todo' = s /\ answer' = "none" /\ UNCHANGED <<listed, keys, fault>>
  BY DEF Config!Request, Config!files
<1>2. asks' \in Nat /\ asks' # 0
  BY <1>1 DEF ConfigInv, ConfigTypes
<1>3. ConfigTypes'
  BY <1>1, <1>2 DEF ConfigInv, ConfigTypes
<1>4. ListComes'
  BY <1>1 DEF ListComes
<1>5. Coming' = Coming
  <2>1. Head(s).do # "list"
    BY ScriptsFirst
  <2> QED
    BY <1>1, <2>1 DEF Coming, Config!Listed
<1>6. OfficialApart => KeysOwned'
  BY <1>1, <1>5, ScriptsSmall DEF ConfigInv, KeysOwned
<1> QED
  BY <1>3, <1>4, <1>6 DEF ConfigInv

LEMMA RequestsKeep ==
  ASSUME ConfigInv,
         \/ Config!Clear \/ Config!ClearKey
         \/ \E key \in BOOLEAN, over \in {"absent", "set", "delete"}, list \in BOOLEAN,
               K \in SUBSET Route : Config!Configure(key, over, list, K)
  PROVE  ConfigInv'
<1> DEFINE R == Config!Read
           O == Config!SetKey(Official)
<1>1. /\ R \in Script /\ R.do = "read" /\ O \in Script /\ O.do = "key" /\ O.value = TRUE
      /\ Config!DelKey(Official) \in Script /\ Config!DelKey(Official).do = "key"
      /\ Config!DelKey(Official).value = FALSE
      /\ \A v \in BOOLEAN : Config!SetOverride(v) \in Script /\ Config!SetOverride(v).do = "override"
  BY DEF Config!Read, Config!SetKey, Config!DelKey, Config!SetOverride, Script, KeyScript, Config!Ref
<1>2. ASSUME NEW r \in Route
      PROVE  /\ Config!SetKey(RefOf[r]).do = "key" /\ Config!SetKey(RefOf[r]).value = TRUE
             /\ OfficialApart => Config!SetKey(RefOf[r]) # O
  BY DEF Config!SetKey, OfficialApart
<1>3. Config!Nothing \in [Route -> BOOLEAN]
  BY DEF Config!Nothing, Config!NoRequest
<1>4. <<R>> \in Seq(Script) /\ Scripts(<<R>>) = {R} /\ LastRead(<<R>>) /\ <<R>> # <<>>
  BY <1>1, ScriptsSmall DEF LastRead
<1>5. CASE Config!Clear
  <2> DEFINE s == <<R>>
  <2>1. /\ \A x \in Scripts(s) : x.do # "list"
        /\ \A r \in Route : Config!SetKey(RefOf[r]) \notin Scripts(s)
    BY <1>1, <1>2, <1>4
  <2>2. s \in Seq(Script) /\ LastRead(s) /\ s # <<>>
        /\ Config!Request("clear", Config!Nothing, {}, s)
    BY <1>4, <1>5 DEF Config!Clear
  <2> HIDE DEF s
  <2> QED
    BY <1>3, <2>1, <2>2, RequestBegins
<1>6. CASE Config!ClearKey
  <2> DEFINE s == <<Config!DelKey(Official)>>
  <2>1. s \in Seq(Script) /\ Scripts(s) = {Config!DelKey(Official)} /\ s # <<>> /\ Tail(s) = <<>>
    BY <1>1, ScriptsSmall
  <2>2. NoRead(s)
    BY <1>1, <2>1, ScriptsSmall DEF NoRead
  <2>3. \A r \in Route : Config!SetKey(RefOf[r]) \notin Scripts(s)
    BY <1>1, <1>2, <2>1
  <2> QED
    <3>1. \A x \in Scripts(s) : x.do # "list"
      BY <1>1, <2>1
    <3>2. Config!Request("clearKey", Config!Nothing, {}, s)
      BY <1>6 DEF Config!ClearKey
    <3> HIDE DEF s
    <3> QED
      BY <1>3, <2>1, <2>2, <2>3, <3>1, <3>2, RequestBegins
<1>7. ASSUME NEW key \in BOOLEAN, NEW over \in {"absent", "set", "delete"}, NEW list \in BOOLEAN,
             NEW K \in SUBSET Route, Config!Configure(key, over, list, K)
      PROVE  ConfigInv'
  <2>1. PICK v \in Script : v = Config!SetOverride(over = "set") /\ v.do = "override"
    BY <1>1
  <2>2. PICK a \in Seq(Script) : /\ a = IF key THEN <<O>> ELSE <<>>
                                 /\ Scripts(a) \subseteq {O}
    BY <1>1, ScriptsSmall
  <2>3. PICK b \in Seq(Script) : /\ b = IF over # "absent" THEN <<v>> ELSE <<>>
                                 /\ Scripts(b) \subseteq {v}
    BY ScriptsSmall
  <2>4. PICK c \in Seq(Script) : /\ c = IF list THEN <<R>> ELSE <<>>
                                 /\ Scripts(c) = IF list THEN {R} ELSE {}
    BY <1>1, ScriptsSmall
  <2>5. PICK d \in Seq(Script) : d = a \o b /\ Scripts(d) \subseteq {O, v}
    <3>1. a \o b \in Seq(Script) /\ Scripts(a \o b) = Scripts(a) \cup Scripts(b)
      BY ScriptsJoined
    <3> QED
      BY <2>2, <2>3, <3>1
  <2>6. PICK s \in Seq(Script) : s = d \o c /\ Scripts(s) = Scripts(d) \cup Scripts(c)
    BY ScriptsJoined
  <2>7. s # <<>> /\ \E S \in IF list THEN SUBSET Route ELSE {{}} :
          /\ K \subseteq S
          /\ Config!Request(IF list THEN "list" ELSE "base", [r \in Route |-> r \in S], K, s)
    BY <1>7, <2>1, <2>2, <2>3, <2>4, <2>5, <2>6 DEF Config!Configure
  <2>8. PICK m \in [Route -> BOOLEAN] :
          /\ Config!Request(IF list THEN "list" ELSE "base", m, K, s)
          /\ \A r \in K : m[r]
    <3>1. PICK S \in SUBSET Route :
            /\ K \subseteq S
            /\ Config!Request(IF list THEN "list" ELSE "base", [r \in Route |-> r \in S], K, s)
      BY <2>7
    <3> WITNESS [r \in Route |-> r \in S] \in [Route -> BOOLEAN]
    <3>2. \A r \in K : [q \in Route |-> q \in S][r]
      BY <3>1
    <3> QED
      BY <3>1, <3>2
  <2>9. /\ \A x \in Scripts(s) : x.do # "list"
        /\ \A x \in Scripts(d) : x.do \notin {"read", "list"}
    BY <1>1, <2>1, <2>4, <2>5, <2>6
  <2>10. OfficialApart => \A r \in Route : Config!SetKey(RefOf[r]) \notin Scripts(s)
    <3>1. ASSUME OfficialApart, NEW r \in Route, Config!SetKey(RefOf[r]) \in {O, v, R}
          PROVE  FALSE
      BY <1>1, <1>2, <2>1, <3>1
    <3> QED
      BY <2>4, <2>5, <2>6, <3>1
  <2>11. CASE list
    <3>1. /\ Len(s) = Len(d) + 1 /\ Len(d) \in Nat /\ s[Len(s)] = R
          /\ \A i \in 1 .. Len(d) : s[i] = d[i] /\ d[i] \in Scripts(d)
      BY <1>1, <2>4, <2>6, <2>11 DEF Scripts
    <3>2. LastRead(s)
      <4>1. Len(s) - 1 = Len(d)
        BY <3>1
      <4>2. ASSUME NEW i \in 1 .. Len(s) - 1
            PROVE  s[i].do \notin {"read", "list"}
        <5>1. i \in 1 .. Len(d)
          BY <4>1
        <5>2. s[i] = d[i] /\ d[i] \in Scripts(d)
          BY <3>1, <5>1
        <5> QED
          BY <2>9, <5>2
      <4> QED
        BY <2>7, <3>1, <4>2 DEF LastRead
    <3>3. Config!Request("list", m, K, s)
      BY <2>8, <2>11
    <3> QED
      BY <2>7, <2>8, <2>9, <2>10, <3>2, <3>3, RequestBegins
  <2>12. CASE ~list
    <3>1. Scripts(s) = Scripts(d)
      BY <2>4, <2>6, <2>12
    <3>2. \A x \in Scripts(Tail(s)) : x \in Scripts(s)
      BY <2>7, ScriptsFirst
    <3>3. NoRead(s)
      BY <2>9, <3>1, <3>2 DEF NoRead
    <3>4. Config!Request("base", m, K, s)
      BY <2>8, <2>12
    <3> QED
      BY <2>7, <2>8, <2>9, <2>10, <3>3, <3>4, RequestBegins
  <2> QED
    BY <2>11, <2>12
<1> QED
  BY <1>5, <1>6, <1>7

(* The scripts after the reading of a list, or of what is to be cleared.   *)
NewList(C) == [r \in Route |-> IF asked.list[r] THEN "set"
                               ELSE IF r \in C THEN "null" ELSE "keep"]
ScriptsFor(C, s) ==
  /\ s # <<>> /\ NoRead(s)
  /\ asked.kind = "list" =>
       /\ Head(s) = Config!SetList(NewList(C))
       /\ Scripts(s) = {Config!SetList(NewList(C))} \cup KeysOf(asked.keyed, TRUE)
                         \cup KeysOf({r \in C : ~asked.list[r]}, FALSE)
  /\ asked.kind # "list" =>
       /\ Head(s).do = "key"
       /\ Scripts(s) = {Config!DelKey(Official), Config!SetOverride(FALSE)} \cup KeysOf(C, FALSE)

LEMMA AfterReadRight ==
  ASSUME ConfigTypes, NEW current \in SUBSET Route
  PROVE  \E s \in Seq(Script) : s = Config!AfterRead(current) /\ ScriptsFor(current, s)
<1> DEFINE s == Config!AfterRead(current)
           v == NewList(current)
           gone == {r \in current : ~asked.list[r]}
<1>1. asked.keyed \in SUBSET Route /\ gone \in SUBSET Route
  BY DEF ConfigTypes
<1>2. /\ \A S \in SUBSET Route, b \in BOOLEAN : \A c \in KeysOf(S, b) : c.do = "key"
      /\ \A S : KeysOf(S, TRUE) = {Config!SetKey(RefOf[r]) : r \in S}
      /\ \A S : KeysOf(S, FALSE) = {Config!DelKey(RefOf[r]) : r \in S}
  BY DEF KeysOf, Config!SetKey, Config!DelKey
<1>3. CASE asked.kind = "list"
  <2>1. PICK c \in Script : c = Config!SetList(v) /\ c.do = "list"
    <3>1. v \in [Route -> {"set", "null", "keep"}]
      BY DEF NewList
    <3> HIDE DEF v
    <3>2. [do |-> "list", value |-> v] \in Script
      BY <3>1 DEF Script
    <3> QED
      BY <3>2 DEF Config!SetList
  <2>2. PICK a \in Seq(Script) : /\ a = Config!SetToSeq(KeysOf(asked.keyed, TRUE))
                                 /\ Scripts(a) = KeysOf(asked.keyed, TRUE)
    BY <1>1, KeysOfRight
  <2>3. PICK b \in Seq(Script) : /\ b = Config!SetToSeq(KeysOf(gone, FALSE))
                                 /\ Scripts(b) = KeysOf(gone, FALSE)
    BY <1>1, KeysOfRight
  <2>4. s = <<c>> \o a \o b
    BY <1>2, <1>3, <2>1, <2>2, <2>3 DEF Config!AfterRead, NewList
  <2>5. PICK d \in Seq(Script) : d = <<c>> \o a /\ Scripts(d) = {c} \cup Scripts(a) /\ Len(d) # 0
    <3>1. PICK e \in Seq(Script) : e = <<c>> /\ Scripts(e) = {c}
      BY ScriptsSmall
    <3>2. e \o a \in Seq(Script) /\ Scripts(e \o a) = Scripts(e) \cup Scripts(a)
      BY ScriptsJoined
    <3>3. Len(e \o a) # 0
      BY <3>1
    <3> QED
      BY <3>1, <3>2, <3>3
  <2>6. s \in Seq(Script) /\ Scripts(s) = {c} \cup Scripts(a) \cup Scripts(b)
    <3>1. d \o b \in Seq(Script) /\ Scripts(d \o b) = Scripts(d) \cup Scripts(b)
      BY ScriptsJoined
    <3> QED
      BY <2>4, <2>5, <3>1
  <2>7. s # <<>> /\ Head(s) = c /\ Tail(s) = a \o b
    BY <2>4
  <2>8. Scripts(Tail(s)) = Scripts(a) \cup Scripts(b)
    BY <2>7, ScriptsJoined
  <2>9. \A x \in Scripts(a) \cup Scripts(b) : x.do = "key"
    BY <1>1, <1>2, <2>2, <2>3
  <2>10. NoRead(s)
    BY <2>1, <2>6, <2>8, <2>9 DEF NoRead
  <2> HIDE DEF s, v
  <2>11. ScriptsFor(current, s)
    BY <1>3, <2>1, <2>2, <2>3, <2>6, <2>7, <2>10 DEF ScriptsFor, v, gone
  <2>12. s \in Seq(Script) /\ s = Config!AfterRead(current)
    BY <2>6 DEF s
  <2> QED
    BY <2>11, <2>12
<1>4. CASE asked.kind # "list"
  <2>1. PICK c \in Script : c = Config!DelKey(Official) /\ c.do = "key"
    <3> [do |-> "key", ref |-> Official, value |-> FALSE] \in Script
      BY DEF Script, KeyScript, Config!Ref
    <3> QED
      BY DEF Config!DelKey
  <2>2. PICK o \in Script : o = Config!SetOverride(FALSE) /\ o.do = "override"
    <3> [do |-> "override", value |-> FALSE] \in Script
      BY DEF Script
    <3> QED
      BY DEF Config!SetOverride
  <2>3. PICK b \in Seq(Script) : /\ b = Config!SetToSeq(KeysOf(current, FALSE))
                                 /\ Scripts(b) = KeysOf(current, FALSE)
    BY KeysOfRight
  <2>4. s = <<c, o>> \o b
    BY <1>2, <1>4, <2>1, <2>2, <2>3 DEF Config!AfterRead
  <2>5. s \in Seq(Script) /\ Scripts(s) = {c, o} \cup Scripts(b)
    <3>1. PICK e \in Seq(Script) : e = <<c, o>> /\ Scripts(e) = {c, o}
      <4>1. \A x, y \in Script : <<x, y>> \in Seq(Script) /\ Scripts(<<x, y>>) = {x, y}
        BY ScriptsSmall
      <4> QED
        BY <4>1
    <3>2. e \o b \in Seq(Script) /\ Scripts(e \o b) = Scripts(e) \cup Scripts(b)
      BY ScriptsJoined
    <3> QED
      BY <2>4, <3>1, <3>2
  <2>6. s # <<>> /\ Head(s) = c
    BY <2>4
  <2>7. \A x \in Scripts(s) : x.do \in {"key", "override"}
    BY <1>2, <2>1, <2>2, <2>3, <2>5
  <2>8. Scripts(Tail(s)) \subseteq Scripts(s)
    BY <2>5, <2>6, ScriptsFirst
  <2>9. NoRead(s)
    BY <2>7, <2>8 DEF NoRead
  <2> HIDE DEF s
  <2>10. ScriptsFor(current, s)
    BY <1>4, <2>1, <2>2, <2>3, <2>5, <2>6, <2>9 DEF ScriptsFor
  <2>11. s \in Seq(Script) /\ s = Config!AfterRead(current)
    BY <2>5 DEF s
  <2> QED
    BY <2>10, <2>11
<1> QED
  BY <1>3, <1>4

(* A reading comes last: after it nothing is left but what it has found    *)
(* there is to do.  One that failed excuses the keys that are left.        *)
LEMMA ReadKeeps ==
  ASSUME ConfigInv, Config!ReadDone
  PROVE  ConfigInv'
<1>1. /\ todo \in Seq(Script) /\ todo # <<>> /\ Head(todo).do = "read" /\ asks # 0
      /\ UNCHANGED <<listed, keys, asked, asks>> /\ answer = "none" /\ ConfigTypes
      /\ LastRead(todo) \/ NoRead(todo)
  BY DEF Config!ReadDone, Config!files, ConfigInv, ConfigTypes
<1>2. Tail(todo) = <<>> /\ LastRead(todo) /\ Scripts(todo) = {Config!Read}
  <2>1. Head(todo) \in Scripts(todo)
    BY <1>1, ScriptsFirst
  <2>2. LastRead(todo)
    BY <1>1, <2>1 DEF NoRead
  <2>3. Len(todo) \in Nat \ {0} /\ Head(todo) = todo[1] /\ DOMAIN todo = 1 .. Len(todo)
    BY <1>1
  <2>4. ASSUME Len(todo) # 1
        PROVE  FALSE
    <3>1. 1 \in 1 .. Len(todo) - 1
      BY <2>3, <2>4
    <3> QED
      BY <1>1, <2>2, <2>3, <3>1 DEF LastRead
  <2>5. Len(todo) = 1 /\ todo[1] = Config!Read
    BY <2>2, <2>4 DEF LastRead
  <2>6. Tail(todo) = <<>>
    <3>1. Tail(todo) \in Seq(Script) /\ Len(Tail(todo)) = 0
      BY <1>1, <2>5, ScriptsFirst
    <3> QED
      BY <3>1, EmptySeq
  <2>7. Scripts(todo) = {Config!Read}
    BY <2>3, <2>5 DEF Scripts
  <2> QED
    BY <2>2, <2>6, <2>7
<1>3. \A r \in Route : /\ Config!SetKey(RefOf[r]) \notin Scripts(todo)
                       /\ Config!DelKey(RefOf[r]) \notin Scripts(todo)
  BY <1>2 DEF Config!SetKey, Config!DelKey, Config!Read
<1>4. Coming = Config!Listed
  BY <1>1 DEF Coming
<1>5. PICK C \in SUBSET Route :
        /\ todo' = Config!AfterRead(C) \o Tail(todo)
        /\ answer' = IF todo' = <<>> THEN "ok" ELSE answer
        /\ \/ C = Config!Listed /\ fault' = [fault EXCEPT !.read = FALSE]
           \/ fault' = [fault EXCEPT !.read = TRUE, !.missed = TRUE]
  <2>1. Config!Listed \in SUBSET Route /\ {r \in Route : listed[r] # 0} = Config!Listed
    BY DEF Config!Listed
  <2>2. \/ /\ Config!Finish(Config!AfterRead(Config!Listed) \o Tail(todo))
           /\ fault' = [fault EXCEPT !.read = FALSE]
        \/ /\ Config!Finish(Config!AfterRead({}) \o Tail(todo))
           /\ fault' = [fault EXCEPT !.read = TRUE, !.missed = TRUE]
    BY <2>1 DEF Config!ReadDone
  <2>3. PICK L \in SUBSET Route : L = Config!Listed
    BY <2>1
  <2>4. \E C \in {L, {}} :
          /\ Config!Finish(Config!AfterRead(C) \o Tail(todo))
          /\ \/ C = Config!Listed /\ fault' = [fault EXCEPT !.read = FALSE]
             \/ fault' = [fault EXCEPT !.read = TRUE, !.missed = TRUE]
    BY <2>2, <2>3, Zenon
  <2> QED
    BY <2>4 DEF Config!Finish
<1>6. PICK s \in Seq(Script) : s = Config!AfterRead(C) /\ ScriptsFor(C, s)
  BY <1>1, AfterReadRight
<1>7. todo' = s /\ answer' = "none" /\ s # <<>> /\ NoRead(s)
  <2>1. s # <<>> /\ NoRead(s)
    BY <1>6 DEF ScriptsFor
  <2>2. s \o <<>> = s
    OBVIOUS
  <2>3. todo' = s \o Tail(todo)
    BY <1>5, <1>6
  <2>4. todo' = s
    BY <1>2, <2>2, <2>3
  <2> QED
    BY <1>1, <1>5, <2>1, <2>4
<1>8. /\ fault' \in [script : BOOLEAN, missed : BOOLEAN, read : BOOLEAN]
      /\ fault'.script = fault.script /\ (fault'.missed \/ fault'.missed = fault.missed)
      /\ ~fault'.read \/ ~fault'.missed => C = Config!Listed
  <2>1. fault \in [script : BOOLEAN, missed : BOOLEAN, read : BOOLEAN]
    BY <1>1 DEF ConfigTypes
  <2> QED
    BY <1>5, <2>1
<1>9. ConfigTypes'
  BY <1>1, <1>6, <1>7, <1>8 DEF ConfigTypes
<1>10. asked.kind = "list" =>
         Coming' = {r \in Route : \/ asked.list[r]
                                  \/ ~asked.list[r] /\ r \notin C /\ listed[r] # 0}
  <2> SUFFICES ASSUME asked.kind = "list"
               PROVE  Coming' = {r \in Route : \/ asked.list[r]
                                               \/ ~asked.list[r] /\ r \notin C /\ listed[r] # 0}
    OBVIOUS
  <2>1. Head(s).do = "list" /\ Head(s).value = NewList(C)
    BY <1>6 DEF Config!SetList, ScriptsFor
  <2>2. \A r \in Route : /\ NewList(C)[r] = "set" <=> asked.list[r]
                         /\ NewList(C)[r] = "keep" <=> ~asked.list[r] /\ r \notin C
    BY DEF NewList
  <2>3. Coming' = {r \in Route : \/ NewList(C)[r] = "set"
                                 \/ NewList(C)[r] = "keep" /\ listed[r] # 0}
    BY <1>1, <1>6, <1>7, <2>1 DEF Coming
  <2> QED
    BY <2>2, <2>3
<1>11. asked.kind # "list" => Coming' = Config!Listed
  BY <1>1, <1>6, <1>7 DEF Coming, Config!Listed, ScriptsFor
<1>12. \A r, q \in Route : /\ Config!SetKey(RefOf[r]) = Config!SetKey(RefOf[q]) => r = q
                           /\ Config!DelKey(RefOf[r]) = Config!DelKey(RefOf[q]) => r = q
                           /\ Config!SetKey(RefOf[r]) # Config!DelKey(RefOf[q])
  BY RouteAssumption DEF Config!SetKey, Config!DelKey
<1>13. ASSUME NEW r \in Route
       PROVE  /\ asked.kind = "list" =>
                   /\ Config!SetKey(RefOf[r]) \in Scripts(s) <=> r \in asked.keyed
                   /\ Config!DelKey(RefOf[r]) \in Scripts(s) <=> r \in C /\ ~asked.list[r]
              /\ asked.kind # "list" =>
                   /\ Config!SetKey(RefOf[r]) \notin Scripts(s)
                   /\ r \in C => Config!DelKey(RefOf[r]) \in Scripts(s)
  <2>1. /\ \A S : KeysOf(S, TRUE) = {Config!SetKey(RefOf[q]) : q \in S}
        /\ \A S : KeysOf(S, FALSE) = {Config!DelKey(RefOf[q]) : q \in S}
        /\ asked.keyed \subseteq Route
    BY <1>1 DEF KeysOf, Config!SetKey, Config!DelKey, ConfigTypes
  <2>2. /\ Config!SetKey(RefOf[r]).do = "key" /\ Config!DelKey(RefOf[r]).do = "key"
        /\ Config!SetKey(RefOf[r]).value = TRUE /\ Config!DelKey(Official).value = FALSE
        /\ Config!SetOverride(FALSE).do = "override" /\ Config!SetList(NewList(C)).do = "list"
    BY DEF Config!SetKey, Config!DelKey, Config!SetOverride, Config!SetList
  <2>3. /\ Config!SetKey(RefOf[r]) \in KeysOf(asked.keyed, TRUE) <=> r \in asked.keyed
        /\ \A S \in SUBSET Route :
             /\ Config!DelKey(RefOf[r]) \in KeysOf(S, FALSE) <=> r \in S
             /\ Config!SetKey(RefOf[r]) \notin KeysOf(S, FALSE)
        /\ Config!DelKey(RefOf[r]) \notin KeysOf(asked.keyed, TRUE)
    <3>1. /\ Config!SetKey(RefOf[r]) \in KeysOf(asked.keyed, TRUE) <=> r \in asked.keyed
          /\ Config!DelKey(RefOf[r]) \notin KeysOf(asked.keyed, TRUE)
      <4>1. KeysOf(asked.keyed, TRUE) = {Config!SetKey(RefOf[q]) : q \in asked.keyed}
        BY <2>1
      <4> QED
        BY <1>12, <2>1, <4>1
    <3>2. ASSUME NEW S \in SUBSET Route
          PROVE  /\ Config!DelKey(RefOf[r]) \in KeysOf(S, FALSE) <=> r \in S
                 /\ Config!SetKey(RefOf[r]) \notin KeysOf(S, FALSE)
      <4>1. KeysOf(S, FALSE) = {Config!DelKey(RefOf[q]) : q \in S}
        BY <2>1
      <4> QED
        BY <1>12, <4>1
    <3> QED
      BY <3>1, <3>2
  <2>4. CASE asked.kind = "list"
    <3>1. PICK G \in SUBSET Route : G = {q \in C : ~asked.list[q]}
      OBVIOUS
    <3>2. Scripts(s) = {Config!SetList(NewList(C))} \cup KeysOf(asked.keyed, TRUE)
                          \cup KeysOf(G, FALSE)
      BY <1>6, <2>4, <3>1 DEF ScriptsFor
    <3> QED
      BY <2>2, <2>3, <2>4, <3>1, <3>2
  <2>5. CASE asked.kind # "list"
    <3>1. Scripts(s) = {Config!DelKey(Official), Config!SetOverride(FALSE)} \cup KeysOf(C, FALSE)
      BY <1>6, <2>5 DEF ScriptsFor
    <3> QED
      BY <2>2, <2>3, <2>5, <3>1
  <2> QED
    BY <2>4, <2>5
<1>14. ListComes'
  <2> SUFFICES ASSUME asked.kind = "list", ~fault'.read
               PROVE  /\ Coming' = {r \in Route : asked.list[r]}
                      /\ \A r \in asked.keyed : /\ Config!SetKey(RefOf[r]) \in Scripts(s)
                                                /\ Config!DelKey(RefOf[r]) \notin Scripts(s)
    BY <1>1, <1>7 DEF ListComes
  <2>1. C = Config!Listed /\ asked.keyed \subseteq Route /\ \A r \in asked.keyed : asked.list[r]
    BY <1>1, <1>8 DEF ConfigTypes
  <2> QED
    BY <1>10, <1>13, <2>1 DEF Config!Listed
<1>15. OfficialApart => KeysOwned'
  <2> SUFFICES ASSUME KeysOwned, NEW r \in Route
               PROVE  /\ Config!SetKey(RefOf[r]) \in Scripts(s) => r \in Coming'
                      /\ ~fault'.script /\ ~fault'.missed /\ keys[RefOf[r]] # 0 /\ r \notin Coming'
                           => Config!DelKey(RefOf[r]) \in Scripts(s)
    BY <1>1, <1>7 DEF ConfigInv, KeysOwned
  <2>1. Config!SetKey(RefOf[r]) \in Scripts(s) => r \in Coming'
    BY <1>1, <1>10, <1>13 DEF ConfigTypes
  <2>2. ASSUME ~fault'.script, ~fault'.missed, keys[RefOf[r]] # 0, r \notin Coming'
        PROVE  Config!DelKey(RefOf[r]) \in Scripts(s)
    <3>1. C = Config!Listed /\ ~fault.script /\ ~fault.missed
      BY <1>8, <2>2
    <3>2. r \in Config!Listed
      BY <1>3, <1>4, <2>2, <3>1 DEF KeysOwned
    <3>3. asked.kind = "list"
      BY <1>11, <2>2, <3>2
    <3> QED
      BY <1>10, <1>13, <2>2, <3>1, <3>2, <3>3
  <2> QED
    BY <2>1, <2>2
<1> QED
  BY <1>9, <1>14, <1>15 DEF ConfigInv

(* What a script does to the files.                                        *)
LEMMA RunRight ==
  ASSUME ConfigTypes, NEW c \in Script, c.do # "read", Config!Run(c)
  PROVE  /\ listed' \in [Route -> Nat] /\ keys' \in [Config!Ref -> Nat]
         /\ \A r \in Route : keys'[RefOf[r]] = IF c = Config!SetKey(RefOf[r]) THEN asks
                                               ELSE IF c = Config!DelKey(RefOf[r]) THEN 0
                                               ELSE keys[RefOf[r]]
         /\ c.do # "list" => listed' = listed
         /\ c.do = "list" => \A r \in Route : listed'[r] = IF c.value[r] = "set" THEN asks
                                                           ELSE IF c.value[r] = "null" THEN 0
                                                           ELSE listed[r]
<1>1. /\ listed \in [Route -> Nat] /\ keys \in [Config!Ref -> Nat] /\ asks \in Nat
      /\ \A r \in Route : RefOf[r] \in Config!Ref
  BY DEF ConfigTypes, Config!Ref
<1>2. /\ keys' = IF c.do = "key" THEN [keys EXCEPT ![c.ref] = IF c.value THEN asks ELSE 0] ELSE keys
      /\ listed' = IF c.do = "list"
                   THEN [r \in Route |-> CASE c.value[r] = "set" -> asks
                                           [] c.value[r] = "null" -> 0
                                           [] OTHER -> listed[r]]
                   ELSE listed
  BY DEF Config!Run
<1>3. CASE c.do = "key"
  <2>1. PICK k \in Config!Ref, v \in BOOLEAN : c = [do |-> "key", ref |-> k, value |-> v]
    BY <1>3 DEF Script, KeyScript, Config!Read
  <2>2. keys' = [keys EXCEPT ![k] = IF v THEN asks ELSE 0] /\ listed' = listed
    BY <1>2, <2>1
  <2>3. ASSUME NEW r \in Route
        PROVE  /\ c = Config!SetKey(RefOf[r]) <=> k = RefOf[r] /\ v
               /\ c = Config!DelKey(RefOf[r]) <=> k = RefOf[r] /\ ~v
    BY <2>1 DEF Config!SetKey, Config!DelKey
  <2>4. keys' \in [Config!Ref -> Nat]
    BY <1>1, <2>2
  <2>5. ASSUME NEW r \in Route
        PROVE  keys'[RefOf[r]] = IF c = Config!SetKey(RefOf[r]) THEN asks
                                 ELSE IF c = Config!DelKey(RefOf[r]) THEN 0
                                 ELSE keys[RefOf[r]]
    BY <1>1, <2>2, <2>3
  <2> QED
    BY <1>1, <1>3, <2>2, <2>4, <2>5
<1>4. CASE c.do # "key"
  <2>1. \A r \in Route : c # Config!SetKey(RefOf[r]) /\ c # Config!DelKey(RefOf[r])
    BY <1>4 DEF Config!SetKey, Config!DelKey
  <2>2. keys' = keys
    BY <1>2, <1>4
  <2>3. CASE c.do = "list"
    <3> DEFINE f == [r \in Route |-> CASE c.value[r] = "set" -> asks
                                      [] c.value[r] = "null" -> 0
                                      [] OTHER -> listed[r]]
    <3>1. /\ f \in [Route -> Nat]
          /\ \A r \in Route : f[r] = IF c.value[r] = "set" THEN asks
                                     ELSE IF c.value[r] = "null" THEN 0 ELSE listed[r]
      BY <1>1
    <3>2. listed' = f
      BY <1>2, <2>3
    <3> HIDE DEF f
    <3> QED
      BY <1>1, <2>1, <2>2, <2>3, <3>1, <3>2
  <2>4. CASE c.do # "list"
    BY <1>1, <1>2, <2>1, <2>2, <2>4
  <2> QED
    BY <2>3, <2>4
<1> QED
  BY <1>3, <1>4

(* A script that is done leaves the others to run; none of them is a list. *)
LEMMA ScriptKeeps ==
  ASSUME ConfigInv, Config!ScriptDone
  PROVE  ConfigInv'
<1>1. /\ todo \in Seq(Script) /\ todo # <<>> /\ asks \in Nat \ {0} /\ ConfigTypes
      /\ UNCHANGED <<asked, fault, asks>> /\ answer = "none"
      /\ todo' = Tail(todo) /\ answer' = IF todo' = <<>> THEN "ok" ELSE "none"
      /\ LastRead(todo) \/ NoRead(todo)
  BY DEF Config!ScriptDone, Config!Finish, ConfigInv, ConfigTypes
<1>2. PICK c \in Script : c = Head(todo)
  BY <1>1, ScriptsFirst
<1>3. c.do # "read" /\ Config!Run(c)
  BY <1>2 DEF Config!ScriptDone
<1>4. todo' \in Seq(Script) /\ Scripts(todo) = {c} \cup Scripts(todo')
  BY <1>1, <1>2, ScriptsFirst
<1>5. /\ Len(todo) \in Nat \ {0} /\ Head(todo) = todo[1] /\ Len(todo') = Len(todo) - 1
      /\ \A i \in 1 .. Len(todo) - 1 : todo'[i] = todo[i + 1]
  <2>1. Len(todo) \in Nat \ {0} /\ Head(todo) = todo[1]
    BY <1>1
  <2> QED
    BY <1>1, <2>1, ScriptsFirst
<1>6. ASSUME LastRead(todo)
      PROVE  LastRead(todo') /\ c.do # "list" /\ todo'[1].do # "list"
  <2>1. Len(todo) # 1
    BY <1>2, <1>3, <1>5, <1>6 DEF LastRead, Config!Read
  <2>2. todo' # <<>> /\ todo'[Len(todo')] = Config!Read
    BY <1>5, <1>6, <2>1 DEF LastRead
  <2>3. ASSUME NEW i \in 1 .. Len(todo') - 1
        PROVE  todo'[i].do \notin {"read", "list"}
    <3>1. i + 1 \in 1 .. Len(todo) - 1 /\ todo'[i] = todo[i + 1]
      BY <1>5, <2>3
    <3> QED
      BY <1>6, <3>1 DEF LastRead
  <2>4. c.do # "list"
    <3>1. 1 \in 1 .. Len(todo) - 1
      BY <1>5, <2>1
    <3> QED
      BY <1>2, <1>5, <1>6, <3>1 DEF LastRead
  <2>5. todo'[1].do # "list"
    <3>1. CASE Len(todo') = 1
      BY <2>2, <3>1 DEF Config!Read
    <3>2. CASE Len(todo') # 1
      <4>1. 1 \in 1 .. Len(todo') - 1
        BY <1>5, <2>1, <3>2
      <4> QED
        BY <2>3, <4>1
    <3> QED
      BY <3>1, <3>2
  <2> QED
    BY <2>2, <2>3, <2>4, <2>5 DEF LastRead
<1>7. ASSUME NoRead(todo)
      PROVE  NoRead(todo') /\ (todo' # <<>> => todo'[1].do # "list")
  <2>1. /\ \A x \in Scripts(todo') : x.do # "read" /\ x.do # "list"
    BY <1>1, <1>4, <1>7 DEF NoRead
  <2>2. ASSUME todo' # <<>>
        PROVE  /\ Scripts(Tail(todo')) \subseteq Scripts(todo')
               /\ todo'[1] \in Scripts(todo')
    <3>1. Head(todo') = todo'[1]
      OBVIOUS
    <3> QED
      BY <1>4, <2>2, <3>1, ScriptsFirst
  <2> QED
    BY <2>1, <2>2 DEF NoRead
<1>8. /\ listed' \in [Route -> Nat] /\ keys' \in [Config!Ref -> Nat]
      /\ \A r \in Route : keys'[RefOf[r]] = IF c = Config!SetKey(RefOf[r]) THEN asks
                                            ELSE IF c = Config!DelKey(RefOf[r]) THEN 0
                                            ELSE keys[RefOf[r]]
      /\ c.do # "list" => listed' = listed
      /\ c.do = "list" => \A r \in Route : listed'[r] = IF c.value[r] = "set" THEN asks
                                                        ELSE IF c.value[r] = "null" THEN 0
                                                        ELSE listed[r]
  BY <1>1, <1>3, RunRight
<1>9. ConfigTypes'
  <2>1. todo' # <<>> => LastRead(todo') \/ NoRead(todo')
    BY <1>1, <1>6, <1>7
  <2> QED
    BY <1>1, <1>4, <1>8, <2>1 DEF ConfigTypes
<1>10. Coming' = Coming
  <2>1. Coming' = {r \in Route : listed'[r] # 0}
    <3>1. todo' # <<>> => Head(todo') = todo'[1]
      OBVIOUS
    <3>2. ~(todo' # <<>> /\ Head(todo').do = "list")
      BY <1>1, <1>6, <1>7, <3>1
    <3> QED
      BY <3>2 DEF Coming, Config!Listed
  <2>2. CASE c.do = "list"
    <3>1. c.value \in [Route -> {"set", "null", "keep"}]
      BY <2>2 DEF Script, KeyScript, Config!Read
    <3>2. \A r \in Route : listed'[r] # 0 <=> \/ c.value[r] = "set"
                                              \/ c.value[r] = "keep" /\ listed[r] # 0
      BY <1>1, <1>8, <2>2, <3>1
    <3>3. Coming = {r \in Route : \/ c.value[r] = "set"
                                  \/ c.value[r] = "keep" /\ listed[r] # 0}
      BY <1>1, <1>2, <2>2 DEF Coming
    <3> QED
      BY <2>1, <3>2, <3>3
  <2>3. CASE c.do # "list"
    BY <1>2, <1>8, <2>1, <2>3 DEF Coming, Config!Listed
  <2> QED
    BY <2>2, <2>3
<1>11. ListComes'
  <2> SUFFICES ASSUME asked.kind = "list", ~fault.read, ~LastRead(todo'), NEW r \in asked.keyed
               PROVE  /\ Coming = {q \in Route : asked.list[q]}
                      /\ keys'[RefOf[r]] = asks \/ Config!SetKey(RefOf[r]) \in Scripts(todo')
                      /\ Config!DelKey(RefOf[r]) \notin Scripts(todo')
    <3>1. CASE asked.keyed = {}
      BY <1>1, <1>6, <1>10, <3>1 DEF ListComes, ConfigInv
    <3>2. CASE asked.keyed # {}
      BY <1>1, <1>10, <3>2 DEF ListComes
    <3> QED
      BY <3>1, <3>2
  <2>1. r \in Route
    BY <1>1 DEF ConfigTypes
  <2>2. /\ Coming = {q \in Route : asked.list[q]}
        /\ keys[RefOf[r]] = asks \/ Config!SetKey(RefOf[r]) \in Scripts(todo)
        /\ Config!DelKey(RefOf[r]) \notin Scripts(todo)
    BY <1>1, <1>6 DEF ListComes, ConfigInv
  <2> QED
    BY <1>4, <1>8, <2>1, <2>2
<1>12. OfficialApart => KeysOwned'
  <2> SUFFICES ASSUME KeysOwned, NEW r \in Route
               PROVE  /\ Config!SetKey(RefOf[r]) \in Scripts(todo') => r \in Coming
                      /\ ~fault.script /\ ~fault.missed /\ keys'[RefOf[r]] # 0 /\ r \notin Coming
                           => Config!DelKey(RefOf[r]) \in Scripts(todo')
    BY <1>1, <1>10 DEF ConfigInv, KeysOwned
  <2>1. /\ Config!SetKey(RefOf[r]) \in Scripts(todo) => r \in Coming
        /\ ~fault.script /\ ~fault.missed /\ keys[RefOf[r]] # 0 /\ r \notin Coming
             => Config!DelKey(RefOf[r]) \in Scripts(todo)
    BY DEF KeysOwned
  <2> QED
    BY <1>4, <1>8, <2>1
<1> QED
  BY <1>9, <1>11, <1>12 DEF ConfigInv

(* One that failed ends the request: its error excuses what is left.       *)
LEMMA FailKeeps ==
  ASSUME ConfigInv, Config!ScriptFailed
  PROVE  ConfigInv'
<1>1. /\ todo \in Seq(Script) /\ todo # <<>> /\ ConfigTypes /\ UNCHANGED <<asked, asks>>
      /\ todo' = <<>> /\ answer' = "error" /\ fault' = [fault EXCEPT !.script = TRUE]
      /\ Head(todo).do # "read"
      /\ Config!Run(Head(todo)) \/ UNCHANGED <<listed, keys>>
  BY DEF Config!ScriptFailed, Config!files, ConfigInv, ConfigTypes
<1>2. listed' \in [Route -> Nat] /\ keys' \in [Config!Ref -> Nat]
  <2>1. PICK c \in Script : c = Head(todo)
    BY <1>1, ScriptsFirst
  <2>2. CASE Config!Run(c)
    BY <1>1, <2>1, <2>2, RunRight
  <2>3. CASE UNCHANGED <<listed, keys>>
    BY <1>1, <2>3 DEF ConfigTypes
  <2> QED
    BY <1>1, <2>1, <2>2, <2>3
<1>3. todo' \in Seq(Script) /\ Scripts(todo') = {}
  BY <1>1, ScriptsSmall
<1>4. fault' \in [script : BOOLEAN, missed : BOOLEAN, read : BOOLEAN] /\ fault'.script
  BY <1>1 DEF ConfigTypes
<1>5. ConfigTypes'
  BY <1>1, <1>2, <1>3, <1>4 DEF ConfigTypes
<1>6. ListComes' /\ KeysOwned'
  BY <1>1, <1>3, <1>4 DEF ListComes, KeysOwned
<1> QED
  BY <1>5, <1>6 DEF ConfigInv

ConfigRight == part = "config" => ConfigInv

LEMMA ConfigInductive == PartSpec => []ConfigRight
<1>1. PartInit => ConfigRight
  BY ConfigStart DEF PartInit, ConfigRight
<1>2. ConfigRight /\ [PartNext]_<<part, vars, skillVars, configVars, lineVars, imageVars,
                                  pageVars, panelVars>>
        => ConfigRight'
  <2> SUFFICES ASSUME part = "config", ConfigInv,
                      [PartNext]_<<part, vars, skillVars, configVars, lineVars, imageVars,
                                   pageVars, panelVars>>
               PROVE  ConfigInv'
    BY DEF ConfigRight, PartNext
  <2>1. Config!Next \/ UNCHANGED configVars
    BY DEF PartNext
  <2>2. CASE Config!Next
    BY <2>2, RequestsKeep, ReadKeeps, ScriptKeeps, FailKeeps DEF Config!Next
  <2>3. CASE UNCHANGED configVars
    BY <2>3 DEF configVars, ConfigInv, ConfigTypes, ListComes, KeysOwned, Coming, Config!Listed
  <2> QED
    BY <2>1, <2>2, <2>3
<1> QED
  BY <1>1, <1>2, PTL DEF PartSpec

(* A list of providers answered as saved is the final state, with the keys *)
(* that came with it, whatever earlier requests had left half done         *)
(* (tenant-config.service.js:484).                                         *)
THEOREM ConfigListFinal == PartSpec => []ListFinal
<1>1. ConfigRight => ListFinal
  <2> SUFFICES ASSUME ConfigInv, answer = "ok", asked.kind = "list", ~fault.read
               PROVE  /\ Config!Listed = {r \in Route : asked.list[r]}
                      /\ \A r \in asked.keyed : keys[RefOf[r]] = asks
    BY DEF ConfigRight, ListFinal, Config!ListFinal
  <2>1. todo = <<>> /\ Scripts(todo) = {} /\ ~LastRead(todo)
    BY ScriptsSmall DEF ConfigInv, ConfigTypes, LastRead
  <2>2. Coming = Config!Listed
    BY <2>1 DEF Coming
  <2> QED
    BY <2>1, <2>2 DEF ConfigInv, ListComes
<1> QED
  BY <1>1, ConfigInductive, PTL

(* A key whose provider is gone is only left when a script or a reading    *)
(* has failed (tenant-config.service.js:530).                              *)
THEOREM ConfigNoOrphans == OfficialApart => (PartSpec => []NoOrphans)
<1> SUFFICES ASSUME OfficialApart
             PROVE  PartSpec => []NoOrphans
  OBVIOUS
<1>1. ConfigRight => NoOrphans
  <2> SUFFICES ASSUME ConfigInv, todo = <<>>, ~fault.script, ~fault.missed,
                      NEW r \in Route, keys[RefOf[r]] # 0
               PROVE  r \in Config!Listed
    BY DEF ConfigRight, NoOrphans, Config!NoOrphans
  <2>1. Scripts(todo) = {} /\ Coming = Config!Listed
    BY ScriptsSmall DEF Coming
  <2> QED
    BY <2>1 DEF ConfigInv, KeysOwned
<1> QED
  BY <1>1, ConfigInductive, PTL

-----------------------------------------------------------------------------
(* The types of the parts: of some, an invariant above gives them.         *)
RequestVars == <<part, vars, skillVars, configVars, lineVars, imageVars, pageVars, panelVars>>

LEMMA GatewayTypesOK == PartSpec => [](part = "gateway" => TypeOK)
<1>1. PartInit => IInv
  BY InitInv DEF PartInit
<1>2. IInv /\ [PartNext]_RequestVars => IInv'
  BY GatewayKeeps DEF PartNext, RequestVars
<1> QED
  BY <1>1, <1>2, GatewayTypes, PTL DEF PartSpec, RequestVars

LEMMA LineTypesOK == PartSpec => [](part = "lines" => Lines!TypeOK)
<1>1. PartInit => (part = "lines" => Lines!TypeOK)
  BY DEF PartInit, Lines!Init, Lines!TypeOK
<1>2. (part = "lines" => Lines!TypeOK) /\ [PartNext]_RequestVars => (part = "lines" => Lines!TypeOK)'
  <2> SUFFICES ASSUME part = "lines", Lines!TypeOK, Lines!Next \/ UNCHANGED lineVars
               PROVE  Lines!TypeOK'
    BY DEF PartNext, RequestVars
  <2>1. CASE UNCHANGED lineVars
    BY <2>1 DEF lineVars, Lines!TypeOK
  <2>2. CASE Lines!Next
    <3>1. PICK k \in Key : Lines!SetKey(k) \/ Lines!DelKey(k)
      BY <2>2 DEF Lines!Next
    <3>2. said' \in {<<"written", k>>, <<"deleted", k>>, <<"absent", k>>, <<"refused", k>>}
      BY <3>1 DEF Lines!SetKey, Lines!DelKey, Lines!Write
    <3> QED
      BY <3>2 DEF Lines!TypeOK
  <2> QED
    BY <2>1, <2>2
<1> QED
  BY <1>1, <1>2, PTL DEF PartSpec, RequestVars

(* The configuration, beyond ConfigTypes.                                  *)
ConfigRange == /\ override \in BOOLEAN /\ asks \in 0 .. MaxConfig
               /\ listed \in [Route -> 0 .. MaxConfig] /\ keys \in [Config!Ref -> 0 .. MaxConfig]

LEMMA ConfigRangeRun ==
  ASSUME ConfigTypes, ConfigRange, NEW c \in Script, Config!Run(c), UNCHANGED asks
  PROVE  ConfigRange'
<1>1. 0 \in 0 .. MaxConfig /\ asks \in 0 .. MaxConfig
  BY BoundsAssumption DEF ConfigRange
<1>2. keys' \in [Config!Ref -> 0 .. MaxConfig]
  <2>1. PICK n \in 0 .. MaxConfig : n = IF c.value THEN asks ELSE 0
    BY <1>1
  <2>2. keys' = keys \/ keys' = [keys EXCEPT ![c.ref] = n]
    BY <2>1 DEF Config!Run
  <2> QED
    BY <2>2 DEF ConfigRange
<1>3. override' \in BOOLEAN
  <2>1. CASE c.do = "override"
    <3>1. c.value \in BOOLEAN
      BY <2>1 DEF Script, KeyScript, Config!Read
    <3> QED
      BY <2>1, <3>1 DEF Config!Run
  <2>2. CASE c.do # "override"
    BY <2>2 DEF Config!Run, ConfigRange
  <2> QED
    BY <2>1, <2>2
<1>4. listed' \in [Route -> 0 .. MaxConfig]
  <2> DEFINE next(r) == CASE c.value[r] = "set" -> asks
                          [] c.value[r] = "null" -> 0
                          [] OTHER -> listed[r]
  <2>1. \A r \in Route : next(r) \in 0 .. MaxConfig
    <3>1. \A r \in Route : next(r) \in {asks, 0, listed[r]}
      OBVIOUS
    <3> QED
      BY <1>1, <3>1 DEF ConfigRange
  <2>2. listed' = listed \/ listed' = [r \in Route |-> next(r)]
    BY DEF Config!Run
  <2> QED
    BY <2>1, <2>2 DEF ConfigRange
<1> QED
  BY <1>1, <1>2, <1>3, <1>4 DEF ConfigRange

LEMMA ConfigTypesOK == PartSpec => [](part = "config" => Config!TypeOK)
<1> DEFINE R == part = "config" => ConfigRange
<1>1. PartInit => R
  <2>1. 0 \in 0 .. MaxConfig
    BY BoundsAssumption
  <2> QED
    BY <2>1 DEF PartInit, Config!Init, ConfigRange
<1>2. ConfigRight /\ R /\ [PartNext]_RequestVars => R'
  <2> SUFFICES ASSUME part = "config", ConfigTypes, ConfigRange, Config!Next \/ UNCHANGED configVars
               PROVE  ConfigRange'
    BY DEF PartNext, RequestVars, ConfigRight, ConfigInv
  <2>1. CASE UNCHANGED configVars
    BY <2>1 DEF configVars, ConfigRange
  <2>2. ASSUME UNCHANGED <<override, listed, keys>>, asks' \in 0 .. MaxConfig
        PROVE  ConfigRange'
    BY <2>2 DEF ConfigRange
  <2>3. ASSUME NEW kind, NEW list, NEW keyed, NEW scripts, Config!Request(kind, list, keyed, scripts)
        PROVE  ConfigRange'
    <3>1. asks' \in 0 .. MaxConfig
      BY <2>3, BoundsAssumption DEF Config!Request, ConfigRange
    <3> QED
      BY <2>2, <2>3, <3>1 DEF Config!Request, Config!files
  <2>4. ASSUME NEW key \in BOOLEAN, NEW over \in {"absent", "set", "delete"}, NEW list \in BOOLEAN,
               NEW K \in SUBSET Route, Config!Configure(key, over, list, K)
        PROVE  ConfigRange'
    BY <2>3, <2>4 DEF Config!Configure
  <2>5. CASE Config!Clear \/ Config!ClearKey
    BY <2>3, <2>5 DEF Config!Clear, Config!ClearKey
  <2>6. CASE Config!ReadDone
    BY <2>2, <2>6 DEF Config!ReadDone, Config!files, ConfigRange
  <2>7. CASE Config!ScriptDone \/ Config!ScriptFailed
    <3>1. PICK c : c = Head(todo)
      OBVIOUS
    <3>2. todo # <<>> /\ UNCHANGED asks /\ (Config!Run(c) \/ UNCHANGED Config!files)
      BY <2>7, <3>1 DEF Config!ScriptDone, Config!ScriptFailed
    <3>3. c \in Script
      BY <3>1, <3>2 DEF ConfigTypes
    <3>4. CASE Config!Run(c)
      BY <3>2, <3>3, <3>4, ConfigRangeRun
    <3>5. CASE UNCHANGED Config!files
      BY <2>2, <3>2, <3>5 DEF Config!files, ConfigRange
    <3> QED
      BY <3>2, <3>4, <3>5
  <2> QED
    BY <2>1, <2>4, <2>5, <2>6, <2>7 DEF Config!Next
<1>3. ConfigRight /\ R => (part = "config" => Config!TypeOK)
  BY DEF ConfigRight, ConfigInv, ConfigTypes, ConfigRange, Config!TypeOK
<1> QED
  BY <1>1, <1>2, <1>3, ConfigInductive, PTL DEF PartSpec, RequestVars

(* The images, beyond ImageTypes; a fetch knows a past of the registry.    *)
ImageRange == /\ record.image \in Builds!Image \cup {0}
              /\ using \in [Tenant -> Builds!Image \cup {0}]
              /\ registry \in Nat /\ versions \in 0 .. registry
              /\ fetch = {} \/ \E k \in 1 .. registry : fetch = {k}

LEMMA ImageRangeManage ==
  ASSUME ImageTypes, ImageRange, Builds!Manage
  PROVE  ImageRange'
<1>1. UNCHANGED Builds!versions
  BY DEF Builds!Manage, Builds!BuildAsked, Builds!Select, Builds!Prune, Builds!Removed,
     Builds!BuildStarted, Builds!Built, Builds!BuildFailed, Builds!VersionRead, Builds!IdRead,
     Builds!Recorded, Builds!Tagged, Builds!Reclaim, Builds!Rebuild, Builds!Step
<1>2. UNCHANGED <<registry, versions, fetch>>
  BY <1>1 DEF Builds!versions
<1>3. CASE UNCHANGED <<record, using>>
  BY <1>2, <1>3 DEF ImageRange
<1>4. ASSUME NEW j \in Job, Builds!Recorded(j)
      PROVE  ImageRange'
  <2>1. record' = Builds!Entry(build[j].version, build[j].image) /\ UNCHANGED using
    BY <1>4 DEF Builds!Recorded
  <2>2. build[j].image \in Builds!Image \cup {0}
    BY DEF ImageTypes, BuildJob
  <2> QED
    BY <1>2, <2>1, <2>2 DEF ImageRange, Builds!Entry
<1>5. ASSUME NEW t \in Tenant, NEW n \in Builds!Image \cup {0}, Builds!Rebuild(t, n)
      PROVE  ImageRange'
  <2>1. using' = [using EXCEPT ![t] = n] /\ UNCHANGED record
    BY <1>5 DEF Builds!Rebuild
  <2> QED
    BY <1>2, <2>1 DEF ImageRange
<1> QED
  BY <1>3, <1>4, <1>5 DEF Builds!Manage, Builds!BuildAsked, Builds!Select, Builds!Prune,
     Builds!Removed, Builds!BuildStarted, Builds!Built, Builds!BuildFailed, Builds!VersionRead,
     Builds!IdRead, Builds!Tagged, Builds!Reclaim, Builds!Step

LEMMA ImageRangeFetch ==
  ASSUME ImageRange, Builds!Fetch
  PROVE  ImageRange'
<1>1. UNCHANGED <<record, using>>
  BY DEF Builds!Fetch, Builds!Publish, Builds!Asked, Builds!Answered, Builds!ClearCache
<1>2. CASE Builds!Publish
  BY <1>1, <1>2 DEF Builds!Publish, ImageRange
<1>3. CASE Builds!Asked
  BY <1>1, <1>3 DEF Builds!Asked, ImageRange
<1>4. CASE Builds!ClearCache
  BY <1>1, <1>4 DEF Builds!ClearCache, ImageRange
<1>5. ASSUME NEW k, Builds!Answered(k)
      PROVE  ImageRange'
  BY <1>1, <1>5 DEF Builds!Answered, ImageRange
<1> QED
  BY <1>2, <1>3, <1>4, <1>5 DEF Builds!Fetch

LEMMA ImageTypesOK == PartSpec => [](part \in {"images", "versions"} => Builds!TypeOK)
<1> DEFINE I == part \in {"images", "versions"} => ImagesInv /\ ImageRange
<1>1. PartInit => I
  <2> SUFFICES ASSUME Builds!Init PROVE ImagesInv /\ ImageRange
    BY DEF PartInit
  <2>1. PICK v : record = Builds!Entry(v, 1)
    BY DEF Builds!Init
  <2>2. record.image \in Builds!Image \cup {0}
    BY <2>1, ImageNumbers DEF Builds!Entry
  <2>3. /\ using = [t \in Tenant |-> 0] /\ registry = 0 /\ versions = 0 /\ fetch = {}
    BY DEF Builds!Init
  <2> QED
    BY <2>2, <2>3, ImagesInit DEF ImageRange
<1>2. I /\ [PartNext]_RequestVars => I'
  <2> SUFFICES ASSUME ImagesInv, ImageRange, Builds!Manage \/ Builds!Fetch \/ UNCHANGED imageVars
               PROVE  ImagesInv' /\ ImageRange'
    BY Zenon DEF PartNext, RequestVars
  <2>1. CASE Builds!Manage
    BY <2>1, ManageKeeps, ImageRangeManage DEF ImagesInv
  <2>2. ASSUME UNCHANGED <<repo, record, build, late, clash>>
        PROVE  ImagesInv'
    BY <2>2 DEF ImagesInv, ImageTypes, TagsRight, ChoiceRight, DefaultRight, ReadRight,
       RecordRight, Ahead, Builds!Changing
  <2>3. CASE Builds!Fetch
    BY <2>2, <2>3, ImageRangeFetch DEF Builds!Fetch, Builds!Publish, Builds!Asked,
       Builds!Answered, Builds!ClearCache, Builds!marks
  <2>4. CASE UNCHANGED imageVars
    BY <2>2, <2>4 DEF imageVars, ImageRange
  <2> QED
    BY <2>1, <2>3, <2>4
<1>3. I => (part \in {"images", "versions"} => Builds!TypeOK)
  <2> SUFFICES ASSUME ImagesInv, ImageRange PROVE Builds!TypeOK
    OBVIOUS
  <2>1. Cardinality(fetch) <= 1
    <3>1. CASE fetch = {}
      BY <3>1, FS_EmptySet
    <3>2. ASSUME NEW k, fetch = {k} PROVE Cardinality(fetch) <= 1
      BY <3>2, FS_Singleton
    <3> QED
      BY <3>1, <3>2 DEF ImageRange
  <2>2. Builds!Cardinality(fetch) <= 1
    BY <2>1 DEF Builds!Cardinality, Cardinality
  <2> QED
    BY <2>2 DEF ImagesInv, ImageTypes, Repo, BuildJob, ImageRange, Builds!TypeOK
<1> QED
  BY <1>1, <1>2, <1>3, PTL DEF PartSpec, RequestVars

(* The admin panel: who is asked to sign, or logs in, has an account.      *)
PanelPcs == {"idle", "mount", "listed", "cookie", "data", "check", "sign", "login", "loaded",
             "logout"}
PanelTask == [pc : PanelPcs, addr : Visitor \cup {NoAddr}]
Named(r) == r.pc \in {"check", "sign", "login"} => r.addr # NoAddr
PanelHandlers == handler \in [Handler -> PanelTask] /\ \A f \in Handler : Named(handler[f])
PanelInv ==
  /\ isAdmin \in BOOLEAN /\ notAdmin \in BOOLEAN /\ refresh \in BOOLEAN
  /\ bound \in BOOLEAN /\ alive \in BOOLEAN
  /\ here \in Visitor \cup {NoAddr} /\ adminAs \in Visitor \cup {NoAddr}
  /\ account \in Visitor \cup {NoAddr} /\ cookie \in Visitor \cup {NoAddr}
  /\ handled \in 0 .. MaxHandlers
  /\ isAdmin => cookie # NoAddr
  /\ PanelHandlers

LEMMA PanelMoves ==
  ASSUME PanelInv, NEW f \in Handler, NEW l \in PanelPcs, NEW a \in Visitor \cup {NoAddr},
         l \in {"check", "sign", "login"} => a # NoAddr,
         handler' = [handler EXCEPT ![f] = [pc |-> l, addr |-> a]]
  PROVE  PanelHandlers'
<1>1. PICK r : r = [pc |-> l, addr |-> a]
  OBVIOUS
<1>2. r \in PanelTask /\ Named(r)
  BY <1>1 DEF PanelTask, Named
<1>3. handler' = [handler EXCEPT ![f] = r]
  BY <1>1
<1> QED
  BY <1>2, <1>3 DEF PanelInv, PanelHandlers

LEMMA PanelGoes ==
  ASSUME PanelInv, NEW f \in Handler, NEW l \in PanelPcs,
         l \in {"check", "sign", "login"} => handler[f].addr # NoAddr,
         Panel!Goto(f, l)
  PROVE  PanelHandlers'
<1>1. handler[f] \in PanelTask
  BY DEF PanelInv, PanelHandlers
<1>2. PICK a \in Visitor \cup {NoAddr} : a = handler[f].addr
  BY <1>1 DEF PanelTask
<1>3. [handler[f] EXCEPT !.pc = l] = [pc |-> l, addr |-> a]
  BY <1>1, <1>2 DEF PanelTask
<1>4. handler' = [handler EXCEPT ![f] = [pc |-> l, addr |-> a]]
  BY <1>3 DEF Panel!Goto
<1> QED
  BY <1>2, <1>4, PanelMoves

LEMMA PanelEnds ==
  ASSUME PanelInv, NEW f \in Handler, Panel!End(f)
  PROVE  PanelHandlers'
  BY PanelMoves DEF Panel!End, Panel!Idle, PanelPcs

LEMMA PanelStarts ==
  ASSUME PanelInv, NEW f \in Handler, NEW l \in PanelPcs, NEW a \in Visitor \cup {NoAddr},
         l \in {"check", "sign", "login"} => a # NoAddr, Panel!Start(f, l, a)
  PROVE  PanelHandlers' /\ handled' \in 0 .. MaxHandlers
<1>1. handled' \in 0 .. MaxHandlers
  BY BoundsAssumption DEF Panel!Start, PanelInv
<1> QED
  BY <1>1, PanelMoves DEF Panel!Start

LEMMA PanelSame ==
  ASSUME PanelHandlers, UNCHANGED handler
  PROVE  PanelHandlers'
  BY DEF PanelHandlers

LEMMA PanelFirst == Panel!Init => PanelInv
<1> SUFFICES ASSUME Panel!Init PROVE PanelInv
  OBVIOUS
<1>a. PICK m : m = [pc |-> "mount", addr |-> NoAddr]
  OBVIOUS
<1>b. PICK i : i = Panel!Idle
  OBVIOUS
<1>1. m \in PanelTask /\ Named(m)
  BY <1>a DEF PanelTask, PanelPcs, Named
<1>2. i \in PanelTask /\ Named(i)
  BY <1>b DEF PanelTask, PanelPcs, Named, Panel!Idle
<1>3. PICK f \in Handler : handler = [g \in Handler |-> IF g = f THEN m ELSE i]
  BY <1>a, <1>b DEF Panel!Init
<1>4. PanelHandlers
  BY <1>1, <1>2, <1>3 DEF PanelHandlers
<1>5. 1 \in 0 .. MaxHandlers
  BY BoundsAssumption
<1> QED
  BY <1>4, <1>5, BoundsAssumption DEF Panel!Init, PanelInv

LEMMA PanelWallet ==
  ASSUME PanelInv, NEW w \in Visitor \cup {NoAddr}, Panel!Announce(w)
  PROVE  PanelInv'
<1>1. /\ account' = w /\ here' = w /\ UNCHANGED <<bound, alive, cookie>>
      /\ \/ /\ isAdmin' = FALSE /\ notAdmin' = FALSE /\ adminAs' = NoAddr
            /\ refresh' = (refresh /\ Panel!StopPollingThrows)
            /\ UNCHANGED <<handler, handled>>
         \/ UNCHANGED <<isAdmin, notAdmin, adminAs, refresh, handler, handled>>
         \/ /\ w # NoAddr /\ \E f \in Handler : Panel!Start(f, "check", w)
            /\ UNCHANGED <<isAdmin, notAdmin, adminAs, refresh>>
  BY DEF Panel!Announce, Panel!View, Panel!views, Panel!StopPolling
<1>2. PanelHandlers' /\ handled' \in 0 .. MaxHandlers
  <2>1. ASSUME NEW f \in Handler, w # NoAddr, Panel!Start(f, "check", w)
        PROVE  PanelHandlers' /\ handled' \in 0 .. MaxHandlers
    <3>1. "check" \in PanelPcs
      BY DEF PanelPcs
    <3> QED
      BY <2>1, <3>1, PanelStarts
  <2> QED
    BY <1>1, <2>1, PanelSame DEF PanelInv
<1>3. refresh' \in BOOLEAN
  BY <1>1 DEF PanelInv
<1>4. /\ isAdmin' \in BOOLEAN /\ notAdmin' \in BOOLEAN /\ adminAs' \in Visitor \cup {NoAddr}
      /\ isAdmin' => cookie' # NoAddr
  <2>1. /\ isAdmin' = isAdmin \/ isAdmin' = FALSE
        /\ notAdmin' = notAdmin \/ notAdmin' = FALSE
        /\ adminAs' = adminAs \/ adminAs' = NoAddr
        /\ cookie' = cookie
    BY <1>1
  <2>2. isAdmin' \in BOOLEAN /\ notAdmin' \in BOOLEAN
    BY <2>1, Zenon DEF PanelInv
  <2>3. isAdmin' => cookie' # NoAddr
    BY <2>1, Zenon DEF PanelInv
  <2> QED
    BY <2>1, <2>2, <2>3 DEF PanelInv
<1> QED
  BY <1>1, <1>2, <1>3, <1>4 DEF PanelInv

(* A handler leaves the flags and the addresses as they were, or sets them *)
(* to what is known; the management view comes up with a session.          *)
Flag(new, was) == new = was \/ new = TRUE \/ new = FALSE
LEMMA PanelCloses ==
  ASSUME PanelInv, PanelHandlers', handled' \in 0 .. MaxHandlers, NEW a \in Visitor \cup {NoAddr},
         Flag(isAdmin', isAdmin), Flag(notAdmin', notAdmin), Flag(refresh', refresh),
         Flag(bound', bound), Flag(alive', alive),
         here' \in {here, a}, adminAs' \in {adminAs, a, NoAddr}, account' = account,
         cookie' \in {cookie, a, NoAddr},
         \/ isAdmin' = FALSE
         \/ isAdmin' = isAdmin /\ cookie' = cookie
         \/ cookie' # NoAddr
  PROVE  PanelInv'
<1>1. /\ isAdmin' \in BOOLEAN /\ notAdmin' \in BOOLEAN /\ refresh' \in BOOLEAN
      /\ bound' \in BOOLEAN /\ alive' \in BOOLEAN
  <2>1. \A new, was : Flag(new, was) /\ was \in BOOLEAN => new \in BOOLEAN
    BY DEF Flag
  <2> QED
    BY <2>1 DEF PanelInv
<1>2. isAdmin' => cookie' # NoAddr
  BY Zenon DEF PanelInv
<1>3. /\ here' \in Visitor \cup {NoAddr} /\ adminAs' \in Visitor \cup {NoAddr}
      /\ account' \in Visitor \cup {NoAddr} /\ cookie' \in Visitor \cup {NoAddr}
  BY DEF PanelInv
<1> QED
  BY <1>1, <1>2, <1>3 DEF PanelInv

LEMMA PanelMounts ==
  ASSUME PanelInv, NEW f \in Handler,
         Panel!Mount(f) \/ Panel!Listed(f) \/ Panel!CheckAdmin(f) \/ Panel!Loaded(f)
  PROVE  PanelInv'
<1>1. /\ account \in Visitor \cup {NoAddr} /\ NoAddr \in Visitor \cup {NoAddr}
      /\ handled \in 0 .. MaxHandlers
      /\ {"listed", "cookie", "data"} \subseteq PanelPcs \ {"check", "sign", "login"}
  BY DEF PanelInv, PanelPcs
<1>2. CASE Panel!Mount(f)
  <2>1. /\ bound' = TRUE /\ here' \in {here, account}
        /\ UNCHANGED <<isAdmin, notAdmin, adminAs, refresh, alive, account, cookie, handled>>
        /\ \/ handler' = [handler EXCEPT ![f] = [pc |-> "listed", addr |-> account]]
           \/ Panel!End(f)
    BY <1>2 DEF Panel!Mount, Panel!views
  <2>2. PanelHandlers'
    BY <1>1, <2>1, PanelMoves, PanelEnds
  <2> QED
    BY <1>1, <2>1, <2>2, PanelCloses DEF Flag
<1>3. CASE Panel!Listed(f)
  <2>1. /\ \/ isAdmin' = isAdmin /\ notAdmin' = notAdmin /\ Panel!Goto(f, "cookie")
           \/ isAdmin' = FALSE /\ notAdmin' = TRUE /\ Panel!End(f)
        /\ UNCHANGED <<here, adminAs, refresh, bound, alive, account, cookie, handled>>
    BY <1>3 DEF Panel!Listed, Panel!NoAccess, Panel!View, Panel!views
  <2>2. PanelHandlers'
    BY <1>1, <2>1, PanelGoes, PanelEnds
  <2> QED
    BY <1>1, <2>1, <2>2, PanelCloses DEF Flag
<1>4. CASE Panel!CheckAdmin(f)
  <2>1. /\ \/ cookie # NoAddr /\ isAdmin' = TRUE /\ notAdmin' = notAdmin /\ Panel!Goto(f, "data")
           \/ isAdmin' = FALSE /\ notAdmin' = FALSE /\ Panel!End(f)
        /\ UNCHANGED <<here, adminAs, refresh, bound, alive, account, cookie, handled>>
    BY <1>4 DEF Panel!CheckAdmin, Panel!View
  <2>2. PanelHandlers'
    BY <1>1, <2>1, PanelGoes, PanelEnds
  <2> QED
    BY <1>1, <2>1, <2>2, PanelCloses DEF Flag
<1>5. CASE Panel!Loaded(f)
  <2>1. /\ isAdmin' = FALSE /\ notAdmin' = TRUE /\ refresh' = FALSE /\ Panel!End(f)
        /\ UNCHANGED <<here, adminAs, bound, alive, account, cookie, handled>>
    BY <1>5 DEF Panel!Loaded, Panel!StartPolling, Panel!StopPollingThrows, Panel!NoAccess, Panel!View
  <2>2. PanelHandlers'
    BY <2>1, PanelEnds
  <2> QED
    BY <1>1, <2>1, <2>2, PanelCloses DEF Flag
<1> QED
  BY <1>2, <1>3, <1>4, <1>5

LEMMA PanelSwitches ==
  ASSUME PanelInv, NEW f \in Handler,
         Panel!Checked(f) \/ Panel!Switched(f) \/ Panel!LoggedIn(f) \/ Panel!LoginLoaded(f)
  PROVE  PanelInv'
<1>1. /\ handled \in 0 .. MaxHandlers /\ handler[f] \in PanelTask /\ Named(handler[f])
      /\ {"sign", "loaded"} \subseteq PanelPcs
  BY DEF PanelInv, PanelHandlers, PanelPcs
<1>2. PICK a \in Visitor \cup {NoAddr} : a = handler[f].addr
  BY <1>1 DEF PanelTask
<1>3. CASE Panel!Checked(f)
  <2>1. /\ \/ Panel!Goto(f, "sign") /\ UNCHANGED <<isAdmin, notAdmin, adminAs, refresh>>
           \/ /\ isAdmin' = FALSE /\ notAdmin' = TRUE /\ adminAs' = NoAddr
              /\ refresh' = (refresh /\ TRUE) /\ Panel!End(f)
        /\ UNCHANGED <<here, bound, alive, account, cookie, handled>>
    BY <1>3 DEF Panel!Checked, Panel!Denied, Panel!NoAccess, Panel!View, Panel!StopPolling,
       Panel!StopPollingThrows, Panel!views
  <2>2. handler[f].pc = "check" /\ handler[f].addr # NoAddr
    BY <1>1, <1>3 DEF Panel!Checked, Panel!At, Named
  <2>3. PanelHandlers'
    BY <1>1, <2>1, <2>2, PanelGoes, PanelEnds
  <2>4. Flag(refresh', refresh)
    BY <2>1 DEF Flag, PanelInv
  <2>5. CASE UNCHANGED <<isAdmin, notAdmin, adminAs, refresh>>
    BY <1>1, <1>2, <2>1, <2>3, <2>5, PanelCloses DEF Flag
  <2>6. CASE isAdmin' = FALSE /\ notAdmin' = TRUE /\ adminAs' = NoAddr
    BY <1>1, <1>2, <2>1, <2>3, <2>4, <2>6, PanelCloses DEF Flag
  <2> QED
    BY <2>1, <2>5, <2>6
<1>4. CASE Panel!Switched(f)
  <2>1. /\ handler[f].pc = "sign" /\ Panel!End(f)
        /\ \/ cookie' = a /\ adminAs' = a /\ isAdmin' = TRUE /\ notAdmin' = FALSE
           \/ UNCHANGED <<isAdmin, notAdmin, adminAs, cookie>>
        /\ UNCHANGED <<here, refresh, bound, alive, account, handled>>
    BY <1>2, <1>4 DEF Panel!Switched, Panel!At, Panel!View, Panel!views
  <2>2. a # NoAddr /\ PanelHandlers'
    BY <1>1, <1>2, <2>1, PanelEnds DEF Named
  <2> QED
    BY <1>1, <2>1, <2>2, PanelCloses DEF Flag
<1>5. CASE Panel!LoggedIn(f)
  <2>1. /\ handler[f].pc = "login"
        /\ \/ /\ cookie' = a /\ adminAs' = a /\ isAdmin' = TRUE /\ notAdmin' = FALSE
              /\ Panel!Goto(f, "loaded")
           \/ /\ isAdmin' = FALSE /\ notAdmin' = TRUE /\ UNCHANGED <<adminAs, cookie>>
              /\ Panel!End(f)
           \/ UNCHANGED <<isAdmin, notAdmin, adminAs, cookie>> /\ Panel!End(f)
        /\ UNCHANGED <<here, refresh, bound, alive, account, handled>>
    BY <1>2, <1>5 DEF Panel!LoggedIn, Panel!At, Panel!View, Panel!NoAccess, Panel!views
  <2>2. a # NoAddr
    BY <1>1, <1>2, <2>1 DEF Named
  <2>3. PanelHandlers'
    BY <1>1, <2>1, PanelGoes, PanelEnds
  <2> QED
    BY <1>1, <2>1, <2>2, <2>3, PanelCloses DEF Flag
<1>6. CASE Panel!LoginLoaded(f)
  <2>1. /\ refresh' = FALSE /\ Panel!End(f)
        /\ UNCHANGED <<isAdmin, notAdmin, here, adminAs, bound, alive, account, cookie, handled>>
    BY <1>6 DEF Panel!LoginLoaded, Panel!StartPolling, Panel!StopPollingThrows, Panel!views
  <2>2. PanelHandlers'
    BY <2>1, PanelEnds
  <2> QED
    BY <1>1, <1>2, <2>1, <2>2, PanelCloses DEF Flag
<1> QED
  BY <1>3, <1>4, <1>5, <1>6

LEMMA PanelButtons ==
  ASSUME PanelInv, NEW f \in Handler,
         Panel!AdminLogin(f) \/ Panel!Logout(f) \/ Panel!LoggedOut(f)
  PROVE  PanelInv'
<1>1. /\ account \in Visitor \cup {NoAddr} /\ NoAddr \in Visitor \cup {NoAddr}
      /\ handled \in 0 .. MaxHandlers /\ "login" \in PanelPcs
      /\ "logout" \in PanelPcs \ {"check", "sign", "login"}
  BY DEF PanelInv, PanelPcs
<1>2. CASE Panel!AdminLogin(f)
  <2>1. /\ account # NoAddr /\ here' = account /\ Panel!Start(f, "login", account)
        /\ UNCHANGED <<isAdmin, notAdmin, adminAs, refresh, bound, alive, account, cookie>>
    BY <1>2 DEF Panel!AdminLogin, Panel!views
  <2>2. PanelHandlers' /\ handled' \in 0 .. MaxHandlers
    BY <1>1, <2>1, PanelStarts
  <2> QED
    BY <1>1, <2>1, <2>2, PanelCloses DEF Flag
<1>3. CASE Panel!Logout(f)
  <2>1. /\ Panel!Start(f, "logout", NoAddr)
        /\ UNCHANGED <<isAdmin, notAdmin, here, adminAs, refresh, bound, alive, account, cookie>>
    BY <1>3 DEF Panel!Logout, Panel!views
  <2>2. PanelHandlers' /\ handled' \in 0 .. MaxHandlers
    BY <1>1, <2>1, PanelStarts
  <2> QED
    BY <1>1, <2>1, <2>2, PanelCloses DEF Flag
<1>4. CASE Panel!LoggedOut(f)
  <2>1. /\ cookie' \in {NoAddr, cookie} /\ isAdmin' = FALSE /\ adminAs' = NoAddr
        /\ refresh' = (refresh /\ TRUE) /\ Panel!End(f)
        /\ UNCHANGED <<notAdmin, here, bound, alive, account, handled>>
    BY <1>4 DEF Panel!LoggedOut, Panel!StopPolling, Panel!StopPollingThrows
  <2>2. PanelHandlers'
    BY <2>1, PanelEnds
  <2>3. Flag(refresh', refresh)
    BY <2>1 DEF Flag, PanelInv
  <2> QED
    BY <1>1, <2>1, <2>2, <2>3, PanelCloses DEF Flag
<1> QED
  BY <1>2, <1>3, <1>4

LEMMA PanelTypesOK == PartSpec => [](part = "panel" => Panel!TypeOK)
<1> DEFINE I == part = "panel" => PanelInv
<1>1. PartInit => I
  BY PanelFirst DEF PartInit
<1>2. I /\ [PartNext]_RequestVars => I'
  <2> SUFFICES ASSUME PanelInv, Panel!Next \/ UNCHANGED panelVars
               PROVE  PanelInv'
    BY DEF PartNext, RequestVars
  <2>1. CASE UNCHANGED panelVars
    BY <2>1 DEF panelVars, PanelInv, PanelHandlers
  <2>2. CASE Panel!Unmount
    <3>1. /\ alive' = FALSE /\ refresh' = (refresh /\ TRUE) /\ bound' = (bound /\ TRUE)
          /\ UNCHANGED <<isAdmin, notAdmin, here, adminAs, account, cookie, handler, handled>>
      BY <2>2 DEF Panel!Unmount, Panel!StopPolling, Panel!StopPollingThrows, Panel!views
    <3>2. Flag(refresh', refresh) /\ Flag(bound', bound)
      BY <3>1 DEF Flag, PanelInv
    <3>3. PanelHandlers' /\ handled' \in 0 .. MaxHandlers
      BY <3>1, PanelSame DEF PanelInv
    <3> QED
      BY <3>1, <3>2, <3>3, PanelCloses DEF Flag
  <2> QED
    BY <2>1, <2>2, PanelWallet, PanelMounts, PanelSwitches, PanelButtons DEF Panel!Next
<1>3. I => (part = "panel" => Panel!TypeOK)
  BY DEF PanelInv, PanelHandlers, PanelTask, Panel!TypeOK
<1> QED
  BY <1>1, <1>2, <1>3, PTL DEF PartSpec, RequestVars

(* The skill market for its types, whatever the provider: a number in a    *)
(* volume, in the store or with a request is of a request so far.          *)
Listing == [Name -> [sharer : Addr, hash : Skills!Text, at : Skills!Text] \cup {Skills!None}]
MarketJob == [pc : {"idle", "extract", "publish", "unlink"} \cup Skills!Writing,
              addr : Addr \cup {"none"}, name : Name \cup {"none"}, share : Name \cup {"none"},
              text : 0 .. MaxRequest, hash : 0 .. MaxRequest, begun : Nat, entries : Listing]
MarketJobRight(r) ==
  /\ r.pc \in {"extract", "publish"} \cup Skills!Writing => r.addr \in Addr /\ r.name \in Name
  /\ r.pc \in {"extract", "publish", "unlink"} => r.share \in Name
  /\ r.pc = "publish" => r.text # 0
MarketSkill == [text : 0 .. MaxRequest, by : {"none", "tenant", "market"}]
MarketTypes == /\ index \in Listing /\ body \in [Name -> 0 .. MaxRequest]
               /\ count \in Skills!Text /\ mixed \subseteq Addr \X Name
               /\ volume \in [Addr -> [Name -> MarketSkill]]
               /\ installs \in [Addr -> [Name -> 0 .. MaxRequest]]
               /\ job \in [Job -> MarketJob] /\ \A j \in Job : MarketJobRight(job[j])
SoFar == /\ \A n \in Name : body[n] <= count
         /\ \A a \in Addr, n \in Name : volume[a][n].text <= count
         /\ \A j \in Job : job[j].text <= count
MarketInv == MarketTypes /\ SoFar
MarketMarks == lost \subseteq Addr \X Name /\ restored \subseteq Name

LEMMA MarketIdle ==
  /\ Skills!Idle \in MarketJob /\ MarketJobRight(Skills!Idle) /\ Skills!Idle.text = 0
  /\ Skills!NoIndex \in Listing /\ 0 \in 0 .. MaxRequest /\ Skills!NoSkill \in MarketSkill
<1>1. 0 \in 0 .. MaxRequest
  BY BoundsAssumption
<1>2. Skills!NoIndex \in Listing
  BY DEF Skills!NoIndex, Listing
<1> QED
  BY <1>1, <1>2 DEF Skills!Idle, MarketJob, MarketJobRight, Skills!Writing, Skills!NoSkill,
     MarketSkill

LEMMA MarketStart == Skills!Init => MarketInv
<1> SUFFICES ASSUME Skills!Init PROVE MarketInv
  OBVIOUS
<1>1. PICK z : z = [text |-> 1, by |-> "tenant"]
  OBVIOUS
<1>2. /\ index = Skills!NoIndex /\ body = [n \in Name |-> 0] /\ count = 1 /\ mixed = {}
      /\ volume = [a \in Addr |-> [n \in Name |-> z]]
      /\ installs = [a \in Addr |-> [n \in Name |-> 0]]
      /\ job = [j \in Job |-> Skills!Idle]
  BY <1>1 DEF Skills!Init
<1>3. 1 \in 0 .. MaxRequest /\ 1 \in Skills!Text
  BY BoundsAssumption DEF Skills!Text
<1>4. z \in MarketSkill /\ z.text = 1
  BY <1>1, <1>3 DEF MarketSkill
<1>5. MarketTypes
  BY <1>2, <1>3, <1>4, MarketIdle DEF MarketTypes
<1> QED
  BY <1>2, <1>4, <1>5, MarketIdle DEF MarketInv, SoFar

(* A request's step that leaves the volumes and the records alone.         *)
LEMMA MarketMoves ==
  ASSUME MarketInv, NEW j \in Job, NEW t \in MarketJob, Skills!Become(j, t), MarketJobRight(t),
         count' \in Skills!Text, count <= count', t.text <= count',
         index' \in Listing, mixed' \subseteq Addr \X Name,
         UNCHANGED installs,
         body' \in [Name -> 0 .. MaxRequest], \A n \in Name : body'[n] <= count,
         volume' \in [Addr -> [Name -> MarketSkill]],
         \A a \in Addr, n \in Name : volume'[a][n].text <= count
  PROVE  MarketInv'
<1>1. /\ job' \in [Job -> MarketJob] /\ job'[j] = t /\ \A i \in Job : i # j => job'[i] = job[i]
  BY DEF Skills!Become, MarketInv, MarketTypes
<1>2. MarketTypes'
  BY <1>1 DEF MarketInv, MarketTypes
<1>3. \A i \in Job : job[i].text \in Nat /\ job[i].text <= count
  BY BoundsAssumption DEF MarketInv, MarketTypes, MarketJob, SoFar
<1>4. count \in Nat /\ count' \in Nat
  BY BoundsAssumption DEF MarketInv, MarketTypes, Skills!Text
<1>5. \A k \in Nat : k <= count => k <= count'
  BY <1>4
<1>6. \A n \in Name : body'[n] \in Nat
  BY BoundsAssumption
<1>7. \A a \in Addr, n \in Name : volume'[a][n].text \in Nat
  BY BoundsAssumption DEF MarketSkill
<1>8. \A i \in Job : job'[i].text <= count'
  BY <1>1, <1>3, <1>5
<1> QED
  BY <1>2, <1>5, <1>6, <1>7, <1>8 DEF MarketInv, SoFar

LEMMA MarketFacts ==
  ASSUME MarketInv
  PROVE  /\ count \in Skills!Text /\ count \in Nat /\ count <= count
         /\ index \in Listing /\ mixed \subseteq Addr \X Name
         /\ body \in [Name -> 0 .. MaxRequest] /\ \A n \in Name : body[n] <= count
         /\ volume \in [Addr -> [Name -> MarketSkill]]
         /\ \A a \in Addr, n \in Name : volume[a][n].text <= count
         /\ \A j \in Job : job[j] \in MarketJob /\ MarketJobRight(job[j]) /\ job[j].text <= count
         /\ 0 <= count /\ \A i \in Skills!Text : i \in 0 .. MaxRequest /\ i # 0
<1>1. \A i \in Skills!Text : i \in 0 .. MaxRequest /\ i # 0
  BY BoundsAssumption DEF Skills!Text
<1>2. count \in Skills!Text /\ count \in Nat /\ 0 <= count
  BY BoundsAssumption DEF MarketInv, MarketTypes, Skills!Text
<1> QED
  BY <1>1, <1>2, BoundsAssumption DEF MarketInv, MarketTypes, SoFar

LEMMA MarketCounts ==
  ASSUME MarketInv, Skills!Counted
  PROVE  /\ count' = count + 1 /\ count' \in 0 .. MaxRequest /\ count <= count' /\ 0 <= count'
         /\ count' \in Nat /\ count' \in Skills!Text
  BY BoundsAssumption DEF Skills!Counted, Skills!Text, MarketInv, MarketTypes

(* A tenant's volume changes.                                              *)
LEMMA MarketVolumes ==
  ASSUME MarketInv, Skills!Counted, UNCHANGED <<index, body, installs, job>>,
         mixed' \subseteq Addr \X Name, volume' \in [Addr -> [Name -> MarketSkill]],
         \A b \in Addr, m \in Name : volume'[b][m].text <= count' \/ volume'[b][m] = volume[b][m]
  PROVE  MarketInv'
<1>1. count' \in Skills!Text /\ count <= count' /\ count' \in Nat /\ count \in Nat
  BY MarketCounts, MarketFacts
<1>2. \A k \in Nat : k <= count => k <= count'
  BY <1>1
<1>3. \A b \in Addr, m \in Name : volume[b][m].text \in Nat /\ volume[b][m].text <= count
  BY BoundsAssumption, MarketFacts DEF MarketSkill
<1>4. \A b \in Addr, m \in Name : volume'[b][m].text <= count'
  BY <1>2, <1>3
<1>5. \A m \in Name : body[m] \in Nat /\ body[m] <= count
  BY BoundsAssumption, MarketFacts
<1>6. \A i \in Job : job[i].text \in Nat /\ job[i].text <= count
  BY BoundsAssumption, MarketFacts DEF MarketJob
<1>7. MarketTypes'
  BY <1>1 DEF MarketInv, MarketTypes
<1> QED
  BY <1>2, <1>4, <1>5, <1>6, <1>7 DEF MarketInv, SoFar

LEMMA MarketTenants ==
  ASSUME MarketInv, NEW a \in Addr,
         Skills!Erase(a) \/ \E n \in Name : Skills!Write(a, n) \/ Skills!Delete(a, n)
  PROVE  MarketInv'
<1>1. volume \in [Addr -> [Name -> MarketSkill]] /\ mixed \subseteq Addr \X Name
  BY MarketFacts
<1>2. PICK z \in MarketSkill : z = Skills!NoSkill /\ z.text = 0
  BY MarketIdle DEF Skills!NoSkill
<1>3. ASSUME NEW n \in Name, NEW v \in MarketSkill, v.text <= count', Skills!Counted,
             UNCHANGED <<index, body, installs, job, mixed>>,
             volume' = [volume EXCEPT ![a][n] = v]
      PROVE  MarketInv'
  <2>1. /\ volume' \in [Addr -> [Name -> MarketSkill]]
        /\ \A b \in Addr, m \in Name : volume'[b][m] \in {v, volume[b][m]}
    BY <1>1, <1>3
  <2> QED
    BY <1>1, <1>3, <2>1, MarketVolumes
<1>4. ASSUME NEW n \in Name, Skills!Write(a, n)
      PROVE  MarketInv'
  <2>1. PICK v : v = [text |-> count', by |-> "tenant"]
    OBVIOUS
  <2>2. /\ Skills!Counted /\ UNCHANGED <<index, body, installs, job, mixed>>
        /\ volume' = [volume EXCEPT ![a][n] = v]
    BY <1>4, <2>1 DEF Skills!Write, Skills!market
  <2>3. v \in MarketSkill /\ v.text <= count'
    BY <2>1, <2>2, MarketCounts DEF MarketSkill
  <2> QED
    BY <1>3, <2>2, <2>3
<1>5. ASSUME NEW n \in Name, Skills!Delete(a, n)
      PROVE  MarketInv'
  <2>1. /\ Skills!Counted /\ UNCHANGED <<index, body, installs, job, mixed>>
        /\ volume' = [volume EXCEPT ![a][n] = z]
    BY <1>2, <1>5 DEF Skills!Delete, Skills!market
  <2>2. z.text <= count'
    BY <1>2, <2>1, MarketCounts
  <2> QED
    BY <1>3, <2>1, <2>2
<1>6. ASSUME Skills!Erase(a)
      PROVE  MarketInv'
  <2>1. /\ Skills!Counted /\ UNCHANGED <<index, body, installs, job, mixed>>
        /\ volume' = [volume EXCEPT ![a] = [n \in Name |-> z]]
    BY <1>2, <1>6 DEF Skills!Erase, Skills!market
  <2>2. /\ volume' \in [Addr -> [Name -> MarketSkill]]
        /\ \A b \in Addr, m \in Name : volume'[b][m] \in {z, volume[b][m]}
    BY <1>1, <2>1
  <2>3. z.text <= count'
    BY <1>2, <2>1, MarketCounts
  <2> QED
    BY <1>1, <2>1, <2>2, <2>3, MarketVolumes
<1> QED
  BY <1>4, <1>5, <1>6

LEMMA MarketRequests ==
  ASSUME MarketInv, NEW j \in Job, NEW a \in Addr, NEW n \in Name,
         \/ \E s \in Name : Skills!Publish(j, a, n, s)
         \/ Skills!Install(j, a, n) \/ Skills!Import(j, a, n) \/ Skills!Uninstall(j, a, n)
  PROVE  MarketInv'
<1>1. ASSUME NEW s \in Name, Skills!Publish(j, a, n, s)
      PROVE  MarketInv'
  <2>1. PICK t : t = [Skills!Idle EXCEPT !.pc = "extract", !.addr = a, !.name = n, !.share = s,
                                         !.begun = count + 1, !.entries = index]
    OBVIOUS
  <2>2. t \in MarketJob /\ MarketJobRight(t) /\ t.text = 0
    <3>1. index \in Listing /\ count + 1 \in Nat
      BY MarketFacts
    <3>2. t \in MarketJob /\ t.text = 0
      BY <2>1, <3>1, MarketIdle DEF Skills!Idle, MarketJob
    <3>3. MarketJobRight(t)
      BY <2>1 DEF Skills!Idle, MarketJobRight, Skills!Writing
    <3> QED
      BY <3>2, <3>3
  <2>3. /\ Skills!Become(j, t) /\ Skills!Counted
        /\ UNCHANGED <<index, body, volume, installs, mixed>>
    BY <1>1, <2>1 DEF Skills!Publish, Skills!market, Skills!tenants
  <2>4. count' \in Skills!Text /\ count <= count' /\ t.text <= count'
    BY <2>2, <2>3, MarketCounts
  <2> QED
    BY <2>2, <2>3, <2>4, MarketFacts, MarketMoves
<1>2. ASSUME NEW l \in {"install", "uninstall"}, NEW x \in 0 .. MaxRequest, NEW h \in 0 .. MaxRequest,
             Skills!Begin(j, l, a, n, x, h), x <= count + 1
      PROVE  MarketInv'
  <2>1. PICK t : t = [Skills!Idle EXCEPT !.pc = l, !.addr = a, !.name = n, !.text = x, !.hash = h]
    OBVIOUS
  <2>2. t \in MarketJob /\ MarketJobRight(t) /\ t.text = x
    BY <2>1, MarketIdle DEF Skills!Idle, MarketJob, MarketJobRight, Skills!Writing
  <2>3. /\ Skills!Become(j, t) /\ Skills!Counted
        /\ mixed' \in {mixed, mixed \cup {<<a, n>>}}
        /\ UNCHANGED <<index, body, volume, installs>>
    BY <1>2, <2>1 DEF Skills!Begin, Skills!market, Skills!tenants
  <2>4. count' \in Skills!Text /\ count <= count' /\ t.text <= count'
    BY <1>2, <2>2, <2>3, MarketCounts
  <2>5. mixed' \subseteq Addr \X Name
    BY <2>3, MarketFacts
  <2> QED
    BY <2>2, <2>3, <2>4, <2>5, MarketFacts, MarketMoves
<1>3. CASE Skills!Install(j, a, n)
  <2>1. PICK x : x = body[n]
    OBVIOUS
  <2>2. PICK h : h = index[n].hash
    OBVIOUS
  <2>3. index[n] # Skills!None /\ Skills!Begin(j, "install", a, n, x, h)
    BY <1>3, <2>1, <2>2 DEF Skills!Install
  <2>4. x \in 0 .. MaxRequest /\ x <= count /\ count \in Nat
    BY <2>1, MarketFacts
  <2>5. h \in Skills!Text
    BY <2>2, <2>3, MarketFacts DEF Listing
  <2>6. h \in 0 .. MaxRequest /\ x <= count + 1
    BY <2>4, <2>5, MarketFacts
  <2> QED
    BY <1>2, <2>3, <2>4, <2>6
<1>4. CASE Skills!Import(j, a, n)
  <2>1. PICK x : x = count + 1
    OBVIOUS
  <2>2. Skills!Begin(j, "install", a, n, x, x)
    BY <1>4, <2>1 DEF Skills!Import
  <2>3. x \in 0 .. MaxRequest /\ x <= count + 1
    BY <2>1, <2>2, MarketCounts DEF Skills!Begin
  <2> QED
    BY <1>2, <2>2, <2>3
<1>5. CASE Skills!Uninstall(j, a, n)
  <2>1. 0 \in 0 .. MaxRequest /\ 0 <= count + 1
    BY MarketIdle, MarketFacts
  <2> QED
    BY <1>2, <1>5, <2>1 DEF Skills!Uninstall
<1> QED
  BY <1>1, <1>3, <1>4, <1>5

LEMMA MarketShares ==
  ASSUME MarketInv, NEW j \in Job,
         \/ Skills!Extracted(j) \/ Skills!Published(j) \/ Skills!Unlinked(j)
         \/ \E s \in Name : Skills!Unpublish(j, s)
  PROVE  MarketInv'
<1>1. job[j] \in MarketJob /\ MarketJobRight(job[j]) /\ job[j].text <= count
  BY MarketFacts
<1>2. CASE Skills!Extracted(j)
  <2>1. job[j].pc = "extract" /\ job[j].addr \in Addr /\ job[j].name \in Name
    BY <1>1, <1>2 DEF Skills!Extracted, Skills!At, MarketJobRight
  <2>2. PICK x : x = volume[job[j].addr][job[j].name].text
    OBVIOUS
  <2>3. x \in 0 .. MaxRequest /\ x <= count
    BY <2>1, <2>2, MarketFacts DEF MarketSkill
  <2>4. PICK t : t = [job[j] EXCEPT !.pc = "publish", !.text = x]
    OBVIOUS
  <2>5. /\ \/ x # 0 /\ Skills!Become(j, t)
           \/ Skills!Become(j, Skills!Idle)
        /\ UNCHANGED <<index, body, volume, installs, count, mixed>>
    BY <1>2, <2>2, <2>4 DEF Skills!Extracted, Skills!market, Skills!tenants
  <2>6. CASE x # 0 /\ Skills!Become(j, t)
    <3>1. t \in MarketJob /\ MarketJobRight(t) /\ t.text = x
      BY <1>1, <2>1, <2>3, <2>4, <2>6 DEF MarketJob, MarketJobRight, Skills!Writing
    <3> QED
      BY <2>3, <2>5, <2>6, <3>1, MarketFacts, MarketMoves
  <2>7. CASE Skills!Become(j, Skills!Idle)
    BY <2>5, <2>7, MarketIdle, MarketFacts, MarketMoves
  <2> QED
    BY <2>5, <2>6, <2>7
<1>3. CASE Skills!Published(j)
  <2>1. job[j].pc = "publish" /\ job[j].share \in Name /\ job[j].addr \in Addr /\ job[j].text # 0
    BY <1>1, <1>3 DEF Skills!Published, Skills!At, MarketJobRight
  <2>2. PICK e : e = [sharer |-> job[j].addr, hash |-> job[j].text, at |-> count]
    OBVIOUS
  <2>3. PICK old \in Listing : old = Skills!List(j)
    BY <1>1, MarketFacts DEF MarketJob, Skills!List
  <2>4. /\ body' = [body EXCEPT ![job[j].share] = job[j].text]
        /\ index' = [old EXCEPT ![job[j].share] = e]
        /\ Skills!Become(j, Skills!Idle) /\ UNCHANGED <<volume, installs, count, mixed>>
    BY <1>3, <2>2, <2>3 DEF Skills!Published, Skills!tenants
  <2>5. job[j].text \in 0 .. MaxRequest /\ job[j].text \in Skills!Text
    BY <1>1, <2>1, BoundsAssumption DEF MarketJob, Skills!Text
  <2>6. e \in [sharer : Addr, hash : Skills!Text, at : Skills!Text]
    BY <2>1, <2>2, <2>5, MarketFacts
  <2>7. index' \in Listing
    BY <2>1, <2>4, <2>6 DEF Listing
  <2>8. body' \in [Name -> 0 .. MaxRequest] /\ \A m \in Name : body'[m] <= count
    BY <1>1, <2>1, <2>4, <2>5, MarketFacts
  <2> QED
    BY <2>4, <2>7, <2>8, MarketIdle, MarketFacts, MarketMoves
<1>4. CASE Skills!Unlinked(j)
  <2>1. /\ body' = [body EXCEPT ![job[j].share] = 0] /\ Skills!Become(j, Skills!Idle)
        /\ UNCHANGED <<index, volume, installs, count, mixed>>
    BY <1>4 DEF Skills!Unlinked, Skills!tenants
  <2>2. body' \in [Name -> 0 .. MaxRequest] /\ \A m \in Name : body'[m] <= count
    BY <2>1, MarketIdle, MarketFacts
  <2> QED
    BY <2>1, <2>2, MarketIdle, MarketFacts, MarketMoves
<1>5. ASSUME NEW s \in Name, Skills!Unpublish(j, s)
      PROVE  MarketInv'
  <2>1. PICK t : t = [Skills!Idle EXCEPT !.pc = "unlink", !.share = s]
    OBVIOUS
  <2>2. t \in MarketJob /\ MarketJobRight(t) /\ t.text = 0
    BY <2>1, MarketIdle DEF Skills!Idle, MarketJob, MarketJobRight, Skills!Writing
  <2>3. /\ index' = [index EXCEPT ![s] = Skills!None] /\ Skills!Counted
        /\ UNCHANGED <<volume, installs, mixed>>
        /\ \/ body' = [body EXCEPT ![s] = 0] /\ UNCHANGED job
           \/ Skills!Become(j, t) /\ UNCHANGED body
    BY <1>5, <2>1 DEF Skills!Unpublish, Skills!tenants
  <2>4. index' \in Listing
    BY <2>3, MarketFacts DEF Listing
  <2>5. count' \in Skills!Text /\ count <= count' /\ t.text <= count' /\ count' \in Nat
    BY <2>2, <2>3, MarketCounts
  <2>6. body' \in [Name -> 0 .. MaxRequest] /\ \A m \in Name : body'[m] <= count
    BY <2>3, MarketIdle, MarketFacts
  <2>7. CASE Skills!Become(j, t)
    BY <2>2, <2>3, <2>4, <2>5, <2>6, <2>7, MarketFacts, MarketMoves
  <2>8. CASE UNCHANGED job
    <3>1. PICK r : r = job[j]
      OBVIOUS
    <3>2. Skills!Become(j, r)
      BY <2>8, <3>1 DEF Skills!Become, MarketInv, MarketTypes
    <3>3. r \in MarketJob /\ MarketJobRight(r) /\ r.text \in Nat /\ r.text <= count
      BY <1>1, <3>1, BoundsAssumption DEF MarketJob
    <3>4. r.text <= count'
      BY <2>5, <3>3, MarketFacts
    <3> QED
      BY <2>3, <2>4, <2>5, <2>6, <3>2, <3>3, <3>4, MarketFacts, MarketMoves
  <2> QED
    BY <2>3, <2>7, <2>8
<1> QED
  BY <1>2, <1>3, <1>4, <1>5

LEMMA MarketScripts ==
  ASSUME MarketInv, NEW j \in Job, NEW from \in {"install", "uninstall"},
         NEW to \in {"record", "erase"}, NEW v \in MarketSkill, v.text <= count,
         Skills!Scripted(j, from, to, v)
  PROVE  MarketInv'
<1>1. job[j] \in MarketJob /\ MarketJobRight(job[j]) /\ job[j].text <= count
  BY MarketFacts
<1>2. job[j].pc = from /\ job[j].addr \in Addr /\ job[j].name \in Name
  BY <1>1 DEF Skills!Scripted, Skills!At, MarketJobRight, Skills!Writing
<1>3. PICK a \in Addr : a = job[j].addr
  BY <1>2
<1>4. PICK n \in Name : n = job[j].name
  BY <1>2
<1>5. PICK t : t = [job[j] EXCEPT !.pc = to]
  OBVIOUS
<1>6. t \in MarketJob /\ MarketJobRight(t) /\ t.text = job[j].text
  BY <1>1, <1>2, <1>5 DEF MarketJob, MarketJobRight, Skills!Writing
<1>7. /\ volume' = volume \/ volume' = [volume EXCEPT ![a][n] = v]
      /\ \/ Skills!Become(j, t) /\ mixed' = mixed
         \/ Skills!Become(j, Skills!Idle) /\ mixed' = mixed \cup {<<a, n>>}
      /\ UNCHANGED <<index, body, installs, count>>
  BY <1>3, <1>4, <1>5 DEF Skills!Scripted, Skills!Goto, Skills!market
<1>8. /\ volume' \in [Addr -> [Name -> MarketSkill]]
      /\ \A b \in Addr, m \in Name : volume'[b][m] \in {v, volume[b][m]}
  <2>1. volume \in [Addr -> [Name -> MarketSkill]]
    BY MarketFacts
  <2>2. CASE volume' = volume
    BY <2>1, <2>2
  <2>3. CASE volume' = [volume EXCEPT ![a][n] = v]
    BY <2>1, <2>3
  <2> QED
    BY <1>7, <2>2, <2>3
<1>9. \A b \in Addr, m \in Name : volume'[b][m].text <= count
  BY <1>8, MarketFacts
<1>10. mixed' \subseteq Addr \X Name
  BY <1>7, MarketFacts
<1>11. CASE Skills!Become(j, t)
  BY <1>1, <1>6, <1>7, <1>8, <1>9, <1>10, <1>11, MarketFacts, MarketMoves
<1>12. CASE Skills!Become(j, Skills!Idle)
  BY <1>7, <1>8, <1>9, <1>10, <1>12, MarketIdle, MarketFacts, MarketMoves
<1> QED
  BY <1>7, <1>11, <1>12

LEMMA MarketRecords ==
  ASSUME MarketInv, NEW j \in Job,
         Skills!Installed(j) \/ Skills!Uninstalled(j) \/ Skills!Recorded(j)
  PROVE  MarketInv'
<1>1. job[j] \in MarketJob /\ MarketJobRight(job[j]) /\ job[j].text <= count
  BY MarketFacts
<1>2. CASE Skills!Installed(j)
  <2>1. PICK v : v = [text |-> job[j].text, by |-> "market"]
    OBVIOUS
  <2>2. v \in MarketSkill /\ v.text <= count
    BY <1>1, <2>1 DEF MarketJob, MarketSkill
  <2> QED
    BY <1>2, <2>1, <2>2, MarketScripts DEF Skills!Installed
<1>3. CASE Skills!Uninstalled(j)
  <2>1. PICK v : v = Skills!NoSkill
    OBVIOUS
  <2>2. v \in MarketSkill /\ v.text <= count
    BY <2>1, MarketIdle, MarketFacts DEF Skills!NoSkill
  <2> QED
    BY <1>3, <2>1, <2>2, MarketScripts DEF Skills!Uninstalled
<1>4. CASE Skills!Recorded(j)
  <2>1. /\ installs' = [installs EXCEPT ![job[j].addr][job[j].name] = job[j].hash]
        /\ job' = [job EXCEPT ![j] = Skills!Idle]
        /\ UNCHANGED <<index, body, volume, count, mixed>>
    BY <1>4 DEF Skills!Recorded, Skills!Become, Skills!market
  <2>2. job[j].hash \in 0 .. MaxRequest
    BY <1>1 DEF MarketJob
  <2>3. installs' \in [Addr -> [Name -> 0 .. MaxRequest]]
    BY <2>1, <2>2 DEF MarketInv, MarketTypes
  <2>4. job' \in [Job -> MarketJob] /\ \A i \in Job : job'[i] \in {Skills!Idle, job[i]}
    BY <2>1, MarketIdle DEF MarketInv, MarketTypes
  <2>5. \A i \in Job : MarketJobRight(job'[i]) /\ job'[i].text <= count
    BY <2>4, MarketIdle, MarketFacts
  <2> QED
    BY <2>1, <2>3, <2>4, <2>5 DEF MarketInv, MarketTypes, SoFar
<1> QED
  BY <1>2, <1>3, <1>4

(* The marks of what happened to skills and entries.                       *)
LEMMA MarketMarked ==
  ASSUME MarketMarks, Skills!Next
  PROVE  MarketMarks'
<1>1. ASSUME NEW a \in Addr, NEW n \in Name, Skills!Write(a, n) \/ Skills!Delete(a, n)
      PROVE  MarketMarks'
  BY <1>1 DEF Skills!Write, Skills!Delete, Skills!market, MarketMarks
<1>2. ASSUME NEW a \in Addr, Skills!Erase(a)
      PROVE  MarketMarks'
  BY <1>2 DEF Skills!Erase, Skills!market, MarketMarks
<1>3. ASSUME NEW j \in Job, NEW a \in Addr, NEW n \in Name,
             \/ \E s \in Name : Skills!Publish(j, a, n, s)
             \/ Skills!Install(j, a, n) \/ Skills!Import(j, a, n) \/ Skills!Uninstall(j, a, n)
      PROVE  MarketMarks'
  BY <1>3 DEF Skills!Publish, Skills!Install, Skills!Import, Skills!Uninstall, Skills!Begin,
     Skills!market, Skills!tenants, MarketMarks
<1>4. ASSUME NEW j \in Job,
             \/ \E s \in Name : Skills!Unpublish(j, s)
             \/ Skills!Extracted(j) \/ Skills!Unlinked(j) \/ Skills!Recorded(j)
      PROVE  MarketMarks'
  BY <1>4 DEF Skills!Unpublish, Skills!Extracted, Skills!Unlinked, Skills!Recorded,
     Skills!market, Skills!tenants, MarketMarks
<1>5. ASSUME NEW j \in Job, Skills!Published(j)
      PROVE  MarketMarks'
  BY <1>5 DEF Skills!Published, Skills!tenants, MarketMarks
<1>6. ASSUME NEW j \in Job, Skills!Installed(j) \/ Skills!Uninstalled(j)
      PROVE  MarketMarks'
  BY <1>6 DEF Skills!Installed, Skills!Uninstalled, Skills!Scripted, Skills!market, MarketMarks
<1> QED
  BY <1>1, <1>2, <1>3, <1>4, <1>5, <1>6 DEF Skills!Next

LEMMA MarketTypesOK == PartSpec => [](part = "skills" => Skills!TypeOK)
<1> DEFINE I == part = "skills" => MarketInv /\ MarketMarks
<1>1. PartInit => I
  BY MarketStart DEF PartInit, MarketMarks, Skills!Init
<1>2. I /\ [PartNext]_RequestVars => I'
  <2> SUFFICES ASSUME MarketInv, MarketMarks, Skills!Next \/ UNCHANGED skillVars
               PROVE  MarketInv' /\ MarketMarks'
    BY DEF PartNext, RequestVars
  <2>1. CASE UNCHANGED skillVars
    BY <2>1 DEF skillVars, MarketInv, MarketTypes, SoFar, MarketMarks
  <2> QED
    BY <2>1, MarketMarked, MarketTenants, MarketRequests, MarketShares, MarketRecords DEF Skills!Next
<1>3. I => (part = "skills" => Skills!TypeOK)
  <2> SUFFICES ASSUME MarketInv, MarketMarks PROVE Skills!TypeOK
    OBVIOUS
  <2>1. \A n \in Name : index[n] = Skills!None
               \/ index[n] \in [sharer : Addr, hash : Skills!Text, at : Skills!Text]
    BY MarketFacts DEF Listing
  <2>2. \A a \in Addr, n \in Name : volume[a][n].text \in 0 .. count
    <3>1. \A a \in Addr, n \in Name : volume[a][n].text \in 0 .. MaxRequest
      BY MarketFacts DEF MarketSkill
    <3> QED
      BY <3>1, MarketFacts
  <2> QED
    BY <2>1, <2>2 DEF MarketInv, MarketTypes, MarketMarks, Skills!TypeOK
<1> QED
  BY <1>1, <1>2, <1>3, PTL DEF PartSpec, RequestVars

(* The page, beyond PageInv: its flags, and one signature at a time.       *)
Signs(f) == flow[f].pc = "sign"
OneSigns == /\ signing \in BOOLEAN /\ (signing <=> \E f \in Flow : Signs(f))
            /\ \A f, g \in Flow : Signs(f) /\ Signs(g) => f = g
PageFlags == /\ loading \in BOOLEAN /\ connected \in BOOLEAN /\ waiting \in BOOLEAN
             /\ started \in 0 .. MaxFlows
Leaves(f) == \E r : Page!Become(f, r) /\ r.pc # "sign"

(* A flow that begins to sign, one that ends its signature, and one that   *)
(* goes on.                                                                *)
LEMMA SignsOnce ==
  ASSUME PageInv, OneSigns, NEW f \in Flow, NEW r, Page!Become(f, r),
         \/ r.pc = "sign" /\ ~signing /\ signing' = TRUE
         \/ r.pc # "sign" /\ Signs(f) /\ signing' = FALSE
         \/ (r.pc = "sign" <=> Signs(f)) /\ signing' = signing
  PROVE  OneSigns'
<1>1. flow'[f] = r /\ \A g \in Flow : g # f => flow'[g] = flow[g]
  BY DEF Page!Become, PageInv
<1>2. /\ Signs(f)' <=> r.pc = "sign"
      /\ \A g \in Flow : g # f => (Signs(g)' <=> Signs(g))
  BY <1>1 DEF Signs
<1>3. signing' \in BOOLEAN
  BY DEF OneSigns
<1>4. CASE r.pc = "sign" /\ ~signing /\ signing' = TRUE
  BY <1>2, <1>3, <1>4 DEF OneSigns
<1>5. CASE r.pc # "sign" /\ Signs(f) /\ signing' = FALSE
  BY <1>2, <1>3, <1>5 DEF OneSigns
<1>6. CASE (r.pc = "sign" <=> Signs(f)) /\ signing' = signing
  BY <1>2, <1>3, <1>6 DEF OneSigns
<1> QED
  BY <1>4, <1>5, <1>6

LEMMA Leaving ==
  ASSUME PageInv, OneSigns, NEW f \in Flow, Leaves(f),
         \/ Signs(f) /\ signing' = FALSE
         \/ ~Signs(f) /\ signing' = signing
  PROVE  OneSigns'
<1>1. PICK r : Page!Become(f, r) /\ r.pc # "sign"
  BY DEF Leaves
<1> QED
  BY <1>1, SignsOnce

(* Whatever a flow goes on to, short of Sign, is no signature.             *)
LEMMA Leavers ==
  ASSUME PageInv, NEW f \in Flow,
         \/ Page!End(f)
         \/ \E l \in Hiding \cup {"again"} : l # "sign" /\ Page!Goto(f, l)
         \/ \E a : Page!HandleAddress(f, a) \/ Page!FetchInfo(f, a, FALSE)
         \/ Page!Queue(f) \/ Page!Limit(f) \/ Page!Present(f)
  PROVE  Leaves(f)
<1>1. flow[f] \in Page!Pending
  BY DEF PageInv
<1>2. CASE Page!End(f)
  BY <1>2, IdleFlow DEF Page!End, Leaves
<1>3. ASSUME NEW l \in Hiding \cup {"again"}, l # "sign", Page!Goto(f, l)
      PROVE  Leaves(f)
  <2>1. PICK r : r = [flow[f] EXCEPT !.pc = l]
    OBVIOUS
  <2>2. r.pc # "sign"
    BY <1>1, <1>3, <2>1 DEF Page!Pending
  <2> QED
    BY <1>3, <2>1, <2>2 DEF Page!Goto, Leaves
<1>4. ASSUME NEW a, Page!HandleAddress(f, a)
      PROVE  Leaves(f)
  <2>1. PICK r : r = [flow[f] EXCEPT !.pc = "status", !.addr = a]
    OBVIOUS
  <2>2. r.pc # "sign"
    BY <1>1, <2>1 DEF Page!Pending
  <2> QED
    BY <1>4, <2>1, <2>2 DEF Page!HandleAddress, Leaves
<1>5. ASSUME NEW a, Page!FetchInfo(f, a, FALSE)
      PROVE  Leaves(f)
  <2>1. PICK r : r = [flow[f] EXCEPT !.pc = "info", !.addr = a, !.shell = FALSE, !.opened = ~loading]
    OBVIOUS
  <2>2. r.pc # "sign"
    BY <1>1, <2>1 DEF Page!Pending
  <2> QED
    BY <1>5, <2>1, <2>2 DEF Page!FetchInfo, Leaves
<1>6. CASE Page!Queue(f) \/ Page!Limit(f)
  <2>1. PICK r : r = [flow[f] EXCEPT !.pc = "info", !.shell = TRUE, !.opened = TRUE]
    OBVIOUS
  <2>2. r.pc # "sign"
    BY <1>1, <2>1 DEF Page!Pending
  <2> QED
    BY <1>6, <2>1, <2>2 DEF Page!Queue, Page!Limit, Leaves
<1>7. CASE Page!Present(f)
  <2>1. PICK r : r = [flow[f] EXCEPT !.pc = "info", !.shell = FALSE, !.opened = FALSE]
    OBVIOUS
  <2>2. r.pc # "sign"
    BY <1>1, <2>1 DEF Page!Pending
  <2> QED
    BY <1>7, <2>1, <2>2 DEF Page!Present, Leaves
<1> QED
  BY <1>2, <1>3, <1>4, <1>5, <1>6, <1>7

(* A flow that starts is a signature exactly when its label says so.       *)
LEMMA Starters ==
  ASSUME PageInv, OneSigns, NEW f \in Flow, NEW k, NEW l, NEW a, Page!Start(f, k, l, a),
         \/ l # "sign" /\ signing' = signing
         \/ l = "sign" /\ ~signing /\ signing' = TRUE
  PROVE  OneSigns'
<1>1. PICK r : r = [Page!Idle EXCEPT !.pc = l, !.kind = k, !.addr = a]
  OBVIOUS
<1>2. r.pc = l /\ Page!Become(f, r) /\ ~Signs(f)
  BY <1>1 DEF Page!Start, Page!At, Signs, Page!Idle
<1> QED
  BY <1>2, SignsOnce

LEMMA EventsSign ==
  ASSUME PageInv, OneSigns, Page!Events
  PROVE  OneSigns'
<1>1. ASSUME NEW w \in Account \cup {NoAddr}, Page!Announce(w)
      PROVE  OneSigns'
  <2>1. signing' = signing
    BY <1>1 DEF Page!Announce
  <2>2. CASE flow' = flow
    BY <2>1, <2>2 DEF OneSigns, Signs
  <2>3. ASSUME NEW f \in Flow, Page!Start(f, "switch", "revoke", w)
        PROVE  OneSigns'
    BY <2>1, <2>3, Starters
  <2> QED
    BY <1>1, <2>2, <2>3 DEF Page!Announce
<1>2. ASSUME NEW f \in Flow, Page!ConnectWallet(f)
      PROVE  OneSigns'
  BY <1>2, Starters DEF Page!ConnectWallet
<1>3. ASSUME NEW f \in Flow, Page!Enter(f)
      PROVE  OneSigns'
  BY <1>3, Starters DEF Page!Enter
<1>4. ASSUME NEW f \in Flow, Page!RestartContainer(f)
      PROVE  OneSigns'
  BY <1>4, Starters DEF Page!RestartContainer
<1>5. ASSUME NEW f \in Flow, Page!Control(f)
      PROVE  OneSigns'
  BY <1>5, Starters DEF Page!Control
<1>6. ASSUME NEW f \in Flow, Page!Tick(f)
      PROVE  OneSigns'
  BY <1>6, Starters DEF Page!Tick
<1>7. CASE Page!CancelWaiting
  BY <1>7 DEF Page!CancelWaiting, OneSigns, Signs
<1> QED
  BY <1>1, <1>2, <1>3, <1>4, <1>5, <1>6, <1>7 DEF Page!Events

(* The end of a fetch ends the flow or goes on to the skills list.         *)
LEMMA ResumeLeaves ==
  ASSUME PageInv, NEW f \in Flow, NEW s, NEW c, NEW v, Page!Resume(f, s, c, v)
  PROVE  Leaves(f) /\ signing' = signing
<1>1. Page!End(f) \/ Page!Goto(f, "mine")
  BY DEF Page!Resume
<1>2. "mine" \in Hiding \cup {"again"}
  BY DEF Hiding
<1> QED
  BY <1>1, <1>2, Leavers DEF Page!Resume

(* The steps of a flow that signs.                                         *)
LEMMA SignersSign ==
  ASSUME PageInv, OneSigns, NEW f \in Flow,
         Page!Stage(f) \/ Page!Signed(f) \/ Page!SignFailed(f) \/ Page!Entered(f)
  PROVE  OneSigns'
<1>1. Signs(f) /\ "settle" \in Hiding \cup {"again"}
  BY DEF Page!Stage, Page!Signed, Page!SignFailed, Page!Entered, Page!At, Signs, Hiding
<1>2. CASE Page!Stage(f)
  BY <1>2 DEF Page!Stage, OneSigns, Signs
<1>3. CASE Page!Signed(f)
  <2>1. Leaves(f)
    BY <1>1, <1>3, Leavers DEF Page!Signed
  <2> QED
    BY <1>1, <1>3, <2>1, Leaving DEF Page!Signed
<1>4. CASE Page!SignFailed(f)
  <2>1. CASE signing' = FALSE /\ Page!Failed(f)
    BY <1>1, <2>1, Leavers, Leaving DEF Page!Failed, Page!Over
  <2>2. CASE Page!Become(f, [flow[f] EXCEPT !.retry = TRUE]) /\ signing' = signing
    <3>1. PICK r : r = [flow[f] EXCEPT !.retry = TRUE]
      OBVIOUS
    <3>2. r.pc = "sign"
      BY <1>1, <3>1 DEF PageInv, Page!Pending, Signs
    <3> QED
      BY <1>1, <2>2, <3>1, <3>2, SignsOnce
  <2> QED
    BY <1>4, <2>1, <2>2 DEF Page!SignFailed
<1>5. CASE Page!Entered(f)
  <2>1. Leaves(f)
    BY <1>1, <1>5, Leavers DEF Page!Entered
  <2> QED
    BY <1>1, <1>5, <2>1, Leaving DEF Page!Entered
<1> QED
  BY <1>2, <1>3, <1>4, <1>5

(* The steps of a flow that does not.                                      *)
LEMMA OthersSign ==
  ASSUME PageInv, OneSigns, NEW f \in Flow,
         \/ Page!Mounted(f) \/ Page!Compared(f) \/ Page!Revoked(f) \/ Page!Accounts(f)
         \/ Page!StatusAnswer(f) \/ Page!Confirmed(f) \/ Page!Settled(f) \/ Page!Controlled(f)
         \/ Page!Ticked(f) \/ Page!InfoAnswer(f) \/ Page!InfoAgain(f) \/ Page!MineLoaded(f)
  PROVE  OneSigns'
<1>1. /\ ~Signs(f) /\ flow[f] \in Page!Pending
      /\ "settle" \in Hiding \cup {"again"} /\ "again" \in Hiding \cup {"again"}
  BY DEF Page!Mounted, Page!Compared, Page!Revoked, Page!Accounts, Page!StatusAnswer, Page!Confirmed,
         Page!Settled, Page!Controlled, Page!Ticked, Page!InfoAnswer, Page!InfoAgain,
         Page!MineLoaded, Page!At, Signs, PageInv, Hiding
<1>2. CASE Page!Mounted(f)
  <2>1. CASE Page!Become(f, [flow[f] EXCEPT !.pc = "compare", !.addr = wallet])
    <3>1. PICK r : r = [flow[f] EXCEPT !.pc = "compare", !.addr = wallet]
      OBVIOUS
    <3>2. r.pc # "sign"
      BY <1>1, <3>1 DEF Page!Pending
    <3> QED
      BY <1>1, <1>2, <2>1, <3>1, <3>2, SignsOnce DEF Page!Mounted
  <2>2. CASE Page!HandleAddress(f, saved) \/ Page!End(f)
    BY <1>1, <1>2, <2>2, Leavers, Leaving DEF Page!Mounted
  <2> QED
    BY <1>2, <2>1, <2>2 DEF Page!Mounted
<1>3. CASE Page!Compared(f) \/ Page!Revoked(f)
  BY <1>1, <1>3, Leavers, Leaving DEF Page!Compared, Page!Revoked
<1>4. CASE Page!Accounts(f)
  BY <1>1, <1>4, Leavers, Leaving DEF Page!Accounts
<1>5. CASE Page!StatusAnswer(f)
  <2>1. CASE signing' = signing /\ (Page!Queue(f) \/ Page!Present(f) \/ Page!End(f))
    BY <1>1, <2>1, Leavers, Leaving
  <2>2. ASSUME NEW b \in BOOLEAN, Page!Sign(f, b)
        PROVE  OneSigns'
    <3>1. PICK r : r = [flow[f] EXCEPT !.pc = "sign", !.retry = b]
      OBVIOUS
    <3>2. r.pc = "sign"
      BY <1>1, <3>1 DEF Page!Pending
    <3> QED
      BY <2>2, <3>1, <3>2, SignsOnce DEF Page!Sign
  <2> QED
    BY <1>5, <2>1, <2>2 DEF Page!StatusAnswer, Page!Present, Page!Busy, Page!Failed, Page!Over
<1>6. CASE Page!Confirmed(f)
  <2>1. CASE Page!Become(f, [flow[f] EXCEPT !.pc = "post", !.addr = shown])
    <3>1. PICK r : r = [flow[f] EXCEPT !.pc = "post", !.addr = shown]
      OBVIOUS
    <3>2. r.pc # "sign"
      BY <1>1, <3>1 DEF Page!Pending
    <3> QED
      BY <1>1, <1>6, <2>1, <3>1, <3>2, SignsOnce DEF Page!Confirmed
  <2>2. CASE Page!End(f)
    BY <1>1, <1>6, <2>2, Leavers, Leaving DEF Page!Confirmed
  <2> QED
    BY <1>6, <2>1, <2>2 DEF Page!Confirmed
<1>7. CASE Page!Settled(f)
  BY <1>1, <1>7, Leavers, Leaving DEF Page!Settled, Page!Present
<1>8. CASE Page!Controlled(f)
  BY <1>1, <1>8, Leavers, Leaving DEF Page!Controlled
<1>9. CASE Page!Ticked(f)
  BY <1>1, <1>9, Leavers, Leaving DEF Page!Ticked
<1>10. CASE Page!InfoAnswer(f)
  <2>1. CASE Page!Goto(f, "again") /\ signing' = signing
    BY <1>1, <2>1, Leavers, Leaving
  <2>2. ASSUME NEW s, NEW c, NEW v, Page!Resume(f, s, c, v)
        PROVE  OneSigns'
    BY <1>1, <2>2, ResumeLeaves, Leaving
  <2> QED
    BY <1>10, <2>1, <2>2 DEF Page!InfoAnswer
<1>11. CASE Page!InfoAgain(f)
  BY <1>1, <1>11, ResumeLeaves, Leaving DEF Page!InfoAgain
<1>12. CASE Page!MineLoaded(f)
  BY <1>1, <1>12, Leavers, Leaving DEF Page!MineLoaded
<1> QED
  BY <1>2, <1>3, <1>4, <1>5, <1>6, <1>7, <1>8, <1>9, <1>10, <1>11, <1>12

(* The flags of the page.                                                  *)
LEMMA ResumeFlags ==
  ASSUME PageInv, PageFlags, NEW f \in Flow, NEW s, NEW c \in BOOLEAN, NEW v,
         Page!Resume(f, s, c, v)
  PROVE  PageFlags'
<1>1. flow[f].opened \in BOOLEAN /\ flow[f].shell \in BOOLEAN
  BY DEF PageInv, Page!Pending
<1>2. \/ loading' = FALSE \/ loading' = loading
      \/ loading' = (flow[f].shell /\ loading)
      \/ loading' = (flow[f].shell /\ FALSE)
  BY <1>1 DEF Page!Resume
<1>3. loading' \in BOOLEAN
  BY <1>1, <1>2, Zenon DEF PageFlags
<1>4. PICK d \in BOOLEAN : d = (c \/ s # NoAddr)
  BY Zenon
<1>5. connected' = TRUE \/ connected' = c \/ connected' = d
  <2> DEFINE k == flow[f].kind
  <2>1. connected' = CASE flow[f].shell \/ k = "poll" -> TRUE
                       [] k \in {"start", "control"} -> c
                       [] OTHER -> d
    BY <1>4, Zenon DEF Page!Resume
  <2> HIDE DEF k
  <2> QED
    BY <1>1, <2>1
<1>6. connected' \in BOOLEAN
  BY <1>5, Zenon
<1> QED
  BY <1>3, <1>6 DEF PageFlags, Page!Resume

LEMMA HandleFlags ==
  ASSUME PageFlags, NEW f \in Flow, NEW a, Page!HandleAddress(f, a), started' = started
  PROVE  PageFlags'
<1>1. \E b \in BOOLEAN : connected' = (connected /\ b)
  BY DEF Page!HandleAddress
<1>2. connected' \in BOOLEAN
  BY <1>1, Zenon DEF PageFlags
<1> QED
  BY <1>2 DEF PageFlags, Page!HandleAddress

LEMMA StartFlags ==
  ASSUME PageFlags, NEW f \in Flow, NEW k, NEW l, NEW a, Page!Start(f, k, l, a)
  PROVE  started' \in 0 .. MaxFlows
BY BoundsAssumption DEF PageFlags, Page!Start

LEMMA EventsFlags ==
  ASSUME PageFlags, Page!Events
  PROVE  PageFlags'
<1>1. ASSUME NEW w \in Account \cup {NoAddr}, Page!Announce(w)
      PROVE  PageFlags'
  <2>1. started' \in 0 .. MaxFlows
    BY <1>1, StartFlags DEF Page!Announce, PageFlags
  <2>2. connected' = FALSE \/ connected' = connected
    BY <1>1 DEF Page!Announce, Page!refs
  <2>3. connected' \in BOOLEAN
    BY <2>2, Zenon DEF PageFlags
  <2> QED
    BY <1>1, <2>1, <2>3 DEF Page!Announce, Page!refs, PageFlags
<1>2. ASSUME NEW f \in Flow, Page!ConnectWallet(f) \/ Page!Enter(f) \/ Page!RestartContainer(f)
                             \/ Page!Control(f) \/ Page!Tick(f)
      PROVE  PageFlags'
  <2>1. started' \in 0 .. MaxFlows
    BY <1>2, StartFlags DEF Page!ConnectWallet, Page!Enter, Page!RestartContainer, Page!Control,
                            Page!Tick
  <2>2. loading' = TRUE \/ loading' = loading
    BY <1>2 DEF Page!ConnectWallet, Page!Enter, Page!RestartContainer, Page!Control, Page!Tick
  <2>3. loading' \in BOOLEAN
    BY <2>2, Zenon DEF PageFlags
  <2> QED
    BY <1>2, <2>1, <2>3 DEF Page!ConnectWallet, Page!Enter, Page!RestartContainer, Page!Control,
                            Page!Tick, Page!refs, PageFlags
<1>3. CASE Page!CancelWaiting
  BY <1>3 DEF Page!CancelWaiting, PageFlags
<1> QED
  BY <1>1, <1>2, <1>3 DEF Page!Events

LEMMA AnswersFlags ==
  ASSUME PageInv, PageFlags, NEW f \in Flow,
         \/ Page!Mounted(f) \/ Page!Compared(f) \/ Page!Revoked(f) \/ Page!Accounts(f)
         \/ Page!StatusAnswer(f) \/ Page!Stage(f) \/ Page!Confirmed(f) \/ Page!Signed(f)
         \/ Page!SignFailed(f) \/ Page!Settled(f) \/ Page!Entered(f) \/ Page!Controlled(f)
         \/ Page!Ticked(f) \/ Page!InfoAnswer(f) \/ Page!InfoAgain(f) \/ Page!MineLoaded(f)
  PROVE  PageFlags'
<1>1. ASSUME NEW a, Page!HandleAddress(f, a), started' = started
      PROVE  PageFlags'
  BY <1>1, HandleFlags
<1>2. ASSUME NEW s, NEW v, Page!Resume(f, s, connected, v) \/ Page!Resume(f, s, FALSE, v)
      PROVE  PageFlags'
  BY <1>2, ResumeFlags DEF PageFlags
<1>3. ASSUME started' = started, connected' = connected,
             waiting' \in {TRUE, FALSE, waiting}, loading' \in {TRUE, FALSE, loading}
      PROVE  PageFlags'
  <2>1. waiting' \in BOOLEAN /\ loading' \in BOOLEAN
    BY <1>3, Zenon DEF PageFlags
  <2> QED
    BY <1>3, <2>1 DEF PageFlags
<1>4. CASE Page!Mounted(f) \/ Page!Compared(f) \/ Page!Revoked(f) \/ Page!Accounts(f)
  BY <1>1, <1>3, <1>4 DEF Page!Mounted, Page!Compared, Page!Revoked, Page!Accounts, Page!refs
<1>5. CASE Page!StatusAnswer(f)
  BY <1>3, <1>5 DEF Page!StatusAnswer, Page!Queue, Page!Present, Page!Sign, Page!Busy, Page!Failed,
                    Page!Over, Page!refs
<1>6. CASE Page!Stage(f) \/ Page!Confirmed(f) \/ Page!MineLoaded(f)
  BY <1>3, <1>6 DEF Page!Stage, Page!Confirmed, Page!MineLoaded, Page!refs
<1>7. CASE Page!Signed(f) \/ Page!SignFailed(f) \/ Page!Settled(f) \/ Page!Entered(f)
  BY <1>3, <1>7 DEF Page!Signed, Page!SignFailed, Page!Settled, Page!Entered, Page!Queue, Page!Limit,
                    Page!Present, Page!Failed, Page!Over, Page!refs
<1>8. CASE Page!Controlled(f) \/ Page!Ticked(f)
  BY <1>3, <1>8 DEF Page!Controlled, Page!Ticked, Page!FetchInfo, Page!refs
<1>9. CASE Page!InfoAnswer(f) \/ Page!InfoAgain(f)
  BY <1>2, <1>3, <1>9 DEF Page!InfoAnswer, Page!InfoAgain, Page!refs
<1> QED
  BY <1>4, <1>5, <1>6, <1>7, <1>8, <1>9

LEMMA PageBegins == Page!Init => OneSigns /\ PageFlags
<1> SUFFICES ASSUME Page!Init
             PROVE  OneSigns /\ PageFlags
  OBVIOUS
<1>1. PICK r : r = [Page!Idle EXCEPT !.pc = "mount", !.kind = "mount"]
  OBVIOUS
<1>2. r.pc # "sign" /\ Page!Idle.pc # "sign"
  BY <1>1 DEF Page!Idle
<1>3. PICK f \in Flow : flow = [g \in Flow |-> IF g = f THEN r ELSE Page!Idle]
  BY <1>1 DEF Page!Init
<1>4. \A g \in Flow : flow[g] = r \/ flow[g] = Page!Idle
  BY <1>3
<1>5. ASSUME NEW g \in Flow PROVE ~Signs(g)
  <2>1. CASE flow[g] = r
    BY <1>2, <2>1 DEF Signs
  <2>2. CASE flow[g] = Page!Idle
    BY <1>2, <2>2 DEF Signs
  <2> QED
    BY <1>4, <2>1, <2>2
<1>6. signing = FALSE /\ loading = FALSE /\ connected = FALSE /\ waiting = FALSE /\ started = 1
  BY DEF Page!Init
<1>7. started \in 0 .. MaxFlows
  BY <1>6, BoundsAssumption
<1>8. OneSigns
  BY <1>5, <1>6, Zenon DEF OneSigns
<1> QED
  BY <1>6, <1>7, <1>8, Zenon DEF PageFlags

LEMMA PageTypesOK == PartSpec => [](part = "page" => Page!TypeOK)
<1> DEFINE I == part = "page" => PageInv /\ OneSigns /\ PageFlags
<1>1. PartInit => I
  BY PageStart, PageBegins DEF PartInit
<1>2. I /\ [PartNext]_RequestVars => I'
  <2> SUFFICES ASSUME PageInv, OneSigns, PageFlags, Page!Next \/ UNCHANGED pageVars
               PROVE  PageInv' /\ OneSigns' /\ PageFlags'
    BY DEF PartNext, RequestVars
  <2>1. CASE UNCHANGED pageVars
    BY <2>1 DEF pageVars, PageInv, Covers, FlowRight, OneSigns, Signs, PageFlags
  <2>2. CASE Page!Events
    BY <2>2, EventsKeep, EventsSign, EventsFlags
  <2>3. CASE Page!Answers
    BY <2>3, AnswersKeep, SignersSign, OthersSign, AnswersFlags DEF Page!Answers
  <2> QED
    BY <2>1, <2>2, <2>3 DEF Page!Next
<1>3. I => (part = "page" => Page!TypeOK)
  <2> SUFFICES ASSUME PageInv, OneSigns, PageFlags PROVE Page!TypeOK
    OBVIOUS
  <2>1. Cardinality({f \in Flow : Page!At(f, "sign")}) = IF signing THEN 1 ELSE 0
    <3>1. CASE signing
      <4>1. PICK f \in Flow : Signs(f)
        BY <3>1 DEF OneSigns
      <4>2. {g \in Flow : Page!At(g, "sign")} = {f}
        BY <4>1 DEF OneSigns, Signs, Page!At
      <4> QED
        BY <3>1, <4>2, FS_Singleton
    <3>2. CASE ~signing
      <4>1. {g \in Flow : Page!At(g, "sign")} = {}
        BY <3>2 DEF OneSigns, Signs, Page!At
      <4> QED
        BY <3>2, <4>1, FS_EmptySet
    <3> QED
      BY <3>1, <3>2
  <2>2. \A S : Page!Cardinality(S) = Cardinality(S)
    BY DEF Page!Cardinality, Cardinality
  <2>3. {loading, connected, waiting, signing} \subseteq BOOLEAN
    BY Zenon DEF PageFlags, OneSigns
  <2> QED
    BY <2>1, <2>2, <2>3 DEF Page!TypeOK, PageInv, PageFlags
<1> QED
  BY <1>1, <1>2, <1>3, PTL DEF PartSpec, RequestVars

-----------------------------------------------------------------------------
(* The types of all the parts.                                             *)
PartNames == {"gateway", "skills", "config", "lines", "images", "versions", "page", "panel"}

LEMMA PartsLast == PartSpec => [](part \in PartNames)
<1>1. PartInit => part \in PartNames
  BY DEF PartInit, PartNames
<1>2. part \in PartNames /\ [PartNext]_RequestVars => (part \in PartNames)'
  BY DEF PartNext, RequestVars
<1> QED
  BY <1>1, <1>2, PTL DEF PartSpec, RequestVars

(* Every part has its types, for any number of hosts, tenants, jobs,       *)
(* providers, images, administrators and handlers of a page; at most one   *)
(* flow of the tenant's page signs, and it is why the page says so         *)
(* (UserCenter.vue:1366).                                                  *)
THEOREM TypesHold == PartSpec => []TypesOK
<1> DEFINE T == /\ part = "gateway" => TypeOK
                /\ part = "skills" => Skills!TypeOK
                /\ part = "config" => Config!TypeOK
                /\ part = "lines" => Lines!TypeOK
                /\ part \in {"images", "versions"} => Builds!TypeOK
                /\ part = "page" => Page!TypeOK
                /\ part = "panel" => Panel!TypeOK
<1>1. part \in PartNames /\ T => TypesOK
  <2> SUFFICES ASSUME part \in PartNames, T PROVE TypesOK
    OBVIOUS
  <2>1. CASE part = "gateway"
    BY <2>1, Zenon DEF TypesOK
  <2>2. CASE part = "skills"
    BY <2>2, Zenon DEF TypesOK
  <2>3. CASE part = "config"
    BY <2>3, Zenon DEF TypesOK
  <2>4. CASE part = "lines"
    BY <2>4, Zenon DEF TypesOK
  <2>5. CASE part = "images"
    BY <2>5, Zenon DEF TypesOK
  <2>6. CASE part = "versions"
    BY <2>6, Zenon DEF TypesOK
  <2>7. CASE part = "page"
    BY <2>7, Zenon DEF TypesOK
  <2>8. CASE part = "panel"
    BY <2>8, Zenon DEF TypesOK
  <2> QED
    BY <2>1, <2>2, <2>3, <2>4, <2>5, <2>6, <2>7, <2>8 DEF PartNames
<1> QED
  BY <1>1, PartsLast, GatewayTypesOK, MarketTypesOK, ConfigTypesOK, LineTypesOK, ImageTypesOK,
     PageTypesOK, PanelTypesOK, PTL
=============================================================================
