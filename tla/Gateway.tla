------------------------------- MODULE Gateway -------------------------------
(***************************************************************************)
(* The tenant gateway and its login to a tenant's DSH: requests on the     *)
(* public port of one tenant, the cookie it gets for them from the         *)
(* container with the launch token of the container's log, the caches of   *)
(* cookies and launch tokens, and a container that is restarted or rebuilt *)
(* meanwhile.                                                              *)
(*                                                                         *)
(* The k-th start of the container prints token k; cookies are numbered by *)
(* the signing key in the tenant's volume that made them.  No cookie, no   *)
(* token and no start time are 0.  An activation is named by the request   *)
(* that began it; requests for the same host meanwhile wait for it.  A     *)
(* request that has come in before a rebuild reaches the new container.    *)
(***************************************************************************)
EXTENDS Naturals, FiniteSets

CONSTANTS Req,       \* requests that may be under way at once
          Host,      \* authorities a browser uses for the public port
          MaxGen,    \* bound on the starts of the container
          NoReq

ASSUME NoReqAssumption == NoReq \notin Req
ASSUME GenAssumption == MaxGen \in Nat \ {0}

VARIABLES box,      \* the container: start, key, where its token line is, and its route
          launch,   \* launchTokenCache: start and token
          throttle, \* recoveryThrottle: a recovery was less than 5 minutes ago
          jar,      \* AuthCookieCache: per host a cookie, or the activation for it
          act,      \* activations under way
          req,      \* requests
          recovered \* recovery restarts in this throttle window

vars == <<box, launch, throttle, jar, act, req, recovered>>

Kind == {"page", "rpc"}
Need == {"yes", "no", "unknown"}

NoAct == [pc |-> "idle", token |-> 0]
NoEntry == [cookie |-> 0, by |-> NoReq]
NoJar == [h \in Host |-> NoEntry]
IdleReq == [pc |-> "idle", kind |-> "page", host |-> NoReq, on |-> NoReq,
            cookie |-> 0, retried |-> FALSE, seen |-> 0]

Init == /\ box = [gen |-> 1, key |-> 1, line |-> "tail", need |-> "yes", open |-> TRUE]
        /\ launch = [started |-> 0, token |-> 0]
        /\ throttle = FALSE
        /\ jar = NoJar
        /\ act = [p \in Req |-> NoAct]
        /\ req = [p \in Req |-> IdleReq]
        /\ recovered = 0

-----------------------------------------------------------------------------
(* Requests.                                                               *)

(* AuthCookieCache.get: the cookie, the activation under way, or a new one.*)
Ask(p, t, j) ==
  LET e == j[t.host] IN
  \/ /\ e.cookie # 0
     /\ req' = [req EXCEPT ![p] = [t EXCEPT !.pc = "forward", !.cookie = e.cookie]]
     /\ jar' = j /\ UNCHANGED act
  \/ /\ e.cookie = 0 /\ e.by # NoReq
     /\ req' = [req EXCEPT ![p] = [t EXCEPT !.pc = "wait", !.on = e.by]]
     /\ jar' = j /\ UNCHANGED act
  \/ /\ e = NoEntry
     /\ act' = [act EXCEPT ![p] = [pc |-> "tail", token |-> 0]]
     /\ req' = [req EXCEPT ![p] = [t EXCEPT !.pc = "wait", !.on = p]]
     /\ jar' = [j EXCEPT ![t.host] = [cookie |-> 0, by |-> p]]

(* A browser's request past the gate: an image without the login needs no  *)
(* cookie, an unknown one gets a 503.                                      *)
Arrive(p, h) ==
  LET t == [IdleReq EXCEPT !.host = h] IN
  /\ req[p].pc = "idle" /\ act[p].pc = "idle" /\ box.open
  /\ \/ box.need = "yes" /\ Ask(p, t, jar)
     \/ /\ box.need = "no"
        /\ req' = [req EXCEPT ![p] = [t EXCEPT !.pc = "forward"]]
        /\ UNCHANGED <<jar, act>>
     \/ box.need = "unknown" /\ UNCHANGED <<req, jar, act>>
  /\ UNCHANGED <<box, launch, throttle, recovered>>

(* rpcAuthFor: a check of the cleanup, one at a time, asks by the record,  *)
(* whether or not the route is open, and takes an unknown image for one    *)
(* without login.                                                          *)
Check(p, h) ==
  LET t == [IdleReq EXCEPT !.kind = "rpc", !.host = h] IN
  /\ req[p].pc = "idle" /\ act[p].pc = "idle"
  /\ \A q \in Req : req[q].kind = "page"
  /\ \/ box.need = "yes" /\ Ask(p, t, jar)
     \/ /\ box.need # "yes"
        /\ req' = [req EXCEPT ![p] = [t EXCEPT !.pc = "forward"]]
        /\ UNCHANGED <<jar, act>>
  /\ UNCHANGED <<box, launch, throttle, recovered>>

Accepts(t) == box.need = "no" \/ t.cookie = box.key

(* forward and forwardUpgrade, and the container's answer.                 *)
Forwarded(p) ==
  /\ req[p].pc = "forward" /\ Accepts(req[p])
  /\ req' = [req EXCEPT ![p] = IdleReq]
  /\ UNCHANGED <<box, launch, throttle, jar, act, recovered>>

Repeatable(t) == t.kind = "page" /\ ~t.retried /\ t.cookie # 0

(* A GET that is not repeated; a HEAD is taken for one.                    *)
Refused(p) ==
  /\ req[p].pc = "forward" /\ ~Accepts(req[p])
  /\ req[p].kind = "page" /\ ~Repeatable(req[p])
  /\ req' = [req EXCEPT ![p] = [@ EXCEPT !.pc = "401", !.host = NoReq, !.cookie = 0]]
  /\ UNCHANGED <<box, launch, throttle, jar, act, recovered>>

(* A request with a body, an upgrade or a check: its refusal is passed on. *)
PassedOn(p) ==
  /\ req[p].pc = "forward" /\ ~Accepts(req[p]) /\ ~req[p].retried
  /\ req' = [req EXCEPT ![p] = IdleReq]
  /\ UNCHANGED <<box, launch, throttle, jar, act, recovered>>

(* Mutant: the cookie that was refused stays in the cache.                 *)
RetryKept(p) ==
  /\ req[p].pc = "forward" /\ ~Accepts(req[p]) /\ Repeatable(req[p])
  /\ Ask(p, [req[p] EXCEPT !.retried = TRUE, !.cookie = 0, !.seen = box.key], jar)
  /\ UNCHANGED <<box, launch, throttle, recovered>>

(* _retryWithFreshAuthCookie: once, for a request without a body.          *)
Retry(p) ==
  /\ req[p].pc = "forward" /\ ~Accepts(req[p]) /\ Repeatable(req[p])
  /\ Ask(p, [req[p] EXCEPT !.retried = TRUE, !.cookie = 0, !.seen = box.key], NoJar)
  /\ UNCHANGED <<box, launch, throttle, recovered>>

(* The refusal has gone to the browser.                                    *)
Done(p) ==
  /\ req[p].pc = "401"
  /\ req' = [req EXCEPT ![p] = IdleReq]
  /\ UNCHANGED <<box, launch, throttle, jar, act, recovered>>

-----------------------------------------------------------------------------
(* Activation: readToken in three stages, then the container's cookie.     *)

Seen == IF box.line = "tail" THEN box.gen ELSE 0
Goto(p, l, k) == act' = [act EXCEPT ![p] = [pc |-> l, token |-> k]]

(* Mutant: only the request that began the activation gets the cookie.     *)
FinishAlone(p, c) ==
  /\ act' = [act EXCEPT ![p] = NoAct]
  /\ jar' = [jar EXCEPT ![req[p].host] = [cookie |-> c, by |-> NoReq]]
  /\ req' = [req EXCEPT ![p] = IF c = 0 /\ @.kind # "rpc" THEN IdleReq
                               ELSE [@ EXCEPT !.on = NoReq, !.cookie = c, !.pc = "forward"]]

(* The activation of p ends with cookie c: its entry is set or deleted,    *)
(* whatever it is by now, and all who wait get the cookie or a 503; a      *)
(* check goes on without one.                                              *)
Finish(p, c) ==
  /\ act' = [act EXCEPT ![p] = NoAct]
  /\ jar' = [jar EXCEPT ![req[p].host] = [cookie |-> c, by |-> NoReq]]
  /\ req' = [q \in Req |->
               IF req[q].pc # "wait" \/ req[q].on # p THEN req[q]
               ELSE IF c = 0 /\ req[q].kind # "rpc" THEN IdleReq
               ELSE [req[q] EXCEPT !.on = NoReq, !.cookie = c, !.pc = "forward"]]

(* The last token in the tail of the log, and the same after a recovery.   *)
TailRead(p) ==
  /\ act[p].pc = "tail"
  /\ Goto(p, "started", Seen)
  /\ UNCHANGED <<box, launch, throttle, jar, req, recovered>>

(* The start time is asked after the token: both go into the cache.        *)
StartRead(p) ==
  /\ act[p].pc = "started" /\ act[p].token # 0
  /\ launch' = [started |-> box.gen, token |-> act[p].token]
  /\ Goto(p, "activate", act[p].token)
  /\ UNCHANGED <<box, throttle, jar, req, recovered>>

(* No token in the tail: that of the cache, if the container has not been  *)
(* started since.                                                          *)
Remembered(p) ==
  /\ act[p].pc = "started" /\ act[p].token = 0
  /\ launch.started = box.gen
  /\ Goto(p, "activate", launch.token)
  /\ UNCHANGED <<box, launch, throttle, jar, req, recovered>>

Unknown(p) == /\ act[p].pc = "started" /\ act[p].token = 0
              /\ launch.started # box.gen

GiveUp(p) ==
  /\ Unknown(p) /\ throttle
  /\ Finish(p, 0)
  /\ UNCHANGED <<box, launch, throttle, recovered>>

(* Otherwise the container is restarted, if none was for five minutes.     *)
Recover(p) ==
  /\ Unknown(p) /\ ~throttle
  /\ throttle' = TRUE
  /\ Goto(p, "restart", 0)
  /\ UNCHANGED <<box, launch, jar, req, recovered>>

Restarted(p) ==
  /\ act[p].pc = "restart" /\ box.gen < MaxGen
  /\ box' = [box EXCEPT !.gen = @ + 1, !.line = "none"]
  /\ recovered' = recovered + 1
  /\ Goto(p, "again", 0)
  /\ UNCHANGED <<launch, throttle, jar, req>>

(* docker restart fails; it also stands for the bound on starts.           *)
RestartFailed(p) ==
  /\ act[p].pc = "restart"
  /\ Finish(p, 0)
  /\ UNCHANGED <<box, launch, throttle, recovered>>

(* After the pause: the token of the new start, or none yet.               *)
TailAgain(p) ==
  /\ act[p].pc = "again"
  /\ \/ Seen # 0 /\ Goto(p, "started", Seen) /\ UNCHANGED <<jar, req>>
     \/ Seen = 0 /\ Finish(p, 0)
  /\ UNCHANGED <<box, launch, throttle, recovered>>

(* GET /?token=: the container sets a cookie if the token is its own; its  *)
(* answer may be on its way while the container is rebuilt.                *)
Activated(p) ==
  /\ act[p].pc = "activate"
  /\ Goto(p, "cookie", IF act[p].token = box.gen /\ box.line # "none"
                       THEN box.key ELSE 0)
  /\ UNCHANGED <<box, launch, throttle, jar, req, recovered>>

Cookied(p) == /\ act[p].pc = "cookie"
              /\ Finish(p, act[p].token)
              /\ UNCHANGED <<box, launch, throttle, recovered>>

(* Five minutes are over; no recovery is waiting for docker that long.     *)
Cooled ==
  /\ throttle /\ \A p \in Req : act[p].pc # "restart"
  /\ throttle' = FALSE
  /\ recovered' = 0
  /\ UNCHANGED <<box, launch, jar, act, req>>

-----------------------------------------------------------------------------
(* The container and the server.                                           *)

Printed == /\ box.line = "none"
           /\ box' = [box EXCEPT !.line = "tail"]
           /\ UNCHANGED <<launch, throttle, jar, act, req, recovered>>

Rolled == /\ box.line = "tail"
          /\ box' = [box EXCEPT !.line = "rolled"]
          /\ UNCHANGED <<launch, throttle, jar, act, req, recovered>>

(* DSH restarts by itself.                                                 *)
Reboot == /\ box.gen < MaxGen
          /\ box' = [box EXCEPT !.gen = @ + 1, !.line = "none"]
          /\ UNCHANGED <<launch, throttle, jar, act, req, recovered>>

(* The lifecycle rebuilds the container, maybe with another image or with  *)
(* a new key, behind a closed route (close forgets the cookies) ...        *)
Rebuild(n, new) ==
  /\ box.gen < MaxGen /\ box.open
  /\ box' = [box EXCEPT !.gen = @ + 1, !.line = "none", !.need = n, !.open = FALSE,
                        !.key = IF new THEN @ + 1 ELSE @]
  /\ jar' = NoJar
  /\ UNCHANGED <<launch, throttle, act, req, recovered>>

(* ... and listens again when it is ready.                                 *)
Listen == /\ ~box.open /\ box.line # "none"
          /\ box' = [box EXCEPT !.open = TRUE]
          /\ jar' = NoJar
          /\ UNCHANGED <<launch, throttle, act, req, recovered>>

(* The server restarts; restoreFromDocker opens the route again.           *)
Crash ==
  /\ launch' = [started |-> 0, token |-> 0] /\ throttle' = FALSE
  /\ jar' = NoJar
  /\ act' = [p \in Req |-> NoAct] /\ req' = [p \in Req |-> IdleReq]
  /\ recovered' = 0
  /\ UNCHANGED box

Handle(p) == \/ Forwarded(p) \/ Refused(p) \/ PassedOn(p) \/ Retry(p) \/ Done(p)
             \/ TailRead(p) \/ StartRead(p) \/ Remembered(p) \/ GiveUp(p) \/ Recover(p)
             \/ Restarted(p) \/ RestartFailed(p) \/ TailAgain(p) \/ Activated(p)
             \/ Cookied(p)

Next == \/ \E p \in Req : \/ Handle(p)
                          \/ \E h \in Host : Arrive(p, h)
                          \/ \E h \in Host : Check(p, h)
        \/ Printed \/ Rolled \/ Cooled \/ Reboot \/ Listen \/ Crash
        \/ \E n \in Need, new \in BOOLEAN : Rebuild(n, new)

Spec == Init /\ [][Next]_vars

-----------------------------------------------------------------------------
TypeOK ==
  /\ box.gen \in 1 .. MaxGen /\ box.key \in 1 .. MaxGen /\ box.need \in Need
  /\ launch.started \in 0 .. box.gen /\ launch.token \in 0 .. launch.started
  /\ \A h \in Host : jar[h].cookie \in 0 .. box.key /\ jar[h].by \in Req \cup {NoReq}
  /\ \A p \in Req : /\ req[p].pc \in {"idle", "wait", "forward", "401"} /\ req[p].kind \in Kind
                    /\ (req[p].pc = "wait") = (req[p].on # NoReq)
                    /\ act[p].token \in 0 .. box.gen

(* A page is refused by the container only if the container has got a new  *)
(* key since the gateway retried: a stale cookie, also one that a slow     *)
(* activation has put back after close cleared the cache, costs one retry  *)
(* (tenant-proxy.service.js:465).                                          *)
GetHealed ==
  \A p \in Req : req[p].pc = "401" => req[p].seen # box.key

(* However many activations miss the token, for different hosts or after a *)
(* clear, they restart the container once in five minutes                  *)
(* (dsh-auth.service.js:157).                                              *)
RestartsSpaced == recovered <= 1

GatewayRecovers == GetHealed /\ RestartsSpaced

(* A waiting request is waiting for an activation that is under way and    *)
(* for its own host: joining one never strands it (dsh-auth:283).          *)
NobodyStranded ==
  \A p \in Req : req[p].pc = "wait" => /\ act[req[p].on].pc # "idle"
                                       /\ req[req[p].on].host = req[p].host

(* What the cache has of the present start of the container is the token   *)
(* of that start (dsh-auth.service.js:55).                                 *)
LaunchCurrent == launch.started = box.gen => launch.token = box.gen
=============================================================================
