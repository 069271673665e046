------------------------------ MODULE AdminPage ------------------------------
(***************************************************************************)
(* Which view the admin panel shows: views/AdminPanel.vue, from mounting   *)
(* it to the wallet switch, the signed login, the logout and the refresh   *)
(* timer that goes with the management view.                               *)
(*                                                                         *)
(* One browser thread: handlers run to their next await.  The admin list   *)
(* is fixed; the cookie is the session the server gave this browser.       *)
(***************************************************************************)
EXTENDS Naturals, FiniteSets

CONSTANTS Addr, Admins,  \* wallet accounts, and those on the admin list
          NoAddr, Flow,  \* no account; handlers that may be pending at once
          MaxFlows,      \* handlers one behaviour starts
          Faults         \* "network": requests and the plugin may fail

VARIABLES isAdmin, notAdmin,  \* the management view, the no-access view
          here,               \* currentAddress
          adminAs,            \* currentAdminAddress
          refresh,            \* dataRefreshInterval is set
          bound,              \* the wallet listener is bound
          alive,              \* the component is mounted
          wallet, cookie,     \* the plugin's account, the session's address
          flow, started

views == <<isAdmin, notAdmin>>
vars == <<views, here, adminAs, refresh, bound, alive, wallet, cookie, flow, started>>

Idle == [pc |-> "idle", addr |-> NoAddr]
At(f, l) == flow[f].pc = l
Goto(f, l) == flow' = [flow EXCEPT ![f].pc = l]
End(f) == flow' = [flow EXCEPT ![f] = Idle]
Start(f, l, a) == /\ At(f, "idle") /\ started < MaxFlows /\ started' = started + 1
                  /\ flow' = [flow EXCEPT ![f] = [pc |-> l, addr |-> a]]
Fails == "network" \in Faults

Init == /\ isAdmin = FALSE /\ notAdmin = FALSE /\ here = NoAddr
        /\ adminAs = NoAddr /\ refresh = FALSE /\ bound = FALSE /\ alive = TRUE
        /\ wallet \in Addr \cup {NoAddr} /\ cookie \in Admins \cup {NoAddr}
        /\ \E f \in Flow : flow = [g \in Flow |->
             IF g = f THEN [pc |-> "mount", addr |-> NoAddr] ELSE Idle]
        /\ started = 1

View(admin, denied) == isAdmin' = admin /\ notAdmin' = denied
NoAccess == View(FALSE, TRUE)

-----------------------------------------------------------------------------
(* The refresh timer.  stopPolling calls itself: it ends in a RangeError   *)
(* and never clears the timer, and startPolling, which calls it first,     *)
(* never sets one.                                                         *)
StopPollingThrows == TRUE
StopPolling == refresh' = (refresh /\ StopPollingThrows)
StartPolling == refresh' = ~StopPollingThrows

-----------------------------------------------------------------------------
(* The mount hook: the plugin's account, whether it is on the list,        *)
(* whether the cookie is a session, the data, the refresh timer; anything  *)
(* thrown on the way shows the no-access view.                             *)
Mount(f) ==
  /\ At(f, "mount") /\ bound' = TRUE
  /\ \/ /\ wallet # NoAddr /\ here' = wallet
        /\ flow' = [flow EXCEPT ![f] = [pc |-> "listed", addr |-> wallet]]
     \/ /\ wallet = NoAddr \/ Fails
        /\ End(f) /\ UNCHANGED here
  /\ UNCHANGED <<views, adminAs, refresh, alive, wallet, cookie, started>>

Listed(f) ==
  /\ At(f, "listed")
  /\ \/ flow[f].addr \in Admins /\ Goto(f, "cookie") /\ UNCHANGED views
     \/ /\ flow[f].addr \notin Admins \/ Fails
        /\ NoAccess /\ End(f)
  /\ UNCHANGED <<here, adminAs, refresh, bound, alive, wallet, cookie, started>>

CheckAdmin(f) ==
  /\ At(f, "cookie")
  /\ \/ cookie # NoAddr /\ isAdmin' = TRUE /\ Goto(f, "data") /\ UNCHANGED notAdmin
     \/ /\ cookie = NoAddr \/ Fails
        /\ View(FALSE, FALSE) /\ End(f)
  /\ UNCHANGED <<here, adminAs, refresh, bound, alive, wallet, cookie, started>>

Loaded(f) ==
  /\ At(f, "data") /\ StartPolling /\ End(f)
  /\ IF StopPollingThrows THEN NoAccess ELSE UNCHANGED views
  /\ UNCHANGED <<here, adminAs, bound, alive, wallet, cookie, started>>

-----------------------------------------------------------------------------
(* The wallet announces another account: checked against the list before a *)
(* signature is asked for.                                                 *)
Announce(w) ==
  /\ bound /\ w # wallet /\ wallet' = w /\ here' = w
  /\ \/ /\ w = NoAddr /\ View(FALSE, FALSE) /\ adminAs' = NoAddr /\ StopPolling
        /\ UNCHANGED <<flow, started>>
     \/ /\ w = adminAs /\ w # NoAddr
        /\ UNCHANGED <<views, adminAs, refresh, flow, started>>
     \/ /\ w \notin {NoAddr, adminAs} /\ \E f \in Flow : Start(f, "check", w)
        /\ UNCHANGED <<views, adminAs, refresh>>
  /\ UNCHANGED <<bound, alive, cookie>>

Denied(f) == NoAccess /\ adminAs' = NoAddr /\ StopPolling /\ End(f)

Checked(f) ==
  /\ At(f, "check")
  /\ \/ /\ flow[f].addr \in Admins /\ Goto(f, "sign")
        /\ UNCHANGED <<views, adminAs, refresh>>
     \/ /\ flow[f].addr \notin Admins \/ Fails
        /\ Denied(f)
  /\ UNCHANGED <<here, bound, alive, wallet, cookie, started>>

(* signLogin for the announced account; a failure leaves the view alone.   *)
Switched(f) ==
  /\ At(f, "sign")
  /\ \/ /\ cookie' = flow[f].addr /\ adminAs' = flow[f].addr /\ View(TRUE, FALSE)
        /\ End(f)
     \/ /\ Fails /\ End(f) /\ UNCHANGED <<views, adminAs, cookie>>
  /\ UNCHANGED <<here, refresh, bound, alive, wallet, started>>

-----------------------------------------------------------------------------
(* The login button of the login view, and the logout button.              *)
AdminLogin(f) == /\ alive /\ ~isAdmin /\ ~notAdmin /\ \A g \in Flow : ~At(g, "login")
                 /\ wallet # NoAddr /\ here' = wallet /\ Start(f, "login", wallet)
                 /\ UNCHANGED <<views, adminAs, refresh, bound, alive, wallet, cookie>>

LoggedIn(f) ==
  /\ At(f, "login")
  /\ \/ /\ flow[f].addr \in Admins
        /\ cookie' = flow[f].addr /\ adminAs' = flow[f].addr /\ View(TRUE, FALSE)
        /\ Goto(f, "loaded")
     \/ flow[f].addr \notin Admins /\ NoAccess /\ End(f) /\ UNCHANGED <<adminAs, cookie>>
     \/ Fails /\ End(f) /\ UNCHANGED <<views, adminAs, cookie>>
  /\ UNCHANGED <<here, refresh, bound, alive, wallet, started>>

(* A throw here only shows a login error.                                  *)
LoginLoaded(f) ==
  /\ At(f, "loaded") /\ StartPolling /\ End(f)
  /\ UNCHANGED <<views, here, adminAs, bound, alive, wallet, cookie, started>>

Logout(f) == /\ alive /\ isAdmin /\ ~notAdmin /\ Start(f, "logout", NoAddr)
             /\ UNCHANGED <<views, here, adminAs, refresh, bound, alive, wallet, cookie>>

LoggedOut(f) ==
  /\ At(f, "logout")
  /\ cookie' \in {NoAddr} \cup (IF Fails THEN {cookie} ELSE {})
  /\ isAdmin' = FALSE /\ adminAs' = NoAddr /\ StopPolling /\ End(f)
  /\ UNCHANGED <<notAdmin, here, bound, alive, wallet, started>>

(* Leaving the page: what follows stopPolling in the hook does not run.    *)
Unmount == /\ alive /\ alive' = FALSE /\ StopPolling
           /\ bound' = (bound /\ StopPollingThrows)
           /\ UNCHANGED <<views, here, adminAs, wallet, cookie, flow, started>>

Next == \/ \E w \in Addr \cup {NoAddr} : Announce(w)
        \/ \E f \in Flow : \/ Mount(f) \/ Listed(f) \/ CheckAdmin(f) \/ Loaded(f)
                           \/ Checked(f) \/ Switched(f)
                           \/ AdminLogin(f) \/ LoggedIn(f) \/ LoginLoaded(f)
                           \/ Logout(f) \/ LoggedOut(f)
        \/ Unmount
Spec == Init /\ [][Next]_vars

-----------------------------------------------------------------------------
(* Types; the management view is only up while the browser holds a         *)
(* session.                                                                *)
TypeOK == /\ {isAdmin, notAdmin, refresh, bound, alive} \subseteq BOOLEAN
          /\ {here, adminAs, wallet, cookie} \subseteq Addr \cup {NoAddr}
          /\ \A f \in Flow : flow[f].addr \in Addr \cup {NoAddr}
          /\ started \in 0 .. MaxFlows
          /\ (isAdmin => cookie # NoAddr)

(* AdminPanel.vue:2779 shows the no-access view when "the current address  *)
(* is not an administrator": once every handler has ended, an address on   *)
(* the admin list is not told that it has no access.                       *)
DeniedNotAdmin == /\ \A f \in Flow : At(f, "idle")
                  /\ notAdmin
                  => here \notin Admins
=============================================================================
