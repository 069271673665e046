------------------------------ MODULE UserPage ------------------------------
(***************************************************************************)
(* The tenant's page in the browser: views/UserCenter.vue, its wallet      *)
(* account flow, the signed connect, the queue polling and the buttons     *)
(* that start, restart or stop the container.                              *)
(*                                                                         *)
(* The page runs in one browser thread: code between two awaits is atomic, *)
(* and clicks, account events and interval ticks start flows that overlap. *)
(* Every flow draws on the same refs, and the overlay hides all buttons    *)
(* while loading is set.  Answers of the server are nondeterministic;      *)
(* progress texts, the skills tab and the model tab are left out.          *)
(***************************************************************************)
EXTENDS Naturals, FiniteSets

CONSTANTS Addr,       \* wallet accounts
          NoAddr,     \* no account
          Flow,       \* event handlers and ticks that may be pending at once
          MaxFlows    \* flows one behaviour starts

VARIABLES loading,    \* the overlay
          connected,  \* past the connect card
          waiting,    \* the queue card
          shown,      \* userInfo.address
          saved,      \* localStorage swtc_address
          wallet,     \* the account the plugin has selected
          poll,       \* the address queuePollingTimer asks about
          signing,    \* ownershipInFlight
          flow,       \* the pending flows
          started     \* flows started so far

refs == <<connected, waiting, shown, saved>>
vars == <<loading, refs, wallet, poll, signing, flow, started>>

Pcs == {"idle", "mount", "compare", "revoke", "accounts", "status", "sign",
        "settle", "confirm", "post", "info", "again", "asking", "mine"}
Kinds == {"none", "mount", "switch", "connect", "enter", "start", "control",
          "poll"}

(* addr is the address the flow works for, retry marks the second signing  *)
(* of ensureContainer (its catch block), opened says fetchUserInfo put up  *)
(* the overlay itself, shell that establishConnected called it.            *)
Pending == [pc : Pcs, kind : Kinds, addr : Addr \cup {NoAddr},
            retry : BOOLEAN, opened : BOOLEAN, shell : BOOLEAN]
Idle == [pc |-> "idle", kind |-> "none", addr |-> NoAddr,
         retry |-> FALSE, opened |-> FALSE, shell |-> FALSE]

At(f, l) == flow[f].pc = l
Become(f, r) == flow' = [flow EXCEPT ![f] = r]
Goto(f, l) == Become(f, [flow[f] EXCEPT !.pc = l])
End(f) == Become(f, Idle)
Start(f, k, l, a) == /\ At(f, "idle") /\ started < MaxFlows
                     /\ started' = started + 1
                     /\ Become(f, [Idle EXCEPT !.pc = l, !.kind = k, !.addr = a])

(* The page opens: the mount hook asks the plugin for its account.         *)
Init == /\ loading = FALSE /\ connected = FALSE /\ waiting = FALSE
        /\ shown = NoAddr /\ poll = NoAddr /\ signing = FALSE
        /\ saved \in Addr \cup {NoAddr} /\ wallet \in Addr \cup {NoAddr}
        /\ \E f \in Flow : flow = [g \in Flow |->
             IF g = f THEN [Idle EXCEPT !.pc = "mount", !.kind = "mount"]
                      ELSE Idle]
        /\ started = 1

-----------------------------------------------------------------------------
(* handleAddressChange up to its first await: a real change clears what    *)
(* the page knows of the previous address.                                 *)
HandleAddress(f, a) ==
  LET fresh == flow[f].kind # "mount" /\ a # saved IN
  /\ connected' = (connected /\ ~fresh)
  /\ shown' = IF fresh THEN NoAddr ELSE shown
  /\ loading' = TRUE
  /\ Become(f, [flow[f] EXCEPT !.pc = "status", !.addr = a])
  /\ UNCHANGED waiting

(* The end of handleAddressChange; connectWallet hides the overlay again.   *)
Over(f) == loading' = FALSE /\ End(f)

(* fetchUserInfo: it opens the overlay only when nobody else has.          *)
FetchInfo(f, a, shell) ==
  /\ loading' = TRUE
  /\ Become(f, [flow[f] EXCEPT !.pc = "info", !.addr = a, !.shell = shell,
                               !.opened = ~loading])

(* Mutant of Sign: a second signing does not throw.                        *)
SignTwice(f, retry) ==
  /\ signing' = TRUE /\ loading' = TRUE
  /\ Become(f, [flow[f] EXCEPT !.pc = "sign", !.retry = retry])

(* connectWithOwnership: one signature at a time.                          *)
Sign(f, retry) ==
  /\ ~signing /\ signing' = TRUE /\ loading' = TRUE
  /\ Become(f, [flow[f] EXCEPT !.pc = "sign", !.retry = retry])

-----------------------------------------------------------------------------
(* The mount hook: without an account it falls back on the saved address.  *)
(* With one, it first compares the session cookie and drops another saved  *)
(* address.                                                                *)
Mounted(f) ==
  /\ At(f, "mount")
  /\ \/ /\ wallet # NoAddr
        /\ Become(f, [flow[f] EXCEPT !.pc = "compare", !.addr = wallet])
        /\ UNCHANGED <<loading, refs>>
     \/ saved # NoAddr /\ HandleAddress(f, saved) /\ UNCHANGED saved
     \/ saved = NoAddr /\ End(f) /\ UNCHANGED <<loading, refs>>
  /\ UNCHANGED <<wallet, poll, signing, started>>

Compared(f) ==
  /\ At(f, "compare")
  /\ saved' = IF saved = flow[f].addr THEN saved ELSE NoAddr
  /\ HandleAddress(f, flow[f].addr)
  /\ UNCHANGED <<wallet, poll, signing, started>>

(* The plugin announces another account.  Before the first connection, and *)
(* when the saved address is announced again, the page ignores it.         *)
Announce(w) ==
  /\ w # wallet /\ wallet' = w
  /\ \/ /\ w = NoAddr
        /\ connected' = FALSE /\ shown' = NoAddr /\ saved' = NoAddr
        /\ UNCHANGED <<flow, started, waiting>>
     \/ /\ w # NoAddr /\ saved \in {NoAddr, w}
        /\ UNCHANGED <<flow, started, refs>>
     \/ /\ w # NoAddr /\ saved \notin {NoAddr, w}
        /\ \E f \in Flow : Start(f, "switch", "revoke", w)
        /\ UNCHANGED refs
  /\ UNCHANGED <<loading, poll, signing>>

Revoked(f) == /\ At(f, "revoke") /\ HandleAddress(f, flow[f].addr)
              /\ UNCHANGED <<saved, wallet, poll, signing, started>>

(* The connect button of the connect card.                                 *)
ConnectWallet(f) ==
  /\ ~loading /\ ~connected
  /\ Start(f, "connect", "accounts", NoAddr) /\ loading' = TRUE
  /\ UNCHANGED <<refs, wallet, poll, signing>>

Accounts(f) ==
  /\ At(f, "accounts")
  /\ \/ wallet # NoAddr /\ HandleAddress(f, wallet) /\ UNCHANGED saved
     \/ End(f) /\ loading' = FALSE /\ UNCHANGED refs
  /\ UNCHANGED <<wallet, poll, signing, started>>

-----------------------------------------------------------------------------
(* ensureContainer.                                                        *)

(* The tenant has to queue: the timer now asks about this address, and the *)
(* identity is established around the queue card.                          *)
Queue(f) ==
  /\ waiting' = TRUE /\ poll' = flow[f].addr
  /\ saved' = flow[f].addr
  /\ loading' = TRUE       \* hidden, then opened again by fetchUserInfo
  /\ Become(f, [flow[f] EXCEPT !.pc = "info", !.shell = TRUE, !.opened = TRUE])
  /\ UNCHANGED <<connected, shown>>

(* Mutant of Limit: the overlay of the signing is not hidden first, so     *)
(* fetchUserInfo takes it for somebody else's.                             *)
LimitCovered(f) ==
  /\ waiting' = FALSE /\ saved' = flow[f].addr
  /\ loading' = TRUE
  /\ Become(f, [flow[f] EXCEPT !.pc = "info", !.shell = TRUE, !.opened = FALSE])
  /\ UNCHANGED <<connected, shown, poll>>

(* The day's minutes are used up: no queue, but the identity is kept.      *)
Limit(f) ==
  /\ waiting' = FALSE /\ saved' = flow[f].addr
  /\ loading' = TRUE
  /\ Become(f, [flow[f] EXCEPT !.pc = "info", !.shell = TRUE, !.opened = TRUE])
  /\ UNCHANGED <<connected, shown, poll>>

(* The container is there: the address is saved and its data fetched.      *)
Present(f) == /\ saved' = flow[f].addr
              /\ loading' = TRUE
              /\ Become(f, [flow[f] EXCEPT !.pc = "info", !.shell = FALSE,
                                           !.opened = FALSE])
              /\ UNCHANGED <<connected, waiting, shown, poll, signing>>

(* handleAddressChange's catch.                                            *)
Failed(f) == Over(f) /\ UNCHANGED <<refs, poll>>

(* A signing that another one is in the way of throws; ensureContainer     *)
(* signs again in its catch, which throws at once for the same reason.     *)
Busy(f) == signing /\ Failed(f) /\ UNCHANGED signing

StatusAnswer(f) ==
  /\ At(f, "status")
  /\ \/ Queue(f) /\ UNCHANGED signing
     \/ Present(f)
     \/ \E retry \in BOOLEAN : Sign(f, retry) /\ UNCHANGED <<refs, poll>>
     \/ Busy(f)
  /\ UNCHANGED <<wallet, started>>

(* Each stage of the signing puts the overlay up again.                    *)
Stage(f) == /\ At(f, "sign") /\ ~loading /\ loading' = TRUE
            /\ UNCHANGED <<refs, wallet, poll, signing, flow, started>>

(* /connect answered, or the plugin, the challenge or /connect failed.     *)
Signed(f) ==
  /\ At(f, "sign") /\ flow[f].kind \notin {"enter", "start"}
  /\ signing' = FALSE
  /\ \/ Queue(f)
     \/ Limit(f)
     \/ Goto(f, "settle") /\ UNCHANGED <<loading, refs, poll>>
  /\ UNCHANGED <<wallet, started>>

SignFailed(f) ==
  /\ At(f, "sign") /\ flow[f].kind \notin {"enter", "start"}
  /\ \/ flow[f].retry /\ signing' = FALSE /\ Failed(f)
     \/ /\ ~flow[f].retry /\ loading' = TRUE
        /\ Become(f, [flow[f] EXCEPT !.retry = TRUE])
        /\ UNCHANGED <<refs, poll, signing>>
  /\ UNCHANGED <<wallet, started>>

Settled(f) == /\ At(f, "settle") /\ flow[f].kind # "start" /\ Present(f)
              /\ UNCHANGED <<wallet, started>>

-----------------------------------------------------------------------------
(* The buttons of the connected page; a second signing throws at once.     *)
Buttons == ~loading /\ connected /\ ~waiting

Enter(f) == /\ Buttons /\ {saved, shown} # {NoAddr}
            /\ ~signing /\ signing' = TRUE /\ loading' = TRUE
            /\ Start(f, "enter", "sign", NoAddr)
            /\ UNCHANGED <<refs, wallet, poll>>

RestartContainer(f) ==
            /\ Buttons /\ ~signing /\ signing' = TRUE /\ loading' = TRUE
            /\ Start(f, "start", "sign", shown)
            /\ UNCHANGED <<refs, wallet, poll>>

(* restartDSH, resetContainer and stopContainer ask first; the address is  *)
(* read when the user has agreed, whatever happened behind the dialog.     *)
Control(f) == /\ Buttons /\ Start(f, "control", "confirm", NoAddr)
              /\ UNCHANGED <<loading, refs, wallet, poll, signing>>

Confirmed(f) ==
  /\ At(f, "confirm")
  /\ \/ /\ loading' = TRUE
        /\ Become(f, [flow[f] EXCEPT !.pc = "post", !.addr = shown])
     \/ End(f) /\ UNCHANGED loading
  /\ UNCHANGED <<refs, wallet, poll, signing, started>>

(* enterDsh hides the overlay and opens the container; restartContainer    *)
(* throws unless the HTTP status is a success.                             *)
Entered(f) == /\ At(f, "sign") /\ flow[f].kind \in {"enter", "start"}
              /\ signing' = FALSE
              /\ \/ loading' = FALSE /\ End(f)
                 \/ flow[f].kind = "start" /\ Goto(f, "settle") /\ UNCHANGED loading
              /\ UNCHANGED <<refs, wallet, poll, started>>

Controlled(f) ==
  /\ \/ At(f, "post")
     \/ At(f, "settle") /\ flow[f].kind = "start"
  /\ \/ FetchInfo(f, flow[f].addr, FALSE)
     \/ At(f, "post") /\ loading' = FALSE /\ End(f)
  /\ UNCHANGED <<refs, wallet, poll, signing, started>>

(* The cancel button of the queue card.                                    *)
CancelWaiting ==
  /\ ~loading /\ connected /\ waiting
  /\ waiting' = FALSE /\ poll' = NoAddr /\ connected' = FALSE /\ shown' = NoAddr
  /\ UNCHANGED <<loading, saved, wallet, signing, flow, started>>

(* A tick of the queue timer, and its answer: once the container exists    *)
(* the timer is cleared and the data of the polled address fetched.        *)
Tick(f) == /\ poll # NoAddr /\ Start(f, "poll", "asking", poll)
           /\ UNCHANGED <<loading, refs, wallet, poll, signing>>

Ticked(f) ==
  /\ At(f, "asking")
  /\ \/ /\ waiting' = FALSE /\ poll' = NoAddr
        /\ FetchInfo(f, flow[f].addr, FALSE)
        /\ UNCHANGED <<connected, shown, saved>>
     \/ End(f) /\ UNCHANGED <<loading, refs, poll>>
  /\ UNCHANGED <<wallet, signing, started>>

-----------------------------------------------------------------------------
(* The end of fetchUserInfo and what its caller does then, with s the      *)
(* address shown, c connected and v the saved address fetchUserInfo left:  *)
(* the shell of an address is enough to be connected, the main path wants  *)
(* an address, the queue timer asks for nothing.                           *)
Resume(f, s, c, v) ==
  LET k == flow[f].kind
      hidden == IF flow[f].opened THEN FALSE ELSE loading IN
  /\ saved' = v
  /\ shown' = IF flow[f].shell /\ s = NoAddr THEN flow[f].addr ELSE s
  /\ connected' = CASE flow[f].shell \/ k = "poll" -> TRUE
                    [] k \in {"start", "control"} -> c
                    [] OTHER -> c \/ s # NoAddr
  /\ IF k = "poll" THEN loading' = hidden /\ End(f)
     ELSE IF k = "connect" THEN
       loading' = FALSE /\ IF flow[f].shell THEN End(f) ELSE Goto(f, "mine")
     ELSE loading' = (flow[f].shell /\ hidden) /\ End(f)
  /\ UNCHANGED <<waiting, wallet, poll, signing, started>>

InfoAnswer(f) ==
  /\ At(f, "info")
  /\ \/ Resume(f, flow[f].addr, connected, saved)
     \/ Resume(f, NoAddr, FALSE, NoAddr)       \* 400: no valid address
     \/ Resume(f, shown, connected, saved)     \* 403: no session
     \/ Goto(f, "again")                       \* asked again in two seconds
        /\ UNCHANGED <<loading, refs, wallet, poll, signing, started>>

InfoAgain(f) == /\ At(f, "again")
                /\ \/ Resume(f, flow[f].addr, connected, saved)
                   \/ Resume(f, shown, connected, saved)

(* connectWallet's finally, after the skills list.                         *)
MineLoaded(f) == /\ At(f, "mine") /\ loading' = FALSE /\ End(f)
                 /\ UNCHANGED <<refs, wallet, poll, signing, started>>

Events == \/ \E w \in Addr \cup {NoAddr} : Announce(w)
          \/ \E f \in Flow : \/ ConnectWallet(f) \/ Enter(f) \/ RestartContainer(f)
                             \/ Control(f) \/ Tick(f)
          \/ CancelWaiting

Answers == \E f \in Flow :
  \/ Mounted(f) \/ Compared(f) \/ Revoked(f) \/ Accounts(f) \/ StatusAnswer(f)
  \/ Stage(f) \/ Confirmed(f) \/ Signed(f) \/ SignFailed(f) \/ Settled(f) \/ Entered(f) \/ Controlled(f)
  \/ Ticked(f) \/ InfoAnswer(f) \/ InfoAgain(f) \/ MineLoaded(f)

Next == Events \/ Answers
Spec == Init /\ [][Next]_vars

-----------------------------------------------------------------------------
(* Types; and the signing flag is up exactly while one flow signs.         *)
TypeOK == /\ {loading, connected, waiting, signing} \subseteq BOOLEAN
          /\ {shown, saved, wallet, poll} \subseteq Addr \cup {NoAddr}
          /\ flow \in [Flow -> Pending] /\ started \in 0 .. MaxFlows
          /\ Cardinality({f \in Flow : At(f, "sign")}) = (IF signing THEN 1 ELSE 0)

(* The overlay covers every button, so once all flows have ended it is     *)
(* down, whichever of the overlapping flows put it up and however the      *)
(* others failed; else the page is frozen until it is reloaded.            *)
LoadingEnds == (\A f \in Flow : At(f, "idle")) => ~loading
=============================================================================
