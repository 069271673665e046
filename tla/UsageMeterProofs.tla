-------------------------- MODULE UsageMeterProofs --------------------------
(***************************************************************************)
(* The meter of the daily limit, for any number of tasks, any limit and any*)
(* saturation bound.                                                       *)
(*                                                                         *)
(* The types hold of every interleaving, and so does it that a revoked     *)
(* tenant is limited again: what a task will write back has the mark only  *)
(* if it had it at the revocation.  That no minute is billed twice holds   *)
(* when the operations that write a meter back after an await (Writers)    *)
(* overlap no other: what such a task carries, its startedAt and the record*)
(* object it captured, is then as sound as the record itself, because      *)
(* nobody settles behind its back.                                         *)
(***************************************************************************)
EXTENDS MCUsageMeter, TLAPS

(* The operations that run finalizeTenant or write a captured record.      *)
Writers == {"connect", "reset", "apply"}

(* Which operations reach a point of the code.                             *)
Course(t) ==
  /\ t.pc = "launch" => t.op \in Writers
  /\ t.pc \in {"ready", "reheal", "bind"} => t.op \in Writers \cup {"restart"}
  /\ t.pc \in {"apply", "applyrm"} => t.op = "apply"
  /\ t.pc = "redo" => t.op = "restart"
  /\ t.pc = "discard" => t.op \in {"destroy", "remove", "reset"}

(* A record that bills nothing from before the last settlement, n minutes  *)
(* ago.                                                                    *)
Good(r, n) == r.start # Off => r.start <= n

(* The same of what a task will write back.                                *)
Sound(t, n) ==
  t.op # "restart" =>
    /\ t.pc \in {"ready", "reheal", "bind"} => t.start <= n
    /\ t.pc \in {"ready", "reheal", "bind", "apply"} => Good(t.obj, n)

Types == TypeOK /\ \A p \in Proc : Course(task[p])
Billing == /\ Good(rec, settled)
           /\ \A p \in Proc : Sound(task[p], settled)

(* A turn of task p that leaves it as t: what it may do to the others, and *)
(* what it does to the meter.                                              *)
Turns(p, t) ==
  /\ t \in Task /\ Course(t)
  /\ task' \in [Proc -> Task] /\ task'[p] = t
  /\ \A q \in Proc : q # p => task'[q].pc = task[q].pc /\ task'[q].op = task[q].op
Meters(p, t) ==
  /\ rec' \in Record /\ used' \in Age /\ settled' \in Age
  /\ cont' \in {"absent", "exited", "running"} /\ registry' = registry
  /\ Good(rec, settled) /\ Sound(task[p], settled)
       => Good(rec', settled') /\ Sound(t, settled')
Turn(p) == \E t \in Task : Turns(p, t) /\ Meters(p, t)

-----------------------------------------------------------------------------
(* The operators of the model.                                             *)

LEMMA SumAge == \A x, y \in Age : Sum(x, y) \in Age
  BY TimeAssumption DEF Sum, Age

LEMMA AgeFacts == /\ 0 \in Age /\ Cap \in Age /\ Off \notin Age
                  /\ \A x \in Age : x \in Int /\ 0 <= x
  BY TimeAssumption DEF Age, Off

LEMMA Constants ==
  /\ NoRec \in Record /\ Unset \in Record /\ Idle \in Task
  /\ NoRec.start = Off /\ NoRec.mark = FALSE /\ Unset.start = Off /\ Unset.mark = FALSE
  /\ Idle.pc = "idle" /\ Idle.op = "none" /\ Idle.obj = NoRec
<1>1. NoRec \in Record /\ NoRec.start = Off /\ NoRec.mark = FALSE
  BY DEF NoRec, Record, Status
<1>2. Unset \in Record /\ Unset.start = Off /\ Unset.mark = FALSE
  BY <1>1 DEF Unset, Record, Status
<1>3. Idle \in Task
  BY <1>1, AgeFacts DEF Idle, Task, Pcs
<1> QED
  BY <1>1, <1>2, <1>3 DEF Idle

LEMMA OlderFacts ==
  ASSUME NEW x \in Age \cup {Off}
  PROVE  /\ Older(x) \in Age \cup {Off}
         /\ \A n \in Age : (x # Off => x <= n) => (Older(x) # Off => Older(x) <= Sum(n, 1))
<1>1. CASE x = Off
  BY <1>1 DEF Older
<1>2. CASE x # Off
  <2>1. x \in Int /\ 0 <= x /\ x <= Cap /\ Cap \in Int
    BY <1>2, TimeAssumption DEF Age, Off
  <2>2. Older(x) = Sum(x, 1)
    BY <1>2 DEF Older
  <2>3. Sum(x, 1) \in Age
    BY <2>1 DEF Sum, Age
  <2>4. ASSUME NEW n \in Age, x <= n
        PROVE  Sum(x, 1) <= Sum(n, 1)
    BY <2>1, <2>4 DEF Sum, Age
  <2> QED
    BY <1>2, <2>2, <2>3, <2>4
<1> QED
  BY <1>1, <1>2

(* A change of the status changes neither the meter nor the exemption.     *)
LEMMA StatusFacts ==
  ASSUME NEW r \in Record, NEW s \in Status
  PROVE  /\ [r EXCEPT !.status = s] \in Record
         /\ [r EXCEPT !.status = s].start = r.start
         /\ [r EXCEPT !.status = s].mark = r.mark
  BY DEF Record

LEMMA StartFacts ==
  ASSUME NEW r \in Record, NEW s \in Status, NEW x \in Age \cup {Off}
  PROVE  /\ [r EXCEPT !.status = s, !.start = x] \in Record
         /\ [r EXCEPT !.status = s, !.start = x].start = x
         /\ [r EXCEPT !.status = s, !.start = x].mark = r.mark
  BY DEF Record

LEMMA SettleFacts ==
  ASSUME TypeOK, NEW s \in Status, Settle(s)
  PROVE  /\ rec' \in Record /\ used' \in Age /\ settled' \in Age
         /\ rec'.start = Off /\ rec'.mark = rec.mark
<1>1. Off \in Age \cup {Off} /\ rec \in Record
  BY DEF TypeOK
<1>2. CASE rec.start = Off
  BY <1>1, <1>2, StatusFacts DEF Settle, meter, TypeOK
<1>3. CASE rec.start # Off
  <2>1. rec.start \in Age
    BY <1>1, <1>3 DEF Record
  <2>2. /\ rec' = [rec EXCEPT !.status = s, !.start = Off]
        /\ used' = Sum(used, rec.start) /\ settled' = 0
    BY <1>3 DEF Settle
  <2>3. used' \in Age /\ settled' \in Age
    BY <2>1, <2>2, SumAge, AgeFacts DEF TypeOK
  <2>4. [rec EXCEPT !.status = s, !.start = Off].start = Off
    BY <1>1 DEF Record
  <2> QED
    BY <1>1, <2>2, <2>3, <2>4, StartFacts
<1> QED
  BY <1>2, <1>3

LEMMA CapturedFacts ==
  ASSUME TypeOK, NEW p \in Proc
  PROVE  /\ Captured(p) \in Record
         /\ \A n : Good(rec, n) /\ Good(task[p].obj, n) => Good(Captured(p), n)
  BY DEF TypeOK, Task, Captured

(* What a turn leaves of the other tasks.                                  *)
LEMMA BecomeTurns ==
  ASSUME TypeOK, NEW p \in Proc, NEW t \in Task, Course(t), Become(p, t)
  PROVE  Turns(p, t)
  BY DEF TypeOK, Become, Turns

LEMMA ReplaceTurns ==
  ASSUME TypeOK, NEW p \in Proc, NEW t \in Task, Course(t), NEW r, Replace(p, t, r)
  PROVE  Turns(p, t) /\ rec' = r
<1>1. ASSUME NEW q \in Proc
      PROVE  /\ task[q] \in Task
             /\ [task[q] EXCEPT !.held = FALSE, !.obj = rec] \in Task
             /\ [task[q] EXCEPT !.held = FALSE, !.obj = rec].pc = task[q].pc
             /\ [task[q] EXCEPT !.held = FALSE, !.obj = rec].op = task[q].op
  BY DEF TypeOK, Task
<1>2. task' = [q \in Proc |->
                IF q = p THEN t
                ELSE IF task[q].held THEN [task[q] EXCEPT !.held = FALSE, !.obj = rec]
                ELSE task[q]]
  BY DEF Replace
<1>3. task' \in [Proc -> Task] /\ task'[p] = t
  BY <1>1, <1>2
<1>4. \A q \in Proc : q # p => task'[q].pc = task[q].pc /\ task'[q].op = task[q].op
  BY <1>1, <1>2
<1> QED
  BY <1>3, <1>4 DEF Turns, Replace

LEMMA GotoFacts ==
  ASSUME TypeOK, NEW p \in Proc, NEW l \in Pcs
  PROVE  /\ [task[p] EXCEPT !.pc = l] \in Task
         /\ [task[p] EXCEPT !.pc = l].pc = l
         /\ [task[p] EXCEPT !.pc = l].op = task[p].op
         /\ [task[p] EXCEPT !.pc = l].start = task[p].start
         /\ [task[p] EXCEPT !.pc = l].obj = task[p].obj
  BY DEF TypeOK, Task

(* A task that ends carries nothing.                                       *)
LEMMA IdleSound == Course(Idle) /\ \A n : Sound(Idle, n)
  BY Constants DEF Course, Sound

-----------------------------------------------------------------------------
(* What a turn does to the meter.                                          *)

(* The record keeps its meter and its mark, and the minutes stay.          *)
LEMMA SameMeter ==
  ASSUME TypeOK, NEW p \in Proc, NEW t \in Task, Turns(p, t),
         rec' \in Record, rec'.start = rec.start, rec'.mark = rec.mark,
         UNCHANGED <<meter, registry>>, cont' \in {"absent", "exited", "running"},
         Good(rec, settled) /\ Sound(task[p], settled)
           => Sound(t, settled)
  PROVE  Turn(p)
<1>1. Good(rec', settled') <=> Good(rec, settled)
  BY DEF Good, meter
<1>2. used' \in Age /\ settled' \in Age /\ settled' = settled /\ registry' = registry
  BY DEF TypeOK, meter
<1> QED
  BY <1>1, <1>2 DEF Turn, Meters

(* The record loses its meter and keeps its mark.                          *)
LEMMA MeterOff ==
  ASSUME TypeOK, NEW p \in Proc, NEW t \in Task, Turns(p, t),
         rec' \in Record, rec'.start = Off, rec'.mark = rec.mark, used' \in Age,
         settled' \in Age, registry' = registry, cont' \in {"absent", "exited", "running"},
         Good(rec, settled) /\ Sound(task[p], settled)
           => Sound(t, settled')
  PROVE  Turn(p)
<1>1. Good(rec, settled) => Good(rec', settled')
  BY DEF Good
<1> QED
  BY <1>1 DEF Turn, Meters

(* A task at a point from which it writes nothing back.                    *)
Carries == {"ready", "reheal", "bind", "apply", "applyrm"}
LEMMA Empty ==
  ASSUME NEW t, t.pc \notin Carries
  PROVE  \A n : Sound(t, n)
  BY DEF Carries, Sound

LEMMA Ended ==
  ASSUME TypeOK, NEW p \in Proc, Finish(p)
  PROVE  Turns(p, Idle) /\ Idle \in Task /\ \A n : Sound(Idle, n)
  BY BecomeTurns, IdleSound, Constants DEF Finish

LEMMA StatusKept ==
  ASSUME TypeOK, NEW s \in Status, NEW p \in Proc,
         rec' = rec \/ SetStatus(s) \/ SetCapturedStatus(p, s)
  PROVE  rec' \in Record /\ rec'.start = rec.start /\ rec'.mark = rec.mark
  BY StatusFacts DEF SetStatus, SetCapturedStatus, TypeOK

(* A task that ends and changes a status at most.                          *)
LEMMA EndsPlain ==
  ASSUME TypeOK, NEW p \in Proc, NEW s \in Status, Finish(p),
         rec' = rec \/ SetStatus(s) \/ SetCapturedStatus(p, s),
         UNCHANGED <<meter, registry>>, cont' \in {"absent", "exited", "running"}
  PROVE  Turn(p)
  BY Ended, StatusKept, SameMeter

(* A task that goes to a point from which it writes nothing back.          *)
LEMMA GoesPlain ==
  ASSUME TypeOK, NEW p \in Proc, NEW l \in Pcs \ Carries, Goto(p, l),
         Course([task[p] EXCEPT !.pc = l]), UNCHANGED <<rec, meter, registry>>,
         cont' \in {"absent", "exited", "running"}
  PROVE  Turn(p)
<1> DEFINE t == [task[p] EXCEPT !.pc = l]
<1>1. t \in Task /\ t.pc = l
  BY GotoFacts
<1>2. Turns(p, t) /\ \A n : Sound(t, n)
  BY <1>1, BecomeTurns, Empty DEF Goto
<1>3. rec \in Record
  BY DEF TypeOK
<1> HIDE DEF t
<1> QED
  BY <1>1, <1>2, <1>3, SameMeter

(* A task that settles and goes to such a point.                           *)
LEMMA GoesSettling ==
  ASSUME TypeOK, NEW p \in Proc, NEW t \in Task, NEW s \in Status, Settle(s),
         Turns(p, t), registry' = registry, cont' \in {"absent", "exited", "running"},
         t.pc \notin Carries \/ (t.op = "apply" /\ t.pc = "applyrm" /\ t.obj = task[p].obj
                                  /\ task[p].op = "apply" /\ task[p].pc = "apply")
  PROVE  Turn(p)
<1>1. /\ rec' \in Record /\ used' \in Age /\ settled' \in Age
      /\ rec'.start = Off /\ rec'.mark = rec.mark
  BY SettleFacts
<1>2. Sound(task[p], settled) => Sound(t, settled')
  BY Empty DEF Carries, Sound, Good
<1> QED
  BY <1>1, <1>2, MeterOff

-----------------------------------------------------------------------------
(* Every turn of the model is such a turn: operations start.               *)

LEMMA BeginFacts ==
  ASSUME TypeOK, NEW p \in Proc, NEW o \in AllOps, NEW l \in Pcs, NEW keeps \in BOOLEAN,
         Begin(p, o, l, keeps), l = "launch" => o \in Writers,
         l \notin {"ready", "reheal", "bind", "applyrm"}, l = "apply" => o = "apply",
         l = "redo" => o = "restart", l = "discard" => o \in {"destroy", "remove", "reset"}
  PROVE  \E t \in Task : Turns(p, t) /\ \A n : Sound(t, n)
<1> DEFINE t == [Idle EXCEPT !.pc = l, !.op = o, !.held = keeps]
<1>1. t \in Task /\ t.pc = l /\ t.op = o /\ t.obj = NoRec
  BY Constants DEF Task
<1>2. Turns(p, t)
  <2>1. Course(t)
    BY <1>1 DEF Course
  <2>2. Become(p, t)
    BY DEF Begin
  <2> QED
    BY <1>1, <2>1, <2>2, BecomeTurns
<1>3. \A n : Sound(t, n)
  BY <1>1, Constants DEF Sound, Good
<1> HIDE DEF t
<1> QED
  BY <1>1, <1>2, <1>3

LEMMA StartConnectTurn ==
  ASSUME TypeOK, NEW p \in Proc, StartConnect(p)
  PROVE  Turn(p)
<1>1. PICK t \in Task : Turns(p, t) /\ \A n : Sound(t, n)
  <2>1. Begin(p, "connect", "launch", FALSE)
    BY DEF StartConnect
  <2> QED
    BY <2>1, BeginFacts DEF AllOps, Pcs, Writers
<1>2. UNCHANGED <<rec, meter, cont, registry>>
  BY DEF StartConnect
<1> QED
  BY <1>1, <1>2, SameMeter DEF TypeOK

LEMMA StartPlainTurn ==
  ASSUME TypeOK, NEW p \in Proc, StartPlain(p)
  PROVE  Turn(p)
<1>1. PICK o \in AllOps : \E l \in Pcs, keeps \in BOOLEAN :
        /\ Begin(p, o, l, keeps)
        /\ l \in {"inspect", "discard", "redo", "upgrade", "erase", "apply", "visit"}
        /\ l = "apply" => o = "apply"
        /\ l = "redo" => o = "restart"
        /\ l = "discard" => o = "reset"
  BY DEF StartPlain, AllOps, Pcs
<1>2. PICK l \in Pcs, keeps \in BOOLEAN :
        /\ Begin(p, o, l, keeps)
        /\ l \in {"inspect", "discard", "redo", "upgrade", "erase", "apply", "visit"}
        /\ l = "apply" => o = "apply"
        /\ l = "redo" => o = "restart"
        /\ l = "discard" => o = "reset"
  BY <1>1
<1>3. PICK t \in Task : Turns(p, t) /\ \A n : Sound(t, n)
  BY <1>2, BeginFacts
<1>4. UNCHANGED <<rec, meter, cont, registry>>
  BY DEF StartPlain
<1> QED
  BY <1>3, <1>4, SameMeter DEF TypeOK

LEMMA StartDestroyTurn ==
  ASSUME TypeOK, NEW p \in Proc, StartDestroy(p)
  PROVE  Turn(p)
<1>1. PICK o \in {"destroy", "remove"} : Begin(p, o, "discard", TRUE)
  BY DEF StartDestroy
<1>2. PICK t \in Task : Turns(p, t) /\ \A n : Sound(t, n)
  BY <1>1, BeginFacts DEF AllOps, Pcs
<1>3. Settle(rec.status) /\ rec.status \in Status /\ UNCHANGED <<cont, registry>>
  BY DEF StartDestroy, TypeOK, Record
<1>4. /\ rec' \in Record /\ used' \in Age /\ settled' \in Age
      /\ rec'.start = Off /\ rec'.mark = rec.mark
  BY <1>3, SettleFacts
<1> QED
  BY <1>2, <1>3, <1>4, MeterOff DEF TypeOK

LEMMA StartCheckTurn ==
  ASSUME TypeOK, NEW p \in Proc, StartCheck(p)
  PROVE  Turn(p)
<1>1. PICK t \in Task : Turns(p, t) /\ \A n : Sound(t, n)
  <2>1. Begin(p, "check", "checked", TRUE)
    BY DEF StartCheck
  <2> QED
    BY <2>1, BeginFacts DEF AllOps, Pcs
<1>2. Settle(rec.status) /\ rec.status \in Status /\ UNCHANGED <<cont, registry>>
  BY DEF StartCheck, TypeOK, Record
<1>3. /\ rec' \in Record /\ used' \in Age /\ settled' \in Age
      /\ rec'.start = Off /\ rec'.mark = rec.mark
  BY <1>2, SettleFacts
<1> QED
  BY <1>1, <1>2, <1>3, MeterOff DEF TypeOK

-----------------------------------------------------------------------------
(* ensureContainer and finalizeTenant.                                     *)

LEMMA LaunchTurn ==
  ASSUME TypeOK, NEW p \in Proc, Course(task[p]), Launch(p)
  PROVE  Turn(p)
<1>1. rec \in Record /\ task[p] \in Task /\ task[p].op \in Writers
  BY DEF TypeOK, Launch, At, Course
<1>2. CASE cont' = "running" /\ ~Finish(p)
  <2> DEFINE x == IF rec.start = Off THEN 0 ELSE rec.start
             t == [task[p] EXCEPT !.pc = "ready", !.held = Exists, !.obj = NoRec, !.start = x]
  <2>1. Become(p, t) /\ UNCHANGED <<rec, meter, registry>>
    BY <1>2 DEF Launch
  <2>2. x \in Age /\ Exists \in BOOLEAN
    BY <1>1, AgeFacts DEF Record, Exists
  <2> HIDE DEF x
  <2>3. t \in Task /\ t.pc = "ready" /\ t.op = task[p].op /\ t.obj = NoRec /\ t.start = x
    BY <1>1, <2>2, Constants DEF Task, Pcs
  <2>4. Course(t)
    BY <1>1, <2>3 DEF Course
  <2>5. Turns(p, t)
    BY <2>1, <2>3, <2>4, BecomeTurns
  <2> HIDE DEF t
  <2>6. Good(rec, settled) => Sound(t, settled)
    <3>1. settled \in Age /\ (Good(rec, settled) => x <= settled)
      BY AgeFacts DEF Good, x, TypeOK
    <3> QED
      BY <2>3, <3>1, Constants DEF Sound, Good
  <2> QED
    BY <1>1, <1>2, <2>1, <2>3, <2>5, <2>6, SameMeter
<1>3. CASE Finish(p)
  <2>1. UNCHANGED <<rec, meter, registry>> /\ cont' \in {"absent", "exited", "running"}
    BY <1>3 DEF Launch, TypeOK
  <2> QED
    BY <1>1, <1>3, <2>1, EndsPlain DEF Record
<1> QED
  BY <1>2, <1>3 DEF Launch

(* The port is bound next: the task carries what it carried.               *)
LEMMA BindNext ==
  ASSUME TypeOK, NEW p \in Proc, Course(task[p]), task[p].pc \in {"ready", "reheal"},
         Goto(p, "bind"), UNCHANGED <<rec, meter, registry>>,
         cont' \in {"absent", "exited", "running"}
  PROVE  Turn(p)
<1> DEFINE t == [task[p] EXCEPT !.pc = "bind"]
<1>1. "bind" \in Pcs
  BY DEF Pcs
<1>2. /\ t \in Task /\ t.pc = "bind" /\ t.op = task[p].op
      /\ t.start = task[p].start /\ t.obj = task[p].obj
  BY <1>1, GotoFacts
<1>3. Become(p, t)
  BY DEF Goto
<1> HIDE DEF t
<1>4. Course(t) /\ \A n : Sound(task[p], n) => Sound(t, n)
  BY <1>2 DEF Course, Sound
<1>5. Turns(p, t)
  BY <1>2, <1>3, <1>4, BecomeTurns
<1> QED
  BY <1>2, <1>4, <1>5, SameMeter DEF TypeOK

LEMMA ReadyTurn ==
  ASSUME TypeOK, NEW p \in Proc, Course(task[p]), Ready(p)
  PROVE  Turn(p)
  BY BindNext DEF Ready, At, TypeOK

LEMMA GiveUpTurn ==
  ASSUME TypeOK, NEW p \in Proc, GiveUp(p), UNCHANGED <<rec, meter, cont, registry>>
  PROVE  Turn(p)
<1>1. CASE Finish(p)
  BY <1>1, EndsPlain DEF TypeOK, Record
<1>2. CASE Goto(p, "rollback")
  <2>1. Course([task[p] EXCEPT !.pc = "rollback"]) /\ "rollback" \in Pcs \ Carries
    BY GotoFacts DEF Course, Pcs, Carries
  <2> QED
    BY <1>2, <2>1, GoesPlain DEF TypeOK
<1> QED
  BY <1>1, <1>2 DEF GiveUp

LEMMA NotReadyTurn ==
  ASSUME TypeOK, NEW p \in Proc, NotReady(p)
  PROVE  Turn(p)
  BY GiveUpTurn DEF NotReady

LEMMA QuarantineTurn ==
  ASSUME TypeOK, NEW p \in Proc, Course(task[p]), Quarantine(p)
  PROVE  Turn(p)
<1> DEFINE t == [task[p] EXCEPT !.pc = "reheal", !.held = FALSE, !.obj = Captured(p)]
           r == IF Exists THEN rec ELSE Unset
<1>1. /\ Replace(p, t, r) /\ task[p].pc = "ready" /\ task[p] \in Task
      /\ UNCHANGED <<meter, cont, registry>> /\ rec \in Record
  BY DEF Quarantine, At, TypeOK
<1>2. /\ Captured(p) \in Record
      /\ \A n : Good(rec, n) /\ Good(task[p].obj, n) => Good(Captured(p), n)
  BY CapturedFacts
<1>3. /\ t \in Task /\ t.pc = "reheal" /\ t.op = task[p].op /\ t.start = task[p].start
      /\ t.obj = Captured(p)
  BY <1>1, <1>2 DEF Task, Pcs
<1>4. r \in Record /\ r.start = rec.start /\ r.mark = rec.mark
  BY <1>1, Constants DEF Exists
<1> HIDE DEF t, r
<1>5. Course(t)
  BY <1>1, <1>3 DEF Course
<1>6. Turns(p, t) /\ rec' = r
  BY <1>1, <1>3, <1>5, ReplaceTurns
<1>7. Good(rec, settled) /\ Sound(task[p], settled)
        => Sound(t, settled)
  BY <1>1, <1>2, <1>3 DEF Sound
<1> QED
  BY <1>1, <1>3, <1>4, <1>6, <1>7, SameMeter DEF TypeOK

LEMMA RehealTurn ==
  ASSUME TypeOK, NEW p \in Proc, Course(task[p]), Reheal(p)
  PROVE  Turn(p)
<1>1. CASE cont' = "running" /\ Goto(p, "bind")
  BY <1>1, BindNext DEF Reheal, At
<1>2. CASE GiveUp(p) /\ UNCHANGED cont
  BY <1>2, GiveUpTurn DEF Reheal
<1> QED
  BY <1>1, <1>2 DEF Reheal

LEMMA RollbackTurn ==
  ASSUME TypeOK, NEW p \in Proc, Rollback(p)
  PROVE  Turn(p)
<1>1. Course([task[p] EXCEPT !.pc = "rolledback"]) /\ "rolledback" \in Pcs \ Carries
  BY GotoFacts DEF Course, Pcs, Carries
<1>2. UNCHANGED <<rec, meter, registry>> /\ cont' \in {"absent", "exited", "running"}
  BY DEF Rollback, TypeOK
<1> QED
  BY <1>1, <1>2, GoesPlain DEF Rollback

LEMMA RolledBackTurn ==
  ASSUME TypeOK, NEW p \in Proc, RolledBack(p)
  PROVE  Turn(p)
<1>1. rec \in Record /\ UNCHANGED <<meter, cont, registry>>
  BY DEF TypeOK, RolledBack
<1>2. CASE Exists
  <2> DEFINE r == [rec EXCEPT !.status = "destroyed", !.start = Off]
  <2>1. Replace(p, Idle, r)
    BY <1>2 DEF RolledBack
  <2>2. r \in Record /\ r.start = Off /\ r.mark = rec.mark
    BY <1>1, StartFacts DEF Status
  <2> HIDE DEF r
  <2>3. Turns(p, Idle) /\ rec' = r
    BY <2>1, ReplaceTurns, IdleSound, Constants
  <2> QED
    BY <1>1, <2>2, <2>3, MeterOff, IdleSound, Constants DEF TypeOK, meter
<1>3. CASE ~Exists
  BY <1>1, <1>3, EndsPlain DEF RolledBack, TypeOK, Record
<1> QED
  BY <1>2, <1>3

(* bindUserPort has bound the port: status running, and the startedAt that *)
(* the task carries.                                                       *)
LEMMA BoundTurn ==
  ASSUME TypeOK, NEW p \in Proc, Course(task[p]), Bound(p)
  PROVE  Turn(p)
<1>1. task[p] \in Task /\ rec \in Record /\ task[p].pc = "bind" /\ UNCHANGED <<meter, cont, registry>>
  BY DEF TypeOK, Bound, At
<1>2. CASE task[p].op = "restart"
  BY <1>1, <1>2, EndsPlain DEF Bound, TypeOK, Record
<1>3. CASE task[p].op # "restart"
  <2> DEFINE t == IF task[p].op = "apply" THEN [task[p] EXCEPT !.pc = "noted"] ELSE Idle
             x == task[p].start
             r == [Captured(p) EXCEPT !.status = "running", !.start = x]
  <2>1. Replace(p, t, r)
    BY <1>3 DEF Bound
  <2>2. "noted" \in Pcs /\ "noted" \notin Carries /\ Idle.pc \notin Carries
    BY Constants DEF Pcs, Carries
  <2>3. t \in Task /\ t.pc \in {"noted", "idle"}
    BY <2>2, GotoFacts, Constants
  <2>4. /\ Captured(p) \in Record
        /\ \A n : Good(rec, n) /\ Good(task[p].obj, n) => Good(Captured(p), n)
    BY CapturedFacts
  <2>5. x \in Age
    BY <1>1 DEF Task
  <2> HIDE DEF t, x
  <2>6. r \in Record /\ r.start = x /\ r.mark = Captured(p).mark
    <3>1. PICK c \in Record : c = Captured(p)
      BY <2>4
    <3>2. "running" \in Status /\ x \in Age \cup {Off}
      BY <2>5 DEF Status
    <3>3. r = [c EXCEPT !.status = "running", !.start = x]
      BY <3>1
    <3> HIDE DEF r
    <3> QED
      BY <3>1, <3>2, <3>3 DEF Record
  <2> HIDE DEF r
  <2>7. Course(t) /\ \A n : Sound(t, n)
    BY <2>3, Empty DEF Course, Carries
  <2>8. Turns(p, t) /\ rec' = r
    BY <2>1, <2>3, <2>7, ReplaceTurns
  <2>9. Good(rec, settled) /\ Sound(task[p], settled)
          => Good(r, settled)
    BY <1>1, <1>3, <2>4, <2>6 DEF Sound, Good, x
  <2>10. Meters(p, t)
    BY <1>1, <2>6, <2>7, <2>8, <2>9 DEF Meters, TypeOK, meter
  <2> QED
    BY <2>3, <2>8, <2>10 DEF Turn
<1> QED
  BY <1>2, <1>3

LEMMA NotBoundTurn ==
  ASSUME TypeOK, NEW p \in Proc, Course(task[p]), NotBound(p)
  PROVE  Turn(p)
<1>1. task[p] \in Task /\ rec \in Record /\ task[p].pc = "bind" /\ UNCHANGED <<meter, cont, registry>>
  BY DEF TypeOK, NotBound, At
<1>2. CASE task[p].op = "restart"
  BY <1>1, <1>2, EndsPlain DEF NotBound, TypeOK, Record
<1>3. CASE task[p].op # "restart"
  <2> DEFINE r == [Captured(p) EXCEPT !.status = "stopped"]
  <2>1. Replace(p, Idle, r)
    BY <1>3 DEF NotBound
  <2>2. /\ Captured(p) \in Record
        /\ \A n : Good(rec, n) /\ Good(task[p].obj, n) => Good(Captured(p), n)
    BY CapturedFacts
  <2>3. r \in Record /\ r.start = Captured(p).start /\ r.mark = Captured(p).mark
    BY <2>2, StatusFacts DEF Status
  <2> HIDE DEF r
  <2>4. Turns(p, Idle) /\ rec' = r
    BY <2>1, IdleSound, Constants, ReplaceTurns
  <2>5. Good(rec, settled) /\ Sound(task[p], settled)
          => Good(r, settled)
    BY <1>1, <1>3, <2>2, <2>3 DEF Sound, Good
  <2>6. Meters(p, Idle)
    BY <1>1, <2>3, <2>4, <2>5, IdleSound DEF Meters, TypeOK, meter
  <2> QED
    BY <2>4, <2>6, Constants DEF Turn
<1> QED
  BY <1>2, <1>3

LEMMA NoteVersionTurn ==
  ASSUME TypeOK, NEW p \in Proc, NoteVersion(p)
  PROVE  Turn(p)
<1> DEFINE r == IF Exists THEN rec ELSE Unset
<1>1. rec \in Record /\ UNCHANGED <<meter, cont, registry>> /\ Replace(p, Idle, r)
  BY DEF TypeOK, NoteVersion
<1>2. r \in Record /\ r.start = rec.start /\ r.mark = rec.mark
  BY <1>1, Constants DEF Exists
<1> HIDE DEF r
<1>3. Turns(p, Idle) /\ rec' = r
  BY <1>1, IdleSound, Constants, ReplaceTurns
<1> QED
  BY <1>1, <1>2, <1>3, IdleSound, Constants, SameMeter DEF TypeOK

-----------------------------------------------------------------------------
(* Stops.                                                                  *)

LEMMA InspectTurn ==
  ASSUME TypeOK, NEW p \in Proc, Inspect(p)
  PROVE  Turn(p)
<1> DEFINE s == IF cont = "running" THEN rec.status ELSE AlignedStatus
<1>1. rec \in Record /\ cont \in {"absent", "exited", "running"} /\ UNCHANGED <<cont, registry>>
  BY DEF TypeOK, Inspect
<1>2. s \in Status
  BY <1>1 DEF AlignedStatus, Record, Status
<1>3. PICK t \in Task : Turns(p, t) /\ \A n : Sound(t, n)
  <2>1. CASE cont = "running"
    <3> DEFINE t == [task[p] EXCEPT !.pc = "halt"]
    <3>1. "halt" \in Pcs /\ "halt" \notin Carries
      BY DEF Pcs, Carries
    <3>2. t \in Task /\ t.pc = "halt"
      BY <3>1, GotoFacts
    <3>3. Become(p, t)
      BY <2>1 DEF Inspect, Goto
    <3> HIDE DEF t
    <3>4. Course(t) /\ \A n : Sound(t, n)
      BY <3>1, <3>2, Empty DEF Course
    <3> QED
      BY <3>2, <3>3, <3>4, BecomeTurns
  <2>2. CASE cont # "running"
    BY <2>2, Ended DEF Inspect
  <2> QED
    BY <2>1, <2>2
<1>4. IF task[p].op = "stop" THEN Settle(s) ELSE rec' = [rec EXCEPT !.status = s] /\ UNCHANGED meter
  BY DEF Inspect
<1> HIDE DEF s
<1>5. CASE task[p].op = "stop"
  <2>1. /\ rec' \in Record /\ used' \in Age /\ settled' \in Age
        /\ rec'.start = Off /\ rec'.mark = rec.mark
    BY <1>2, <1>4, <1>5, SettleFacts
  <2> QED
    BY <1>1, <1>3, <2>1, MeterOff
<1>6. CASE task[p].op # "stop"
  BY <1>1, <1>2, <1>3, <1>4, <1>6, StatusFacts, SameMeter
<1> QED
  BY <1>5, <1>6

LEMMA HaltTurn ==
  ASSUME TypeOK, NEW p \in Proc, Halt(p)
  PROVE  Turn(p)
<1>1. Finish(p) /\ UNCHANGED registry /\ cont' \in {"absent", "exited", "running"}
  BY DEF Halt, TypeOK
<1>2. "stopped" \in Status
  BY DEF Status
<1>3. CASE Settle("stopped")
  <2>1. /\ rec' \in Record /\ used' \in Age /\ settled' \in Age
        /\ rec'.start = Off /\ rec'.mark = rec.mark
    BY <1>2, <1>3, SettleFacts
  <2> QED
    BY <1>1, <2>1, Ended, MeterOff
<1>4. CASE (rec' = rec \/ SetStatus("stopped")) /\ UNCHANGED meter
  BY <1>1, <1>2, <1>4, EndsPlain
<1> QED
  BY <1>3, <1>4 DEF Halt

LEMMA CheckedTurn ==
  ASSUME TypeOK, NEW p \in Proc, Checked(p) \/ IdleStop(p) \/ IdleRemove(p)
  PROVE  Turn(p)
<1>1. /\ Finish(p) /\ UNCHANGED <<meter, registry>> /\ cont' \in {"absent", "exited", "running"}
      /\ \/ rec' = rec \/ SetCapturedStatus(p, "stopped") \/ SetCapturedStatus(p, "destroyed")
  BY DEF Checked, IdleStop, IdleRemove, TypeOK
<1>2. "stopped" \in Status /\ "destroyed" \in Status
  BY DEF Status
<1> QED
  BY <1>1, <1>2, EndsPlain

LEMMA VisitTurn ==
  ASSUME TypeOK, NEW p \in Proc, Visit(p)
  PROVE  Turn(p)
<1>1. rec \in Record /\ UNCHANGED <<cont, registry>>
  BY DEF TypeOK, Visit
<1>2. /\ "idled" \in Pcs \ Carries /\ "idlerm" \in Pcs \ Carries
      /\ Course([task[p] EXCEPT !.pc = "idled"]) /\ Course([task[p] EXCEPT !.pc = "idlerm"])
  <2>1. "idled" \in Pcs \ Carries /\ "idlerm" \in Pcs \ Carries
    BY DEF Pcs, Carries
  <2>2. [task[p] EXCEPT !.pc = "idled"].pc = "idled" /\ [task[p] EXCEPT !.pc = "idlerm"].pc = "idlerm"
    BY <2>1, GotoFacts
  <2> QED
    BY <2>1, <2>2 DEF Course
<1>3. CASE Settle(rec.status) /\ Goto(p, "idled")
  <2> DEFINE t == [task[p] EXCEPT !.pc = "idled"]
  <2>1. t \in Task /\ t.pc = "idled" /\ rec.status \in Status
    BY <1>1, <1>2, GotoFacts DEF Record
  <2>2. Turns(p, t)
    BY <1>2, <1>3, <2>1, BecomeTurns DEF Goto
  <2> HIDE DEF t
  <2>3. t.pc \notin Carries
    BY <1>2, <2>1
  <2> QED
    BY <1>1, <1>3, <2>1, <2>2, <2>3, GoesSettling DEF TypeOK
<1>4. CASE Goto(p, "idlerm") /\ UNCHANGED <<rec, meter>>
  BY <1>1, <1>2, <1>4, GoesPlain DEF TypeOK
<1>5. CASE Finish(p) /\ UNCHANGED <<rec, meter>>
  BY <1>1, <1>5, EndsPlain DEF TypeOK, Record
<1> QED
  BY <1>3, <1>4, <1>5 DEF Visit

-----------------------------------------------------------------------------
(* Destroy, remove, reset, apply, restart, upgrade, erase.                 *)

LEMMA DiscardTurn ==
  ASSUME TypeOK, NEW p \in Proc, Course(task[p]), Discard(p)
  PROVE  Turn(p)
<1>1. /\ task[p].op \in {"destroy", "remove", "reset"} /\ UNCHANGED <<meter, registry>>
      /\ cont' \in {"absent", "exited", "running"} /\ rec \in Record
  BY DEF Discard, At, Course, Left, Exited, TypeOK
<1>2. CASE task[p].op = "destroy"
  BY <1>1, <1>2, EndsPlain DEF Discard, Status
<1>3. CASE task[p].op = "remove"
  <2>1. Replace(p, Idle, NoRec)
    BY <1>3 DEF Discard
  <2>2. Turns(p, Idle) /\ rec' = NoRec
    BY <2>1, ReplaceTurns, IdleSound, Constants
  <2>3. Meters(p, Idle)
    BY <1>1, <2>2, IdleSound, Constants DEF Meters, Good, TypeOK, meter
  <2> QED
    BY <2>2, <2>3, Constants DEF Turn
<1>4. CASE task[p].op = "reset"
  <2>1. "wipe" \in Pcs \ Carries
    BY DEF Pcs, Carries
  <2>2. Course([task[p] EXCEPT !.pc = "wipe"])
    BY <2>1, GotoFacts DEF Course
  <2> QED
    BY <1>1, <1>4, <2>1, <2>2, GoesPlain DEF Discard
<1> QED
  BY <1>1, <1>2, <1>3, <1>4

(* A task that asks for the container of a new object.                     *)
LEMMA Relaunched ==
  ASSUME NEW o \in Writers
  PROVE  LET t == [Idle EXCEPT !.pc = "launch", !.op = o] IN
         t \in Task /\ Course(t) /\ \A n : Sound(t, n)
<1> DEFINE t == [Idle EXCEPT !.pc = "launch", !.op = o]
<1>1. t \in Task /\ t.pc = "launch" /\ t.op = o
  BY Constants DEF Task, Pcs, AllOps, Writers
<1> HIDE DEF t
<1>2. Course(t) /\ \A n : Sound(t, n)
  BY <1>1 DEF Course, Sound
<1> QED
  BY <1>1, <1>2 DEF t

LEMMA WipeTurn ==
  ASSUME TypeOK, NEW p \in Proc, Wipe(p)
  PROVE  Turn(p)
<1> DEFINE t == [Idle EXCEPT !.pc = "launch", !.op = "reset"]
<1>1. t \in Task /\ Course(t) /\ \A n : Sound(t, n)
  BY Relaunched DEF Writers
<1>2. Replace(p, t, NoRec) /\ used' = 0 /\ settled' \in {settled, 0} /\ UNCHANGED <<cont, registry>>
  BY DEF Wipe
<1> HIDE DEF t
<1>3. Turns(p, t) /\ rec' = NoRec
  BY <1>1, <1>2, ReplaceTurns
<1>4. Meters(p, t)
  BY <1>1, <1>2, <1>3, Constants, AgeFacts DEF Meters, Good, TypeOK
<1> QED
  BY <1>1, <1>3, <1>4 DEF Turn

LEMMA ApplyTurn ==
  ASSUME TypeOK, NEW p \in Proc, Course(task[p]), Apply(p)
  PROVE  Turn(p)
<1>1. /\ task[p] \in Task /\ task[p].pc = "apply" /\ task[p].op = "apply"
      /\ rec \in Record /\ UNCHANGED <<cont, registry>>
  BY DEF TypeOK, Apply, At, Course
<1>2. CASE Settle(rec.status) /\ Goto(p, "applyrm")
  <2> DEFINE t == [task[p] EXCEPT !.pc = "applyrm"]
  <2>1. "applyrm" \in Pcs /\ rec.status \in Status
    BY <1>1 DEF Pcs, Record
  <2>2. t \in Task /\ t.pc = "applyrm" /\ t.op = task[p].op /\ t.obj = task[p].obj
    BY <2>1, GotoFacts
  <2>3. Become(p, t)
    BY <1>2 DEF Goto
  <2> HIDE DEF t
  <2>4. Course(t)
    BY <1>1, <2>2 DEF Course
  <2>5. Turns(p, t)
    BY <2>2, <2>3, <2>4, BecomeTurns
  <2> QED
    BY <1>1, <1>2, <2>1, <2>2, <2>5, GoesSettling DEF TypeOK
<1>3. CASE Finish(p) /\ UNCHANGED <<rec, meter>>
  BY <1>1, <1>3, EndsPlain DEF TypeOK, Record
<1>4. CASE Replace(p, Idle, Captured(p)) /\ UNCHANGED meter
  <2>1. Turns(p, Idle) /\ rec' = Captured(p)
    BY <1>4, ReplaceTurns, IdleSound, Constants
  <2>2. /\ Captured(p) \in Record
        /\ \A n : Good(rec, n) /\ Good(task[p].obj, n) => Good(Captured(p), n)
    BY CapturedFacts
  <2>3. Good(rec, settled) /\ Sound(task[p], settled)
          => Good(Captured(p), settled)
    BY <1>1, <2>2 DEF Sound
  <2>4. Meters(p, Idle)
    BY <1>1, <1>4, <2>1, <2>2, <2>3, IdleSound DEF Meters, TypeOK, meter
  <2> QED
    BY <2>1, <2>4, Constants DEF Turn
<1> QED
  BY <1>2, <1>3, <1>4 DEF Apply

LEMMA ApplyRemoveTurn ==
  ASSUME TypeOK, NEW p \in Proc, Course(task[p]), ApplyRemove(p)
  PROVE  Turn(p)
<1>1. /\ task[p] \in Task /\ task[p].pc = "applyrm" /\ task[p].op = "apply"
      /\ rec \in Record /\ UNCHANGED <<meter, registry>>
      /\ cont' \in {"absent", "exited", "running"}
  BY DEF TypeOK, ApplyRemove, At, Course, Exited
<1>2. CASE Finish(p) /\ UNCHANGED rec
  BY <1>1, <1>2, EndsPlain DEF Record
<1>3. CASE ~(Finish(p) /\ UNCHANGED rec)
  <2> DEFINE r == [Captured(p) EXCEPT !.status = "stopped", !.start = Off]
             u == [Idle EXCEPT !.pc = "launch", !.op = "apply"]
  <2>1. Replace(p, IF Allowed(r) THEN u ELSE Idle, r)
    BY <1>3 DEF ApplyRemove
  <2>2. u \in Task /\ Course(u) /\ \A n : Sound(u, n)
    BY Relaunched DEF Writers
  <2>3. r \in Record /\ r.start = Off /\ r.mark = Captured(p).mark
    BY CapturedFacts, StartFacts DEF Status
  <2> HIDE DEF r, u
  <2>4. PICK t \in {u, Idle} : Replace(p, t, r)
    BY <2>1
  <2>5. t \in Task /\ Course(t) /\ \A n : Sound(t, n)
    BY <2>2, IdleSound, Constants
  <2>6. Turns(p, t) /\ rec' = r
    BY <2>4, <2>5, ReplaceTurns
  <2>7. Good(rec, settled) /\ Sound(task[p], settled)
          => Good(r, settled)
    <3>1. Captured(p) = rec \/ Captured(p) = task[p].obj
      BY DEF Captured
    <3> QED
      BY <1>1, <2>3, <3>1 DEF Sound, Good
  <2>8. Meters(p, t)
    BY <1>1, <2>3, <2>5, <2>6, <2>7 DEF Meters, TypeOK, meter
  <2> QED
    BY <2>5, <2>6, <2>8 DEF Turn
<1> QED
  BY <1>2, <1>3

LEMMA RedoTurn ==
  ASSUME TypeOK, NEW p \in Proc, Course(task[p]), Redo(p)
  PROVE  Turn(p)
<1>1. /\ task[p] \in Task /\ task[p].op = "restart" /\ rec \in Record
      /\ UNCHANGED <<meter, registry>> /\ cont' \in {"absent", "exited", "running"}
  BY DEF TypeOK, Redo, At, Course
<1>2. CASE Become(p, [task[p] EXCEPT !.pc = "launch", !.op = "connect"]) /\ UNCHANGED rec
  <2> DEFINE t == [task[p] EXCEPT !.pc = "launch", !.op = "connect"]
  <2>1. t \in Task /\ t.pc = "launch" /\ t.op = "connect"
    BY <1>1 DEF Task, Pcs, AllOps
  <2> HIDE DEF t
  <2>2. Course(t) /\ \A n : Sound(t, n)
    BY <2>1 DEF Course, Sound, Writers
  <2>3. Turns(p, t)
    BY <1>2, <2>1, <2>2, BecomeTurns DEF t
  <2> QED
    BY <1>1, <1>2, <2>1, <2>2, <2>3, SameMeter
<1>3. CASE Finish(p) /\ UNCHANGED rec
  BY <1>1, <1>3, EndsPlain DEF Record
<1>4. CASE Replace(p, [task[p] EXCEPT !.pc = "ready"], [rec EXCEPT !.status = "running"])
  <2> DEFINE t == [task[p] EXCEPT !.pc = "ready"]
             r == [rec EXCEPT !.status = "running"]
  <2>1. t \in Task /\ t.pc = "ready" /\ t.op = "restart"
    BY <1>1 DEF Task, Pcs
  <2>2. r \in Record /\ r.start = rec.start /\ r.mark = rec.mark
    BY <1>1, StatusFacts DEF Status
  <2>3. Replace(p, t, r)
    BY <1>4
  <2> HIDE DEF t, r
  <2>4. Course(t) /\ \A n : Sound(t, n)
    BY <2>1 DEF Course, Sound
  <2>5. Turns(p, t) /\ rec' = r
    BY <2>1, <2>3, <2>4, ReplaceTurns
  <2> QED
    BY <1>1, <2>1, <2>2, <2>4, <2>5, SameMeter
<1> QED
  BY <1>2, <1>3, <1>4 DEF Redo

LEMMA UpgradeTurn ==
  ASSUME TypeOK, NEW p \in Proc, Upgrade(p)
  PROVE  Turn(p)
<1>1. rec \in Record /\ UNCHANGED <<cont, registry>>
  BY DEF TypeOK, Upgrade
<1>2. CASE cont = "absent"
  <2> DEFINE r == IF Exists THEN rec ELSE Unset
  <2>1. Replace(p, Idle, r) /\ UNCHANGED meter
    BY <1>2 DEF Upgrade
  <2>2. r \in Record /\ r.start = rec.start /\ r.mark = rec.mark
    BY <1>1, Constants DEF Exists
  <2> HIDE DEF r
  <2>3. Turns(p, Idle) /\ rec' = r
    BY <2>1, IdleSound, Constants, ReplaceTurns
  <2> QED
    BY <1>1, <2>1, <2>2, <2>3, IdleSound, Constants, SameMeter DEF TypeOK
<1>3. CASE cont # "absent"
  <2> DEFINE t == [task[p] EXCEPT !.pc = "resize"]
  <2>1. "resize" \in Pcs /\ "resize" \notin Carries
    BY DEF Pcs, Carries
  <2>2. t \in Task /\ t.pc = "resize"
    BY <2>1, GotoFacts
  <2>3. Goto(p, "resize") /\ (Settle(rec.status) \/ UNCHANGED <<rec, meter>>)
    BY <1>3 DEF Upgrade
  <2>4. Become(p, t)
    BY <2>3 DEF Goto
  <2> HIDE DEF t
  <2>5. Course(t) /\ (\A n : Sound(t, n)) /\ t.pc \notin Carries
    BY <2>1, <2>2, Empty DEF Course
  <2>6. Turns(p, t)
    BY <2>2, <2>4, <2>5, BecomeTurns
  <2>7. CASE Settle(rec.status)
    BY <1>1, <2>2, <2>5, <2>6, <2>7, GoesSettling DEF TypeOK, Record
  <2>8. CASE UNCHANGED <<rec, meter>>
    BY <1>1, <2>2, <2>5, <2>6, <2>8, SameMeter DEF TypeOK
  <2> QED
    BY <2>3, <2>7, <2>8
<1> QED
  BY <1>2, <1>3

LEMMA ResizeTurn ==
  ASSUME TypeOK, NEW p \in Proc, Resize(p)
  PROVE  Turn(p)
<1>1. /\ rec \in Record /\ UNCHANGED <<meter, registry>>
      /\ cont' \in {"absent", "exited", "running"}
  BY DEF TypeOK, Resize, Exited
<1>2. CASE Finish(p) /\ UNCHANGED rec
  BY <1>1, <1>2, EndsPlain DEF Record
<1>3. CASE ~(Finish(p) /\ UNCHANGED rec)
  <2> DEFINE r == [rec EXCEPT !.status = "running", !.start = 0]
  <2>1. Replace(p, Idle, r)
    BY <1>3 DEF Resize
  <2>2. r \in Record /\ r.start = 0 /\ r.mark = rec.mark
    <3>1. 0 \in Age \cup {Off} /\ "running" \in Status
      BY AgeFacts DEF Status
    <3> QED
      BY <1>1, <3>1, StartFacts, ZenonT(30)
  <2> HIDE DEF r
  <2>3. Turns(p, Idle) /\ rec' = r
    BY <2>1, IdleSound, Constants, ReplaceTurns
  <2>4. 0 <= settled
    BY AgeFacts DEF TypeOK
  <2>5. Meters(p, Idle)
    BY <1>1, <2>2, <2>3, <2>4, IdleSound DEF Meters, Good, TypeOK, meter
  <2> QED
    BY <2>3, <2>5, Constants DEF Turn
<1> QED
  BY <1>2, <1>3

LEMMA EraseTurn ==
  ASSUME TypeOK, NEW p \in Proc, Erase(p)
  PROVE  Turn(p)
<1>1. /\ Finish(p) /\ UNCHANGED <<meter, registry>> /\ (rec' = rec \/ SetStatus("destroyed"))
      /\ cont' \in {"absent", "exited", "running"}
  BY DEF Erase, Exited, TypeOK
<1> QED
  BY <1>1, EndsPlain DEF Status

(* Every step of a task.                                                   *)
LEMMA EveryTurn ==
  ASSUME TypeOK, NEW p \in Proc, Course(task[p]), Start(p) \/ Resume(p)
  PROVE  Turn(p)
<1>1. CASE Start(p)
  BY <1>1, StartConnectTurn, StartPlainTurn, StartDestroyTurn, StartCheckTurn DEF Start
<1>2. CASE Finalize(p)
  BY <1>2, LaunchTurn, ReadyTurn, NotReadyTurn, QuarantineTurn, RehealTurn, RollbackTurn,
     RolledBackTurn, BoundTurn, NotBoundTurn, NoteVersionTurn DEF Finalize
<1>3. CASE StopStep(p)
  BY <1>3, InspectTurn, HaltTurn, CheckedTurn, VisitTurn DEF StopStep
<1>4. CASE Rebuild(p)
  BY <1>4, DiscardTurn, WipeTurn, ApplyTurn, ApplyRemoveTurn, RedoTurn, UpgradeTurn,
     ResizeTurn, EraseTurn DEF Rebuild
<1> QED
  BY <1>1, <1>2, <1>3, <1>4 DEF Resume

-----------------------------------------------------------------------------
(* The decisions, the clock and the containers.                            *)

(* A minute later: what a task carries is older by as much as what was     *)
(* settled.                                                                *)
LEMMA TickTask ==
  ASSUME TypeOK, Tick, NEW p \in Proc
  PROVE  /\ task'[p] \in Task /\ task'[p].pc = task[p].pc /\ task'[p].op = task[p].op
         /\ Sound(task[p], settled) => Sound(task'[p], settled')
<1> DEFINE x == IF /\ task[p].pc \in {"ready", "reheal", "bind"}
                   /\ task[p].op # "restart" THEN Sum(task[p].start, 1) ELSE task[p].start
           o == Older(task[p].obj.start)
           t == [task[p] EXCEPT !.start = x, !.obj.start = o]
<1>1. task[p] \in Task /\ settled \in Age /\ settled' = Sum(settled, 1) /\ registry' = registry
  BY DEF TypeOK, Tick
<1>2. task'[p] = t
  BY DEF Tick
<1>3. /\ task[p].start \in Age /\ task[p].obj \in Record
      /\ task[p].obj.start \in Age \cup {Off}
  BY <1>1 DEF Task, Record
<1>4. \A y \in Age : /\ Sum(y, 1) \in Age
                     /\ \A n \in Age : y <= n => Sum(y, 1) <= Sum(n, 1)
  BY TimeAssumption DEF Sum, Age
<1>5. x \in Age /\ o \in Age \cup {Off}
  BY <1>3, <1>4, OlderFacts
<1>6. (task[p].obj.start # Off => task[p].obj.start <= settled) => (o # Off => o <= settled')
  BY <1>1, <1>3, OlderFacts
<1>7. /\ t.pc = task[p].pc /\ t.op = task[p].op /\ t.start = x /\ t.held = task[p].held
      /\ t.obj = [task[p].obj EXCEPT !.start = o]
  BY <1>1 DEF Task
<1>8. /\ [task[p].obj EXCEPT !.start = o] \in Record
      /\ [task[p].obj EXCEPT !.start = o].start = o
      /\ [task[p].obj EXCEPT !.start = o].mark = task[p].obj.mark
  BY <1>3, <1>5 DEF Record
<1>9. t \in Task
  BY <1>1, <1>5, <1>8 DEF Task
<1>10. /\ task[p].pc \in {"ready", "reheal", "bind"} /\ task[p].op # "restart"
          /\ task[p].start <= settled
       => x <= settled'
  BY <1>1, <1>3, <1>4
<1> HIDE DEF x, o, t
<1>11. Sound(task[p], settled) => Sound(t, settled')
  BY <1>1, <1>6, <1>7, <1>8, <1>10 DEF Sound, Good
<1> QED
  BY <1>2, <1>7, <1>9, <1>11

LEMMA TickRecord ==
  ASSUME TypeOK, Tick
  PROVE  /\ rec' \in Record /\ used' \in Age /\ settled' \in Age
         /\ Good(rec, settled) => Good(rec', settled')
<1> DEFINE o == Older(rec.start)
<1>1. rec \in Record /\ rec.start \in Age \cup {Off} /\ settled \in Age
  BY DEF TypeOK, Record
<1>2. /\ rec' = [rec EXCEPT !.start = o] /\ settled' = Sum(settled, 1)
      /\ UNCHANGED <<used, registry>>
  BY DEF Tick
<1>3. o \in Age \cup {Off} /\ ((rec.start # Off => rec.start <= settled) => (o # Off => o <= settled'))
  BY <1>1, <1>2, OlderFacts
<1>4. Sum(settled, 1) \in Age
  BY <1>1, TimeAssumption DEF Sum, Age
<1> HIDE DEF o
<1>5. rec' \in Record /\ rec'.start = o /\ rec'.mark = rec.mark
  BY <1>1, <1>2, <1>3 DEF Record
<1> QED
  BY <1>2, <1>3, <1>4, <1>5 DEF Good, TypeOK

(* Only the decisions touch the registry and the history of the last one.  *)
LEMMA DecisionsOnly ==
  ASSUME \/ \E p \in Proc : Start(p) \/ Resume(p)
         \/ Tick \/ Midnight \/ ContainerExit \/ UNCHANGED vars
  PROVE  registry' = registry /\ outdated' = outdated
<1>1. ASSUME NEW p \in Proc, Start(p)
      PROVE  registry' = registry /\ outdated' = outdated
  BY <1>1 DEF Start, StartConnect, StartPlain, StartDestroy, StartCheck
<1>2. ASSUME NEW p \in Proc, Finalize(p)
      PROVE  registry' = registry /\ outdated' = outdated
  BY <1>2 DEF Finalize, Launch, Ready, NotReady, Quarantine, Reheal, Rollback,
     RolledBack, Bound, NotBound, NoteVersion
<1>3. ASSUME NEW p \in Proc, StopStep(p)
      PROVE  registry' = registry /\ outdated' = outdated
  BY <1>3 DEF StopStep, Inspect, Halt, Checked, Visit, IdleStop, IdleRemove
<1>4. ASSUME NEW p \in Proc, Rebuild(p)
      PROVE  registry' = registry /\ outdated' = outdated
  BY <1>4 DEF Rebuild, Discard, Wipe, Apply, ApplyRemove, Redo, Upgrade, Resize, Erase
<1>5. CASE Tick \/ Midnight \/ ContainerExit \/ UNCHANGED vars
  BY <1>5 DEF Tick, Midnight, ContainerExit, vars
<1> QED
  BY <1>1, <1>2, <1>3, <1>4, <1>5 DEF Resume

LEMMA TypesInit == Init => Types
<1> SUFFICES ASSUME Init PROVE Types
  OBVIOUS
<1>1. TypeOK
  BY AgeFacts, Constants DEF Init, TypeOK
<1>2. \A p \in Proc : Course(task[p])
  BY IdleSound DEF Init
<1> QED
  BY <1>1, <1>2 DEF Types

LEMMA TypesNext == Types /\ [Next]_vars => Types'
<1> SUFFICES ASSUME Types, [Next]_vars PROVE Types'
  OBVIOUS
<1>1. TypeOK /\ \A p \in Proc : Course(task[p])
  BY DEF Types
<1>2. ASSUME NEW p \in Proc, Start(p) \/ Resume(p)
      PROVE  Types'
  <2>1. PICK t \in Task : Turns(p, t) /\ Meters(p, t)
    BY <1>1, <1>2, EveryTurn DEF Turn
  <2>2. TypeOK'
    BY <1>1, <1>2, <2>1, DecisionsOnly DEF TypeOK, Turns, Meters
  <2>3. \A q \in Proc : Course(task'[q])
    BY <1>1, <2>1 DEF Turns, Course
  <2> QED
    BY <2>2, <2>3 DEF Types
<1>3. CASE Tick
  <2>1. task' \in [Proc -> Task]
    <3>1. \A p \in Proc : task'[p] \in Task
      BY <1>1, <1>3, TickTask
    <3>2. task' = [p \in Proc |-> task'[p]]
      BY <1>3 DEF Tick
    <3> QED
      BY <3>1, <3>2
  <2>2. \A p \in Proc : Course(task'[p])
    BY <1>1, <1>3, TickTask DEF Course
  <2>3. cont' = cont /\ registry' = registry /\ outdated' = outdated
    BY <1>3 DEF Tick
  <2> QED
    BY <1>1, <1>3, <2>1, <2>2, <2>3, TickRecord DEF Types, TypeOK
<1>4. CASE Approve \/ Revoke
  <2>1. /\ rec' \in Record /\ registry' \in {"approved", "revoked"}
        /\ UNCHANGED <<used, settled, cont, task>> /\ outdated' \in BOOLEAN
    BY <1>1, <1>4 DEF Approve, Revoke, Outdated, TypeOK, Record, meter
  <2> QED
    BY <1>1, <2>1 DEF Types, TypeOK
<1>5. CASE Midnight
  BY <1>1, <1>5, AgeFacts DEF Midnight, Types, TypeOK
<1>6. CASE ContainerExit
  BY <1>1, <1>6 DEF ContainerExit, Types, TypeOK, meter
<1>7. CASE UNCHANGED vars
  BY <1>1, <1>7 DEF vars, Types, TypeOK
<1> QED
  BY <1>2, <1>3, <1>4, <1>5, <1>6, <1>7 DEF Next

(* The types hold of every interleaving of the operations, and so of those *)
(* that an instance checks.                                                *)
THEOREM TypeCorrect == (Spec => []TypeOK) /\ (MCSpec => []TypeOK)
<1>1. Types => TypeOK
  BY DEF Types
<1>2. Spec => []TypeOK
  BY <1>1, TypesInit, TypesNext, PTL DEF Spec
<1>3. [MCNext]_vars => [Next]_vars
  BY DEF MCNext
<1>4. MCSpec => []TypeOK
  BY <1>1, <1>3, TypesInit, TypesNext, PTL DEF MCSpec
<1> QED
  BY <1>2, <1>4

-----------------------------------------------------------------------------
(* The operations that write back overlap no other.                        *)

WritersAlone == Writers \subseteq Alone
IInv == Types /\ Billing /\ ~Overlap

LEMMA BillingInit == Init => Billing /\ ~Overlap
<1> SUFFICES ASSUME Init PROVE Billing /\ ~Overlap
  OBVIOUS
<1>1. Good(rec, settled)
  BY Constants DEF Init, Good
<1>2. \A p \in Proc : task[p] = Idle
  BY DEF Init
<1>3. ~Overlap
  BY <1>2, Constants DEF Overlap
<1> QED
  BY <1>1, <1>2, <1>3, IdleSound DEF Billing

(* A task beside one that is under way writes nothing back.                *)
LEMMA Beside ==
  ASSUME NEW t, Course(t), t.op \notin Writers
  PROVE  \A n : Sound(t, n)
  BY DEF Course, Sound, Writers

(* A task that takes a step is under way before it or after it.            *)
LEMMA UnderWay ==
  ASSUME TypeOK, NEW p \in Proc, Start(p) \/ Resume(p)
  PROVE  task[p].pc # "idle" \/ task'[p].pc # "idle"
<1>1. ASSUME NEW o, NEW l, NEW keeps, Begin(p, o, l, keeps), l # "idle"
      PROVE  task'[p].pc # "idle"
  <2>1. task'[p] = [Idle EXCEPT !.pc = l, !.op = o, !.held = keeps]
    BY <1>1 DEF Begin, Become, TypeOK
  <2> QED
    BY <1>1, <2>1 DEF Idle
<1>2. CASE Start(p)
  BY <1>1, <1>2 DEF Start, StartConnect, StartPlain, StartDestroy, StartCheck
<1>3. CASE Finalize(p)
  BY <1>3 DEF Finalize, At, Launch, Ready, NotReady, Quarantine, Reheal, Rollback,
     RolledBack, Bound, NotBound, NoteVersion
<1>4. CASE StopStep(p)
  BY <1>4 DEF StopStep, At, Inspect, Halt, Checked, Visit, IdleStop, IdleRemove
<1>5. CASE Rebuild(p)
  BY <1>5 DEF Rebuild, At, Discard, Wipe, Apply, ApplyRemove, Redo, Upgrade, Resize, Erase
<1> QED
  BY <1>2, <1>3, <1>4, <1>5 DEF Resume

LEMMA BillingNext ==
  ASSUME WritersAlone, IInv, [MCNext]_vars
  PROVE  Billing' /\ ~Overlap'
<1>1. TypeOK /\ (\A p \in Proc : Course(task[p])) /\ ~Overlap
  BY DEF IInv, Types
<1>2. Good(rec, settled) /\ \A p \in Proc : Sound(task[p], settled)
  BY DEF IInv, Billing
<1>3. ~Overlap'
  <2>1. CASE UNCHANGED vars
    BY <1>1, <2>1 DEF vars, Overlap
  <2> QED
    BY <2>1 DEF MCNext
<1>4. Types'
  BY TypesNext DEF IInv, MCNext
<1>5. ASSUME NEW p \in Proc, Start(p) \/ Resume(p)
      PROVE  Billing'
  <2>1. PICK t \in Task : Turns(p, t) /\ Meters(p, t)
    BY <1>1, <1>5, EveryTurn DEF Turn
  <2>2. Good(rec', settled') /\ Sound(task'[p], settled')
    BY <1>2, <2>1 DEF Turns, Meters
  <2>3. ASSUME NEW q \in Proc, q # p
        PROVE  Sound(task'[q], settled')
    <3>1. task'[q].op = task[q].op /\ Course(task'[q])
      BY <1>4, <2>1, <2>3 DEF Turns, Types
    <3>2. task[p].pc # "idle" \/ task'[p].pc # "idle"
      BY <1>1, <1>5, UnderWay
    <3>3. task'[q].op \notin Alone
      BY <1>1, <1>3, <2>3, <3>1, <3>2 DEF Overlap
    <3> QED
      BY <3>1, <3>3, Beside DEF WritersAlone
  <2> QED
    BY <2>2, <2>3 DEF Billing
<1>6. CASE Tick
  BY <1>1, <1>2, <1>3, <1>6, TickTask, TickRecord DEF Billing
<1>7. CASE Approve \/ Revoke
  <2>1. settled' = settled /\ task' = task
    BY <1>7 DEF Approve, Revoke, meter
  <2>2. rec'.start = rec.start
    <3>1. rec' = rec \/ \E m \in BOOLEAN : rec' = [rec EXCEPT !.mark = m]
      BY <1>7 DEF Approve, Revoke
    <3> QED
      BY <1>1, <3>1 DEF TypeOK, Record
  <2>3. Good(rec', settled')
    BY <1>2, <2>1, <2>2 DEF Good
  <2>4. \A p \in Proc : Sound(task'[p], settled')
    BY <1>2, <2>1
  <2> QED
    BY <1>3, <2>3, <2>4 DEF Billing
<1>8. CASE Midnight \/ ContainerExit \/ UNCHANGED vars
  BY <1>2, <1>3, <1>8 DEF Midnight, ContainerExit, vars, meter, Billing
<1> QED
  BY <1>3, <1>5, <1>6, <1>7, <1>8 DEF MCNext, Next

LEMMA Inductive ==
  ASSUME WritersAlone
  PROVE  MCSpec => []IInv
<1>1. Init => IInv
  BY TypesInit, BillingInit DEF IInv
<1>2. IInv /\ [MCNext]_vars => IInv'
  BY TypesNext, BillingNext DEF IInv, MCNext
<1> QED
  BY <1>1, <1>2, PTL DEF MCSpec

(* No minute is billed twice (user.service.js:758), when the operations    *)
(* that write a meter back after an await overlap no other: the segment the*)
(* meter counts began after the last settlement.                           *)
THEOREM NoMinuteTwice ==
  ASSUME {"connect", "reset", "apply"} \subseteq Alone
  PROVE  MCSpec => []BilledOnce
<1>1. IInv => BilledOnce
  BY DEF IInv, Billing, Good, BilledOnce
<1> QED
  BY <1>1, Inductive, PTL DEF WritersAlone, Writers

-----------------------------------------------------------------------------
(* A revoked tenant is limited again.                                      *)

(* What a task will write back of an object that was replaced is unmarked. *)
Bare(t) == Carrying(t) /\ ~t.held => ~t.obj.mark
Unmarked == ~rec.mark /\ \A p \in Proc : Bare(task[p])
Marks == registry = "revoked" /\ ~outdated => Unmarked

(* A turn that gives the record no mark and leaves the others alone.       *)
LEMMA PlainMarks ==
  ASSUME TypeOK, Unmarked, NEW p \in Proc, NEW t, Become(p, t), Bare(t), ~rec'.mark
  PROVE  Unmarked'
<1>1. \A q \in Proc : Bare(task'[q])
  BY DEF TypeOK, Become, Unmarked
<1> QED
  BY <1>1 DEF Unmarked

(* The others are left with the record that was replaced, which is unmarked*)
LEMMA ReplaceMarks ==
  ASSUME TypeOK, Unmarked, NEW p \in Proc, NEW t, NEW r, Replace(p, t, r), Bare(t), ~r.mark
  PROVE  Unmarked'
<1>1. ASSUME NEW q \in Proc
      PROVE  /\ [task[q] EXCEPT !.held = FALSE, !.obj = rec].obj = rec
             /\ Bare(task[q])
  BY DEF TypeOK, Task, Unmarked
<1>2. /\ rec' = r
      /\ task' = [q \in Proc |->
                IF q = p THEN t
                ELSE IF task[q].held THEN [task[q] EXCEPT !.held = FALSE, !.obj = rec]
                ELSE task[q]]
  BY DEF Replace
<1>3. ASSUME NEW q \in Proc
      PROVE  Bare(task'[q])
  <2>1. CASE q = p
    BY <1>2, <2>1
  <2>2. CASE q # p /\ task[q].held
    <3>1. task'[q] = [task[q] EXCEPT !.held = FALSE, !.obj = rec]
      BY <1>2, <2>2
    <3>2. task'[q].obj = rec /\ ~rec.mark
      BY <1>1, <3>1 DEF Unmarked
    <3> QED
      BY <3>2 DEF Bare
  <2>3. CASE q # p /\ ~task[q].held
    BY <1>1, <1>2, <2>3
  <2> QED
    BY <2>1, <2>2, <2>3
<1> QED
  BY <1>2, <1>3 DEF Unmarked

LEMMA IdleBare == Bare(Idle)
  BY Constants DEF Bare, Carrying

(* The points from which a captured record is written back.                *)
LEMMA ElsewhereBare ==
  ASSUME NEW t, t.pc \notin Carries \/ t.op = "restart"
  PROVE  Bare(t)
  BY DEF Bare, Carrying, Carries

LEMMA CapturedBare ==
  ASSUME TypeOK, Unmarked, NEW p \in Proc, Carrying(task[p])
  PROVE  Captured(p) \in Record /\ ~Captured(p).mark
  BY CapturedFacts DEF Captured, Unmarked, Bare

(* A task goes on, and what it carries stays.                              *)
LEMMA GotoBare ==
  ASSUME TypeOK, Unmarked, NEW p \in Proc, NEW l \in Pcs,
         l \notin Carries \/ Carrying(task[p])
  PROVE  Bare([task[p] EXCEPT !.pc = l])
<1> DEFINE t == [task[p] EXCEPT !.pc = l]
<1>1. t.pc = l /\ t.op = task[p].op /\ t.obj = task[p].obj /\ t.held = task[p].held
  BY DEF TypeOK, Task
<1> SUFFICES Bare(t)
  OBVIOUS
<1> HIDE DEF t
<1>2. Bare(task[p])
  BY DEF Unmarked
<1>3. CASE l \notin Carries
  BY <1>1, <1>3, ElsewhereBare
<1>4. CASE Carrying(task[p])
  BY <1>1, <1>2, <1>4 DEF Bare
<1> QED
  BY <1>3, <1>4

LEMMA EndsMarks ==
  ASSUME TypeOK, Unmarked, NEW p \in Proc, NEW s \in Status, Finish(p),
         rec' = rec \/ SetStatus(s) \/ SetCapturedStatus(p, s)
  PROVE  Unmarked'
<1>1. ~rec'.mark
  BY StatusKept DEF Unmarked
<1> QED
  BY <1>1, IdleBare, PlainMarks DEF Finish

LEMMA BeginMarks ==
  ASSUME TypeOK, Unmarked, NEW p \in Proc, NEW o, NEW l, NEW keeps, Begin(p, o, l, keeps),
         ~rec'.mark
  PROVE  Unmarked'
<1> DEFINE t == [Idle EXCEPT !.pc = l, !.op = o, !.held = keeps]
<1>1. Become(p, t)
  BY DEF Begin
<1>2. t.obj = NoRec
  BY DEF Idle
<1> HIDE DEF t
<1>3. Bare(t)
  BY <1>2, Constants DEF Bare
<1> QED
  BY <1>1, <1>3, PlainMarks

LEMMA StartMarks ==
  ASSUME TypeOK, Unmarked, NEW p \in Proc, Start(p)
  PROVE  Unmarked'
<1>1. PICK o, l, keeps : Begin(p, o, l, keeps)
  BY DEF Start, StartConnect, StartPlain, StartDestroy, StartCheck
<1>2. rec' = rec \/ Settle(rec.status)
  BY DEF Start, StartConnect, StartPlain, StartDestroy, StartCheck
<1>3. ~rec'.mark
  BY <1>2, SettleFacts DEF TypeOK, Record, Unmarked
<1> QED
  BY <1>1, <1>3, BeginMarks

LEMMA FinalizeMarks ==
  ASSUME TypeOK, Unmarked, NEW p \in Proc, Course(task[p]), Finalize(p)
  PROVE  Unmarked'
<1>1. task[p] \in Task /\ rec \in Record /\ ~rec.mark /\ "destroyed" \in Status
  BY DEF TypeOK, Unmarked, Status
<1>2. CASE Launch(p)
  <2>1. CASE Finish(p)
    BY <1>1, <1>2, <2>1, EndsMarks DEF Launch
  <2>2. CASE ~Finish(p)
    <3> DEFINE x == IF rec.start = Off THEN 0 ELSE rec.start
               t == [task[p] EXCEPT !.pc = "ready", !.held = Exists, !.obj = NoRec, !.start = x]
    <3>1. Become(p, t) /\ rec' = rec
      BY <1>2, <2>2 DEF Launch
    <3>2. t.obj = NoRec
      BY <1>1 DEF Task
    <3> HIDE DEF t
    <3>3. Bare(t)
      BY <3>2, Constants DEF Bare
    <3> QED
      BY <1>1, <3>1, <3>3, PlainMarks
  <2> QED
    BY <2>1, <2>2
<1>3. CASE GiveUp(p) /\ UNCHANGED rec
  <2>1. CASE Finish(p)
    BY <1>1, <1>3, <2>1, EndsMarks
  <2>2. CASE Goto(p, "rollback")
    <3>1. "rollback" \in Pcs /\ "rollback" \notin Carries
      BY DEF Pcs, Carries
    <3> QED
      BY <1>1, <1>3, <2>2, <3>1, GotoBare, PlainMarks DEF Goto
  <2> QED
    BY <1>3, <2>1, <2>2 DEF GiveUp
<1>4. CASE task[p].pc \in {"ready", "reheal"} /\ Goto(p, "bind") /\ UNCHANGED rec
  <2>1. "bind" \in Pcs
    BY DEF Pcs
  <2>2. Bare([task[p] EXCEPT !.pc = "bind"])
    <3>1. CASE task[p].op = "restart"
      <4>1. [task[p] EXCEPT !.pc = "bind"].op = "restart"
        BY <1>1, <3>1 DEF Task
      <4> QED
        BY <4>1, ElsewhereBare
    <3>2. CASE task[p].op # "restart"
      BY <1>4, <2>1, <3>2, GotoBare DEF Carrying
    <3> QED
      BY <3>1, <3>2
  <2> QED
    BY <1>1, <1>4, <2>2, PlainMarks DEF Goto
<1>5. CASE Quarantine(p)
  <2> DEFINE t == [task[p] EXCEPT !.pc = "reheal", !.held = FALSE, !.obj = Captured(p)]
             r == IF Exists THEN rec ELSE Unset
  <2>1. Replace(p, t, r) /\ task[p].pc = "ready"
    BY <1>5 DEF Quarantine, At
  <2>2. ~r.mark
    BY <1>1, Constants
  <2>3. t.op = task[p].op /\ t.obj = Captured(p)
    BY <1>1 DEF Task
  <2> HIDE DEF t, r
  <2>4. Bare(t)
    <3>1. CASE task[p].op = "restart"
      BY <2>3, <3>1, ElsewhereBare
    <3>2. CASE task[p].op # "restart"
      <4>1. ~Captured(p).mark
        BY <2>1, <3>2, CapturedBare DEF Carrying
      <4> QED
        BY <2>3, <4>1 DEF Bare
    <3> QED
      BY <3>1, <3>2
  <2> QED
    BY <2>1, <2>2, <2>4, ReplaceMarks
<1>6. CASE Rollback(p)
  <2>1. "rolledback" \in Pcs /\ "rolledback" \notin Carries
    BY DEF Pcs, Carries
  <2> QED
    BY <1>1, <1>6, <2>1, GotoBare, PlainMarks DEF Rollback, Goto
<1>7. CASE RolledBack(p)
  <2>1. CASE Exists
    <3>1. PICK r : r = [rec EXCEPT !.status = "destroyed", !.start = Off]
      OBVIOUS
    <3>2. ~r.mark
      BY <1>1, <3>1, StartFacts
    <3>3. Replace(p, Idle, r)
      BY <1>7, <2>1, <3>1 DEF RolledBack
    <3> QED
      BY <3>2, <3>3, IdleBare, ReplaceMarks
  <2>2. CASE ~Exists
    BY <1>1, <1>7, <2>2, EndsMarks DEF RolledBack
  <2> QED
    BY <2>1, <2>2
<1>8. CASE Bound(p) \/ NotBound(p)
  <2>1. CASE task[p].op = "restart"
    BY <1>1, <1>8, <2>1, EndsMarks DEF Bound, NotBound
  <2>2. CASE task[p].op # "restart"
    <3>1. PICK c \in Record : c = Captured(p) /\ ~c.mark
      <4>1. Carrying(task[p])
        BY <1>8, <2>2 DEF Bound, NotBound, At, Carrying
      <4> QED
        BY <4>1, CapturedBare
    <3>2. /\ ~[c EXCEPT !.status = "running", !.start = task[p].start].mark
          /\ ~[c EXCEPT !.status = "stopped"].mark
      BY <3>1 DEF Record
    <3>3. "noted" \in Pcs /\ "noted" \notin Carries
      BY DEF Pcs, Carries
    <3>4. Bare([task[p] EXCEPT !.pc = "noted"])
      BY <3>3, GotoBare
    <3>5. CASE Bound(p)
      <4>1. PICK t : /\ t = IF task[p].op = "apply" THEN [task[p] EXCEPT !.pc = "noted"] ELSE Idle
                     /\ Bare(t)
        BY <3>4, IdleBare
      <4>2. Replace(p, t, [c EXCEPT !.status = "running", !.start = task[p].start])
        BY <2>2, <3>1, <3>5, <4>1 DEF Bound
      <4> QED
        BY <3>2, <4>1, <4>2, ReplaceMarks
    <3>6. CASE NotBound(p)
      <4>1. Replace(p, Idle, [c EXCEPT !.status = "stopped"])
        BY <2>2, <3>1, <3>6 DEF NotBound
      <4> QED
        BY <3>2, <4>1, IdleBare, ReplaceMarks
    <3> QED
      BY <1>8, <3>5, <3>6
  <2> QED
    BY <2>1, <2>2
<1>9. CASE NoteVersion(p)
  <2>1. PICK r : r = (IF Exists THEN rec ELSE Unset) /\ ~r.mark
    BY <1>1, Constants
  <2> QED
    BY <1>9, <2>1, IdleBare, ReplaceMarks DEF NoteVersion
<1> QED
  BY <1>2, <1>3, <1>4, <1>5, <1>6, <1>7, <1>8, <1>9
     DEF Finalize, Ready, NotReady, Reheal, At

LEMMA StopMarks ==
  ASSUME TypeOK, Unmarked, NEW p \in Proc, StopStep(p)
  PROVE  Unmarked'
<1>1. rec \in Record /\ ~rec.mark /\ "stopped" \in Status /\ "destroyed" \in Status
  BY DEF TypeOK, Unmarked, Status
<1>2. \A l \in {"halt", "idled", "idlerm"} : Bare([task[p] EXCEPT !.pc = l])
  BY GotoBare DEF Pcs, Carries
<1>3. CASE Inspect(p)
  <2>1. PICK s : s = IF cont = "running" THEN rec.status ELSE AlignedStatus
    OBVIOUS
  <2>2. s \in Status
    BY <1>1, <2>1 DEF AlignedStatus, Record
  <2>3. Settle(s) \/ rec' = [rec EXCEPT !.status = s]
    BY <1>3, <2>1 DEF Inspect
  <2>4. ~rec'.mark
    BY <1>1, <2>2, <2>3, SettleFacts, StatusFacts
  <2>5. Goto(p, "halt") \/ Finish(p)
    BY <1>3 DEF Inspect
  <2> QED
    BY <1>2, <2>4, <2>5, IdleBare, PlainMarks DEF Goto, Finish
<1>4. CASE Halt(p)
  <2>1. Finish(p) /\ (Settle("stopped") \/ SetStatus("stopped") \/ rec' = rec)
    BY <1>4 DEF Halt
  <2>2. ~rec'.mark
    BY <1>1, <2>1, SettleFacts, StatusKept
  <2> QED
    BY <2>1, <2>2, IdleBare, PlainMarks DEF Finish
<1>5. CASE Checked(p) \/ IdleStop(p) \/ IdleRemove(p)
  <2>1. /\ Finish(p)
        /\ rec' = rec \/ SetCapturedStatus(p, "stopped") \/ SetCapturedStatus(p, "destroyed")
    BY <1>5 DEF Checked, IdleStop, IdleRemove
  <2> QED
    BY <1>1, <2>1, EndsMarks
<1>6. CASE Visit(p)
  <2>1. Goto(p, "idled") \/ Goto(p, "idlerm") \/ Finish(p)
    BY <1>6 DEF Visit
  <2>2. Settle(rec.status) \/ rec' = rec
    BY <1>6 DEF Visit
  <2>3. ~rec'.mark
    BY <1>1, <2>2, SettleFacts DEF Record
  <2> QED
    BY <1>2, <2>1, <2>3, IdleBare, PlainMarks DEF Goto, Finish
<1> QED
  BY <1>3, <1>4, <1>5, <1>6 DEF StopStep

(* A task that asks for the container of a new object carries nothing.     *)
LEMMA RelaunchBare ==
  ASSUME NEW o
  PROVE  Bare([Idle EXCEPT !.pc = "launch", !.op = o])
<1>1. [Idle EXCEPT !.pc = "launch", !.op = o].obj = NoRec
  BY DEF Idle
<1> QED
  BY <1>1, Constants DEF Bare

LEMMA RebuildMarks ==
  ASSUME TypeOK, Unmarked, NEW p \in Proc, Course(task[p]), Rebuild(p)
  PROVE  Unmarked'
<1>1. /\ task[p] \in Task /\ rec \in Record /\ ~rec.mark
      /\ "destroyed" \in Status /\ "stopped" \in Status /\ "running" \in Status
  BY DEF TypeOK, Unmarked, Status
<1>2. CASE Discard(p)
  <2>1. task[p].op \in {"destroy", "remove", "reset"}
    BY <1>2 DEF Discard, At, Course
  <2>2. CASE task[p].op = "destroy"
    BY <1>1, <1>2, <2>2, EndsMarks DEF Discard
  <2>3. CASE task[p].op = "remove"
    BY <1>2, <2>3, IdleBare, Constants, ReplaceMarks DEF Discard
  <2>4. CASE task[p].op = "reset"
    <3>1. "wipe" \in Pcs /\ "wipe" \notin Carries
      BY DEF Pcs, Carries
    <3> QED
      BY <1>1, <1>2, <2>4, <3>1, GotoBare, PlainMarks DEF Discard, Goto
  <2> QED
    BY <2>1, <2>2, <2>3, <2>4
<1>3. CASE Wipe(p)
  BY <1>3, RelaunchBare, Constants, ReplaceMarks DEF Wipe
<1>4. CASE Apply(p)
  <2>1. Carrying(task[p])
    BY <1>4 DEF Apply, At, Course, Carrying
  <2>2. CASE Settle(rec.status) /\ Goto(p, "applyrm")
    <3>1. ~rec'.mark
      BY <1>1, <2>2, SettleFacts DEF Record
    <3>2. "applyrm" \in Pcs
      BY DEF Pcs
    <3> QED
      BY <2>1, <2>2, <3>1, <3>2, GotoBare, PlainMarks DEF Goto
  <2>3. CASE Finish(p) /\ UNCHANGED rec
    BY <1>1, <2>3, EndsMarks
  <2>4. CASE Replace(p, Idle, Captured(p))
    BY <2>1, <2>4, CapturedBare, IdleBare, ReplaceMarks
  <2> QED
    BY <1>4, <2>2, <2>3, <2>4 DEF Apply
<1>5. CASE ApplyRemove(p)
  <2>1. CASE Finish(p) /\ UNCHANGED rec
    BY <1>1, <2>1, EndsMarks
  <2>2. CASE ~(Finish(p) /\ UNCHANGED rec)
    <3>1. PICK c \in Record : c = Captured(p) /\ ~c.mark
      <4>1. Carrying(task[p])
        BY <1>5 DEF ApplyRemove, At, Course, Carrying
      <4> QED
        BY <4>1, CapturedBare
    <3>2. PICK r : r = [c EXCEPT !.status = "stopped", !.start = Off] /\ ~r.mark
      <4>1. ~[c EXCEPT !.status = "stopped", !.start = Off].mark
        BY <3>1 DEF Record
      <4> QED
        BY <4>1
    <3>3. Replace(p, IF Allowed(r) THEN [Idle EXCEPT !.pc = "launch", !.op = "apply"] ELSE Idle, r)
      BY <1>5, <2>2, <3>1, <3>2 DEF ApplyRemove
    <3>4. PICK t : Replace(p, t, r) /\ Bare(t)
      BY <3>3, RelaunchBare, IdleBare
    <3> QED
      BY <3>2, <3>4, ReplaceMarks
  <2> QED
    BY <2>1, <2>2
<1>6. CASE Redo(p)
  <2>1. task[p].op = "restart"
    BY <1>6 DEF Redo, At, Course
  <2>2. CASE Become(p, [task[p] EXCEPT !.pc = "launch", !.op = "connect"]) /\ UNCHANGED rec
    <3>1. [task[p] EXCEPT !.pc = "launch", !.op = "connect"].pc = "launch"
      BY <1>1 DEF Task
    <3>2. Bare([task[p] EXCEPT !.pc = "launch", !.op = "connect"])
      BY <3>1, ElsewhereBare DEF Carries
    <3> QED
      BY <1>1, <2>2, <3>2, PlainMarks
  <2>3. CASE Finish(p) /\ UNCHANGED rec
    BY <1>1, <2>3, EndsMarks
  <2>4. CASE Replace(p, [task[p] EXCEPT !.pc = "ready"], [rec EXCEPT !.status = "running"])
    <3>1. [task[p] EXCEPT !.pc = "ready"].op = "restart"
      BY <1>1, <2>1 DEF Task
    <3>2. Bare([task[p] EXCEPT !.pc = "ready"])
      BY <3>1, ElsewhereBare
    <3>3. ~[rec EXCEPT !.status = "running"].mark
      BY <1>1, StatusFacts
    <3> QED
      BY <2>4, <3>2, <3>3, ReplaceMarks
  <2> QED
    BY <1>6, <2>2, <2>3, <2>4 DEF Redo
<1>7. CASE Upgrade(p)
  <2>1. CASE cont = "absent"
    <3>1. PICK r : r = (IF Exists THEN rec ELSE Unset) /\ ~r.mark
      BY <1>1, Constants
    <3> QED
      BY <1>7, <2>1, <3>1, IdleBare, ReplaceMarks DEF Upgrade
  <2>2. CASE cont # "absent"
    <3>1. Goto(p, "resize") /\ (Settle(rec.status) \/ rec' = rec)
      BY <1>7, <2>2 DEF Upgrade
    <3>2. ~rec'.mark
      BY <1>1, <3>1, SettleFacts DEF Record
    <3>3. "resize" \in Pcs /\ "resize" \notin Carries
      BY DEF Pcs, Carries
    <3> QED
      BY <3>1, <3>2, <3>3, GotoBare, PlainMarks DEF Goto
  <2> QED
    BY <2>1, <2>2
<1>8. CASE Resize(p)
  <2>1. CASE Finish(p) /\ UNCHANGED rec
    BY <1>1, <2>1, EndsMarks
  <2>2. CASE ~(Finish(p) /\ UNCHANGED rec)
    <3>1. PICK r : r = [rec EXCEPT !.status = "running", !.start = 0]
      OBVIOUS
    <3>2. ~r.mark
      BY <1>1, <3>1 DEF Record
    <3>3. Replace(p, Idle, r)
      BY <1>8, <2>2, <3>1 DEF Resize
    <3> QED
      BY <3>2, <3>3, IdleBare, ReplaceMarks
  <2> QED
    BY <2>1, <2>2
<1>9. CASE Erase(p)
  BY <1>1, <1>9, EndsMarks DEF Erase
<1> QED
  BY <1>2, <1>3, <1>4, <1>5, <1>6, <1>7, <1>8, <1>9 DEF Rebuild

LEMMA TickMarks ==
  ASSUME TypeOK, Unmarked, Tick
  PROVE  Unmarked'
<1>1. ~rec'.mark
  BY DEF TypeOK, Record, Tick, Unmarked
<1>2. ASSUME NEW p \in Proc
      PROVE  Bare(task'[p])
  <2> DEFINE x == IF /\ task[p].pc \in {"ready", "reheal", "bind"}
                     /\ task[p].op # "restart" THEN Sum(task[p].start, 1) ELSE task[p].start
             o == Older(task[p].obj.start)
             t == [task[p] EXCEPT !.start = x, !.obj.start = o]
  <2>1. task'[p] = t /\ task[p] \in Task /\ task[p].obj \in Record
    BY DEF Tick, TypeOK, Task
  <2> HIDE DEF x, o
  <2>2. /\ t.pc = task[p].pc /\ t.op = task[p].op /\ t.held = task[p].held
        /\ t.obj.mark = task[p].obj.mark
    BY <2>1 DEF Task, Record
  <2> HIDE DEF t
  <2> QED
    BY <2>1, <2>2 DEF Unmarked, Bare, Carrying
<1> QED
  BY <1>1, <1>2 DEF Unmarked

LEMMA MarksNext == Types /\ Marks /\ [Next]_vars => Marks'
<1> SUFFICES ASSUME Types, Marks, [Next]_vars PROVE Marks'
  OBVIOUS
<1>1. TypeOK /\ \A p \in Proc : Course(task[p])
  BY DEF Types
<1>2. CASE Approve
  BY <1>2 DEF Approve, Marks
<1>3. CASE Revoke
  <2>1. ~rec'.mark /\ outdated' = Outdated /\ task' = task
    BY <1>1, <1>3 DEF Revoke, TypeOK, Record
  <2>2. ~Outdated => \A p \in Proc : Bare(task[p])
    BY DEF Outdated, Bare
  <2> QED
    BY <2>1, <2>2 DEF Marks, Unmarked
<1>4. CASE \/ \E p \in Proc : Start(p) \/ Resume(p)
           \/ Tick \/ Midnight \/ ContainerExit \/ UNCHANGED vars
  <2>1. registry' = registry /\ outdated' = outdated
    BY <1>4, DecisionsOnly
  <2>2. SUFFICES ASSUME Unmarked PROVE Unmarked'
    BY <2>1 DEF Marks
  <2>3. ASSUME NEW p \in Proc, Start(p) \/ Resume(p)
        PROVE  Unmarked'
    BY <1>1, <2>2, <2>3, StartMarks, FinalizeMarks, StopMarks, RebuildMarks DEF Resume
  <2>4. CASE Tick
    BY <1>1, <2>2, <2>4, TickMarks
  <2>5. CASE Midnight \/ ContainerExit \/ UNCHANGED vars
    BY <2>2, <2>5 DEF Midnight, ContainerExit, vars, Unmarked
  <2> QED
    BY <1>4, <2>3, <2>4, <2>5
<1> QED
  BY <1>2, <1>3, <1>4 DEF Next

(* A revoked tenant is limited again (user.service.js:736) in every        *)
(* interleaving: the mark comes back only by an operation that had, at the *)
(* revocation, a replaced record with the mark to write back               *)
(* (user.service.js:1600, 1685).                                           *)
THEOREM RevokedAgain == (Spec => []RevokedLimited) /\ (MCSpec => []RevokedLimited)
<1>1. Init => Types /\ Marks
  BY TypesInit DEF Init, Marks
<1>2. Types /\ Marks /\ [Next]_vars => (Types /\ Marks)'
  BY TypesNext, MarksNext
<1>3. Types /\ Marks => RevokedLimited
  BY DEF Marks, Unmarked, RevokedLimited, Exempt
<1>4. [MCNext]_vars => [Next]_vars
  BY DEF MCNext
<1>5. Spec => []RevokedLimited
  BY <1>1, <1>2, <1>3, PTL DEF Spec
<1>6. MCSpec => []RevokedLimited
  BY <1>1, <1>2, <1>3, <1>4, PTL DEF MCSpec
<1> QED
  BY <1>5, <1>6
=============================================================================
