----------------------------- MODULE SkillMarket -----------------------------
(***************************************************************************)
(* The skill market (skill.service.js): the shared store, whose index and  *)
(* files are changed by publishing and unpublishing, the skills in the     *)
(* tenants' volumes, and the records of what each tenant installed.        *)
(*                                                                         *)
(* job[j] is a signed request under way; a step is what happens between    *)
(* two awaits.  A script in a helper container is one step on the volume,  *)
(* and may fail; its answer is used in a later step.                       *)
(*                                                                         *)
(* Abstractions: a text is a number, and so is its hash; renaming and the  *)
(* forced disable-model-invocation keep the number; which texts are valid  *)
(* is arbitrary; the flat form <name>.md is the directory form; the rate   *)
(* limit is left out, and so is the database of provider mongodb: of it    *)
(* stays that the index is one shared list, and that a write is awaited;   *)
(* the volume of a tenant is erased in one step.                           *)
(***************************************************************************)
EXTENDS Naturals, FiniteSets

CONSTANTS Addr,      \* tenants
          Name,      \* names of skills
          Job,       \* requests that may be under way at once
          MaxActive, \* MAX_ACTIVE_PUBLISHED
          MaxRequest \* bound on the requests of a behaviour, and one

VARIABLES provider, \* storage.provider
          index,    \* index.json, or _indexCache; at is sharedAt
          body,     \* the files of the store
          volume,   \* the skills in the tenants' volumes
          installs, \* installs.json, or _installsCache: the hash installed
          job,
          count,    \* the time, in requests: a new text has its number
          restored, \* history: entries that an older list has put back
          mixed,    \* history: skills whose operations failed or overlapped, or
                    \*   installed with a hash that is not that of the text
          lost      \* history: skills deleted by the tenant, or with the volume

vars == <<provider, index, body, volume, installs, job, count, restored, mixed, lost>>

Text == 1 .. MaxRequest
None == [sharer |-> "none", hash |-> 0, at |-> 0]
NoSkill == [text |-> 0, by |-> "none"]
NoIndex == [n \in Name |-> None]
Idle == [pc |-> "idle", addr |-> "none", name |-> "none", share |-> "none", text |-> 0, hash |-> 0,
         begun |-> 0, entries |-> NoIndex]

(* The tenants have written skills of their own.                           *)
Init == /\ provider \in {"json", "mongodb"}
        /\ index = NoIndex
        /\ body = [n \in Name |-> 0]
        /\ volume = [a \in Addr |-> [n \in Name |-> [text |-> 1, by |-> "tenant"]]]
        /\ installs = [a \in Addr |-> [n \in Name |-> 0]]
        /\ job = [j \in Job |-> Idle]
        /\ count = 1
        /\ restored = {} /\ mixed = {} /\ lost = {}

At(j, l) == job[j].pc = l
Become(j, t) == job' = [job EXCEPT ![j] = t]
Goto(j, l) == Become(j, [job[j] EXCEPT !.pc = l])
Counted == count < MaxRequest /\ count' = count + 1
market == <<provider, index, body, restored>>
tenants == <<volume, installs, mixed, lost>>

-----------------------------------------------------------------------------
(* What happens to a volume beside the requests.                           *)

(* The tenant writes a skill of its own, or deletes one, in its container. *)
Write(a, n) ==
  /\ Counted
  /\ volume' = [volume EXCEPT ![a][n] = [text |-> count', by |-> "tenant"]]
  /\ UNCHANGED <<market, installs, job, mixed, lost>>

Delete(a, n) ==
  /\ Counted
  /\ volume' = [volume EXCEPT ![a][n] = NoSkill]
  /\ lost' = lost \cup {<<a, n>>}
  /\ UNCHANGED <<market, installs, job, mixed>>

(* resetContainer, deleteUserVolume: the records of what was installed     *)
(* stay.                                                                   *)
Erase(a) ==
  /\ Counted
  /\ volume' = [volume EXCEPT ![a] = [n \in Name |-> NoSkill]]
  /\ lost' = lost \cup ({a} \X Name)
  /\ UNCHANGED <<market, installs, job, mixed>>

-----------------------------------------------------------------------------
(* publish.                                                                *)

ActiveOf(a) == {n \in Name : index[n].sharer = a}

(* Mutant: whose share of that name it is goes unasked.                    *)
FreeForAnyone(a, n, s) == index[s] # None => s = n

(* The name is free, or a publishes its own again.                         *)
Free(a, n, s) == index[s] # None => index[s].sharer = a /\ s = n

(* Of a's skill n as s.                                                    *)
Publish(j, a, n, s) ==
  /\ At(j, "idle")
  /\ Free(a, n, s)
  /\ Cardinality(ActiveOf(a)) < MaxActive
  /\ Become(j, [Idle EXCEPT !.pc = "extract", !.addr = a, !.name = n, !.share = s,
                            !.begun = count + 1, !.entries = index])
  /\ Counted /\ UNCHANGED <<market, tenants>>

(* extract-skill.mjs; the text is valid, or else (or if there is none) the *)
(* request ends with an error.                                             *)
Extracted(j) ==
  LET t == volume[job[j].addr][job[j].name].text IN
  /\ At(j, "extract")
  /\ \/ t # 0 /\ Become(j, [job[j] EXCEPT !.pc = "publish", !.text = t])
     \/ Become(j, Idle)
  /\ UNCHANGED <<market, tenants, count>>

(* The list it is entered in: with json, as it was read before the script, *)
(* which drops or puts back what others changed meanwhile; with mongodb    *)
(* the one they share.                                                     *)
List(j) == IF provider = "json" THEN job[j].entries ELSE index

(* The file, then the index, whoever has the name by now.                  *)
Published(j) ==
  LET s == job[j].share IN
  /\ At(j, "publish")
  /\ body' = [body EXCEPT ![s] = job[j].text]
  /\ index' = [List(j) EXCEPT ![s] = [sharer |-> job[j].addr, hash |-> job[j].text,
                                      at |-> count]]
  /\ restored' = (restored \cup {m \in Name : List(j)[m] # index[m]}) \ {s}
  /\ Become(j, Idle)
  /\ UNCHANGED <<provider, tenants, count>>

-----------------------------------------------------------------------------
(* unpublish, by the sharer or an administrator: index, then file.         *)

Unpublish(j, s) ==
  /\ At(j, "idle") /\ index[s] # None
  /\ index' = [index EXCEPT ![s] = None]
  /\ IF provider = "json"
     THEN body' = [body EXCEPT ![s] = 0] /\ UNCHANGED job
     ELSE Become(j, [Idle EXCEPT !.pc = "unlink", !.share = s]) /\ UNCHANGED body
  /\ Counted /\ UNCHANGED <<provider, restored, tenants>>

Unlinked(j) ==
  /\ At(j, "unlink")
  /\ body' = [body EXCEPT ![job[j].share] = 0]
  /\ Become(j, Idle)
  /\ UNCHANGED <<provider, index, restored, tenants, count>>

-----------------------------------------------------------------------------
(* install, importSkill and uninstall: the volume, then the record.        *)

Writing == {"install", "record", "uninstall", "erase"}
Busy(a, n) == \E j \in Job : job[j].pc \in Writing /\ job[j].addr = a /\ job[j].name = n

Begin(j, l, a, n, t, h) ==
  /\ At(j, "idle")
  /\ Become(j, [Idle EXCEPT !.pc = l, !.addr = a, !.name = n, !.text = t, !.hash = h])
  /\ mixed' = IF Busy(a, n) \/ t # h THEN mixed \cup {<<a, n>>} ELSE mixed
  /\ Counted /\ UNCHANGED <<market, volume, installs, lost>>

(* The entry and its file are there.                                       *)
Install(j, a, n) ==
  /\ index[n] # None /\ body[n] # 0
  /\ Begin(j, "install", a, n, body[n], index[n].hash)

Import(j, a, n) == Begin(j, "install", a, n, count + 1, count + 1)

Uninstall(j, a, n) == Begin(j, "uninstall", a, n, 0, 0)

(* Mutant: the failure of a script is swallowed.                           *)
ScriptedSwallowed(j, from, to, skill) ==
  LET a == job[j].addr n == job[j].name IN
  /\ At(j, from)
  /\ volume' \in {volume, [volume EXCEPT ![a][n] = skill]}
  /\ Goto(j, to)
  /\ UNCHANGED <<market, installs, count, mixed, lost>>

(* The script, with the answer lost or not.                                *)
Scripted(j, from, to, skill) ==
  LET a == job[j].addr n == job[j].name IN
  /\ At(j, from)
  /\ \/ /\ volume' = [volume EXCEPT ![a][n] = skill]
        /\ lost' = lost \ {<<a, n>>}
        /\ Goto(j, to) /\ UNCHANGED mixed
     \/ /\ volume' \in {volume, [volume EXCEPT ![a][n] = skill]}
        /\ Become(j, Idle) /\ mixed' = mixed \cup {<<a, n>>}
        /\ UNCHANGED lost
  /\ UNCHANGED <<market, installs, count>>

Installed(j) == Scripted(j, "install", "record", [text |-> job[j].text, by |-> "market"])
Uninstalled(j) == Scripted(j, "uninstall", "erase", NoSkill)

(* recordInstall and removeInstallRecord: the records are read and written *)
(* in one turn.                                                            *)
Recorded(j) ==
  /\ job[j].pc \in {"record", "erase"}
  /\ installs' = [installs EXCEPT ![job[j].addr][job[j].name] = job[j].hash]
  /\ Become(j, Idle)
  /\ UNCHANGED <<market, volume, count, mixed, lost>>

Next == \/ \E a \in Addr, n \in Name : Write(a, n) \/ Delete(a, n)
        \/ \E a \in Addr : Erase(a)
        \/ \E j \in Job :
             \/ \E a \in Addr, n \in Name : \/ \E s \in Name : Publish(j, a, n, s)
                                            \/ Install(j, a, n) \/ Import(j, a, n)
                                            \/ Uninstall(j, a, n)
             \/ \E s \in Name : Unpublish(j, s)
             \/ Extracted(j) \/ Published(j) \/ Unlinked(j)
             \/ Installed(j) \/ Uninstalled(j) \/ Recorded(j)

Spec == Init /\ [][Next]_vars

-----------------------------------------------------------------------------
TypeOK ==
  /\ \A n \in Name : index[n] = None \/ index[n] \in [sharer : Addr, hash : Text, at : Text]
  /\ body \in [Name -> 0 .. MaxRequest] /\ count \in Text
  /\ installs \in [Addr -> [Name -> 0 .. MaxRequest]]
  /\ \A a \in Addr, n \in Name : volume[a][n].text \in 0 .. count
  /\ mixed \cup lost \subseteq Addr \X Name /\ restored \subseteq Name

(* Nobody loses a share to a request that began when it was there: only    *)
(* who unpublishes it takes it, or else a publication that had looked at   *)
(* the list earlier (skill.service.js:324, 389), of the same name, or with *)
(* the json provider of any; entries that such an older list put back are  *)
(* left out.                                                               *)
ShareLeft ==
  \A n \in Name \ restored :
    index[n] # None /\ index'[n].sharer # index[n].sharer =>
      \E j \in Job : \/ Unpublish(j, n)
                     \/ /\ At(j, "publish") /\ job[j].begun <= index[n].at
                        /\ job[j].share = n \/ provider = "json"
SharesKept == [][ShareLeft]_vars

(* What is shown of skills is true.  The hash of the market is that of the *)
(* file it would give out, whatever is published and unpublished meanwhile *)
(* (skill.service.js:373), unless an older list put the entry back.  And   *)
(* while no operation on a skill of a volume is under way, failed, has     *)
(* overlapped another or installed what an older list shows with another   *)
(* hash, the records agree with the volume: what was installed is recorded *)
(* with its hash, and what is recorded is there (skill.service.js:257),    *)
(* unless the tenant deleted it or the volume was erased since             *)
(* (user.service.js:669).                                                  *)
ShownTrue ==
  /\ \A n \in Name \ restored : index[n] # None /\ body[n] # 0 => index[n].hash = body[n]
  /\ \A a \in Addr, n \in Name :
       <<a, n>> \notin mixed /\ ~Busy(a, n) =>
         /\ installs[a][n] # 0 => volume[a][n].text # 0 \/ <<a, n>> \in lost
         /\ volume[a][n].by = "market" => installs[a][n] = volume[a][n].text
=============================================================================
