------------------------------- MODULE Startup -------------------------------
(***************************************************************************)
(* The start of the server: server.js hydrates the stores, restores the    *)
(* tenant records from docker (restoreFromDocker of user.service.js) and   *)
(* brings the patch files of the tenants up to the configuration           *)
(* (syncTenantPatches), while it already answers requests.                 *)
(*                                                                         *)
(* A process may crash at every await.  A patch file is written on the     *)
(* host; a container reads it when it starts and never again.  Ports,      *)
(* tiers and minutes are in TenantLifecycle and UsageMeter.                *)
(***************************************************************************)
EXTENDS Naturals

CONSTANTS Addr, NoAddr,
          MaxBoots,     \* starts of the server
          MaxEarly,     \* requests that do not wait for the start to end
          Faults        \* "docker", "bind", "write", "hydrate"

VARIABLES rec,       \* containerStatus of each record
          stored,    \* the same as last saved
          cont,      \* docker's state of each container
          route,     \* the gateway listens for the tenant
          file,      \* the configuration each patch file was written for
          loaded,    \* the configuration each container has read
          want,      \* the configuration of this process
          stage,     \* where the start is
          todo,      \* tenants the running loop has yet to visit
          item,      \* the tenant it is suspended at
          listed,    \* containers docker listed
          boots, early,
          touched,   \* history: tenants a request changed during this start
          skipped,   \* history: containers without a published port
          missed     \* history: a new file whose container was not restarted

docker == <<cont, loaded>>
ghosts == <<touched, skipped, missed>>
vars == <<rec, stored, docker, route, file, want, stage, todo, item, listed, boots,
          early, ghosts>>

Stages == {"down", "hydrate", "list", "restore", "publish", "bind", "restored",
           "sync", "written", "up"}
May(fault) == fault \in Faults

Init == /\ cont \in [Addr -> {"absent", "running", "exited"}]
        /\ rec = [a \in Addr |-> CASE cont[a] = "running" -> "running"
                                   [] cont[a] = "exited" -> "stopped"
                                   [] OTHER -> "none"]
        /\ stored = rec /\ route = [a \in Addr |-> FALSE]
        /\ file = [a \in Addr |-> 0] /\ loaded = file /\ want = 0
        /\ stage = "down" /\ todo = {} /\ item = NoAddr /\ listed = {}
        /\ boots = 0 /\ early = 0
        /\ touched = {} /\ skipped = {} /\ missed = {}

-----------------------------------------------------------------------------
(* Operators may change the host's name while the server is down.          *)
Boot == /\ stage = "down" /\ boots < MaxBoots
        /\ boots' = boots + 1 /\ want' \in {want, boots}
        /\ stage' = "hydrate" /\ route' = [a \in Addr |-> FALSE]
        /\ touched' = {} /\ skipped' = {}
        /\ todo' = {} /\ item' = NoAddr
        /\ UNCHANGED <<rec, stored, docker, file, listed, early, missed>>

(* A container exits or is removed while the server is down.               *)
Outage(a) == /\ stage = "down" /\ cont[a] # "absent"
             /\ cont' = [cont EXCEPT ![a] =
                           IF cont[a] = "running" THEN "exited" ELSE "absent"]
             /\ UNCHANGED <<rec, stored, loaded, route, file, want, stage, todo,
                            item, listed, boots, early, ghosts>>

(* The process dies with what it has not saved; a container it was to      *)
(* restart keeps what it has read.                                         *)
Crash == /\ stage # "down" /\ stage' = "down"
         /\ missed' = IF stage = "written" THEN missed \cup {item} ELSE missed
         /\ rec' = stored /\ todo' = {} /\ item' = NoAddr
         /\ UNCHANGED <<stored, docker, route, file, want, listed, boots, early,
                        touched, skipped>>

(* A store that cannot be read refuses the start.                          *)
Hydrate == /\ stage = "hydrate"
           /\ stage' \in {"list"} \cup (IF May("hydrate") THEN {"down"} ELSE {})
           /\ UNCHANGED <<rec, stored, docker, route, file, want, todo, item, listed,
                          boots, early, ghosts>>

-----------------------------------------------------------------------------
(* restoreFromDocker.  docker ps -a lists stopped containers too; a list   *)
(* that fails gives up the restore, not the start.                         *)
ListContainers ==
  /\ stage = "list"
  /\ \/ /\ listed' = {a \in Addr : cont[a] # "absent"}
        /\ stage' = "restore" /\ todo' = listed'
     \/ /\ May("docker") /\ stage' = "sync" /\ UNCHANGED listed
        /\ todo' = {a \in Addr : rec[a] # "none"}
  /\ UNCHANGED <<rec, stored, docker, route, file, want, item, boots, early, ghosts>>

(* A container that does not run, or cannot be inspected, is recorded as   *)
(* stopped and gets no route.                                              *)
NotRunning(a) ==
  /\ stage = "restore" /\ a \in todo
  /\ cont[a] # "running" \/ May("docker")
  /\ rec' = [rec EXCEPT ![a] = "stopped"] /\ todo' = todo \ {a}
  /\ UNCHANGED <<stored, docker, route, file, want, stage, item, listed, boots, early, ghosts>>

Running(a) ==
  /\ stage = "restore" /\ a \in todo /\ cont[a] = "running"
  /\ stage' = "publish" /\ item' = a /\ todo' = todo \ {a}
  /\ UNCHANGED <<rec, stored, docker, route, file, want, listed, boots, early, ghosts>>

(* The record is rebuilt around the container, unless docker does not tell *)
(* its port: then the loop goes on and the record stays what it was.       *)
Published ==
  /\ stage = "publish"
  /\ \/ /\ rec' = [rec EXCEPT ![item] = "running"] /\ stage' = "bind"
        /\ UNCHANGED <<item, skipped>>
     \/ /\ cont[item] # "running" \/ May("docker")
        /\ stage' = "restore" /\ item' = NoAddr
        /\ skipped' = skipped \cup {item} /\ UNCHANGED rec
  /\ UNCHANGED <<stored, docker, route, file, want, todo, listed, boots, early, touched, missed>>

(* Mutant of Restored: a port that cannot be bound is only logged.         *)
RestoredLogging ==
  /\ stage = "bind" /\ stage' = "restore" /\ item' = NoAddr
  /\ \/ route' = [route EXCEPT ![item] = TRUE]
     \/ May("bind") /\ UNCHANGED route
  /\ UNCHANGED <<rec, stored, docker, file, want, todo, listed, boots, early, ghosts>>

(* A port that cannot be bound takes the tenant down in the record and     *)
(* leaves the others alone.                                                *)
Restored ==
  /\ stage = "bind" /\ stage' = "restore" /\ item' = NoAddr
  /\ \/ route' = [route EXCEPT ![item] = TRUE] /\ UNCHANGED rec
     \/ /\ May("bind") /\ rec' = [rec EXCEPT ![item] = "stopped"]
        /\ UNCHANGED route
  /\ UNCHANGED <<stored, docker, file, want, todo, listed, boots, early, ghosts>>

(* The records no listed container stands behind.                          *)
Align ==
  /\ stage = "restore" /\ todo = {} /\ stage' = "restored"
  /\ rec' = [a \in Addr |-> IF a \notin listed /\ rec[a] = "running"
                            THEN "stopped" ELSE rec[a]]
  /\ stored' = rec'
  /\ UNCHANGED <<docker, route, file, want, todo, item, listed, boots, early, ghosts>>

-----------------------------------------------------------------------------
(* syncTenantPatches.                                                      *)
BeginSync ==
  /\ stage = "restored" /\ stage' = "sync"
  /\ todo' = {a \in Addr : rec[a] # "none"}
  /\ UNCHANGED <<rec, stored, docker, route, file, want, item, listed, boots, early, ghosts>>

(* A file that is as the configuration wants it needs nothing; another is  *)
(* written, or counted as failed.                                          *)
UpToDate(a) ==
  /\ stage = "sync" /\ a \in todo
  /\ file[a] = want \/ May("write")
  /\ todo' = todo \ {a}
  /\ UNCHANGED <<rec, stored, docker, route, file, want, stage, item, listed, boots,
                 early, ghosts>>

WritePatch(a) ==
  /\ stage = "sync" /\ a \in todo /\ file[a] # want
  /\ file' = [file EXCEPT ![a] = want] /\ todo' = todo \ {a}
  /\ stage' = "written" /\ item' = a
  /\ UNCHANGED <<rec, stored, docker, route, want, listed, boots, early, ghosts>>

(* Mutant of Refresh: the record is asked instead of docker.               *)
RefreshRecorded ==
  /\ stage = "written" /\ stage' = "sync" /\ item' = NoAddr
  /\ loaded' = IF rec[item] = "running" /\ cont[item] = "running"
               THEN [loaded EXCEPT ![item] = want] ELSE loaded
  /\ UNCHANGED <<rec, stored, cont, route, file, want, todo, listed, boots, early, ghosts>>

(* Only a running container is restarted; one docker cannot tell about is  *)
(* taken as stopped.  A restart that fails is logged.                      *)
Refresh ==
  /\ stage = "written" /\ stage' = "sync" /\ item' = NoAddr
  /\ \/ /\ cont[item] = "running" /\ loaded' = [loaded EXCEPT ![item] = want]
        /\ rec' = [rec EXCEPT ![item] = "running"]
        /\ stored' = rec' /\ UNCHANGED <<cont, missed>>
     \/ /\ cont[item] = "running" /\ May("docker")
        /\ cont' \in {cont, [cont EXCEPT ![item] = "exited"]}
        /\ rec' = [rec EXCEPT ![item] = "running"] /\ stored' = rec'
        /\ missed' = missed \cup {item} /\ UNCHANGED loaded
     \/ /\ cont[item] # "running" /\ UNCHANGED <<rec, stored, docker, missed>>
     \/ /\ May("docker") /\ missed' = missed \cup {item}
        /\ UNCHANGED <<rec, stored, docker>>
  /\ UNCHANGED <<route, file, want, todo, listed, boots, early, touched, skipped>>

(* The timers start: the server is up.                                     *)
Up == /\ stage = "sync" /\ todo = {} /\ stage' = "up"
      /\ UNCHANGED <<rec, stored, docker, route, file, want, todo, item, listed, boots,
                     early, ghosts>>

-----------------------------------------------------------------------------
(* Requests served since server.listen, each as a whole: a connect starts  *)
(* the container or makes it anew with a patch file of its own, a stop, a  *)
(* removal.                                                                *)
Early(a) ==
  /\ stage # "down" /\ early < MaxEarly /\ early' = early + 1
  /\ touched' = touched \cup {a}
  /\ \/ /\ cont[a] = "exited" /\ cont' = [cont EXCEPT ![a] = "running"]
        /\ loaded' = [loaded EXCEPT ![a] = file[a]]
        /\ rec' = [rec EXCEPT ![a] = "running"]
        /\ route' = [route EXCEPT ![a] = TRUE]
        /\ missed' = missed \ {a} /\ UNCHANGED file
     \/ /\ cont[a] = "absent" /\ cont' = [cont EXCEPT ![a] = "running"]
        /\ file' = [file EXCEPT ![a] = want]
        /\ loaded' = [loaded EXCEPT ![a] = want]
        /\ rec' = [rec EXCEPT ![a] = "running"]
        /\ route' = [route EXCEPT ![a] = TRUE]
        /\ missed' = missed \ {a}
     \/ /\ cont[a] = "running" /\ rec' = [rec EXCEPT ![a] = "running"]
        /\ route' = [route EXCEPT ![a] = TRUE]
        /\ UNCHANGED <<docker, file, missed>>
     \/ /\ cont[a] = "running" /\ rec[a] # "none"
        /\ cont' \in {[cont EXCEPT ![a] = "exited"], [cont EXCEPT ![a] = "absent"]}
        /\ rec' = [rec EXCEPT ![a] = IF cont'[a] = "exited" THEN "stopped"
                                     ELSE "destroyed"]
        /\ route' = [route EXCEPT ![a] = FALSE]
        /\ UNCHANGED <<loaded, file, missed>>
  /\ stored' = rec'
  /\ UNCHANGED <<want, stage, todo, item, listed, boots, skipped>>

Next == \/ Boot \/ Crash \/ Hydrate \/ ListContainers \/ Published \/ Restored
        \/ Align \/ BeginSync \/ Refresh \/ Up
        \/ \E a \in Addr : \/ Outage(a) \/ NotRunning(a) \/ Running(a)
                           \/ UpToDate(a) \/ WritePatch(a) \/ Early(a)
Spec == Init /\ [][Next]_vars

-----------------------------------------------------------------------------
TypeOK == /\ {rec, stored} \subseteq [Addr -> {"none", "running", "stopped", "destroyed"}]
          /\ cont \in [Addr -> {"absent", "running", "exited"}]
          /\ route \in [Addr -> BOOLEAN]
          /\ {file, loaded} \subseteq [Addr -> 0 .. MaxBoots]
          /\ want \in 0 .. MaxBoots /\ stage \in Stages
          /\ (item # NoAddr) = (stage \in {"publish", "bind", "written"})
          /\ todo \cup listed \cup touched \cup skipped \cup missed \subseteq Addr

(* When restoreFromDocker ends, whatever crashed, exited, was removed or   *)
(* could not be bound before, a record says running exactly for the        *)
(* containers that run and can be reached; left out are the tenants a      *)
(* request changed meanwhile and those whose port docker did not tell.     *)
RestoredTrue ==
  stage = "restored" =>
    \A a \in Addr \ (touched \cup skipped) :
      rec[a] = "running" <=> cont[a] = "running" /\ route[a]

(* The restart that follows a new patch file must not be lost, because the *)
(* next start compares files only: a container that runs with an old       *)
(* configuration has an old file too, or its restart was cut short.        *)
PatchSynced ==
  stage = "up" =>
    \A a \in Addr \ missed : cont[a] = "running" /\ loaded[a] # want
                             => file[a] # want
=============================================================================
