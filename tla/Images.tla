-------------------------------- MODULE Images --------------------------------
(***************************************************************************)
(* The tenant image: builds of a DSH version, the choice of a local image  *)
(* as the platform's default, the record of both (data/dsh-image.json),    *)
(* the removal of images by an administrator and by the maintenance timer, *)
(* and the list of versions of the npm registry with its cache.            *)
(*                                                                         *)
(* Images are numbered in the order of their builds, 0 is none; a build    *)
(* that docker finds in its cache gives an image of the same version       *)
(* again.  job[j] is a request or the timer at work, a step of it what     *)
(* happens between two awaits; the listing of images and containers for a  *)
(* removal is one step.                                                    *)
(*                                                                         *)
(* Abstractions: a container uses the default image; all images are the    *)
(* project's; the file is written in one step; builder cache, fstrim and   *)
(* crashes are left out.                                                   *)
(***************************************************************************)
EXTENDS Naturals, FiniteSets

CONSTANTS Version,   \* versions that may be built
          Latest,    \* the version, and the tag, latest
          Tenant, Job,
          MaxImages, \* bound on the images built
          MaxFetch   \* bound on the answers of the registry

VARIABLES repo,     \* docker's images: version and tags; the default's tag
          record,   \* dsh-image.json
          box,      \* the image of a tenant's container
          job,      \* requests under way
          running,  \* imageBuildTask.running
          late,     \* history: requests overtaken by another's default
          clash,    \* history: the last to write the record was overtaken
          registry, \* how often the registry has changed
          cache,    \* _cache of DshVersionService: the registry's state it has
          fetch     \* _inflight: fetches and what they will answer

versions == <<registry, cache, fetch>>
marks == <<late, clash>>
vars == <<repo, record, box, job, running, marks, versions>>

Image == 1 .. MaxImages
Idle == [pc |-> "idle", build |-> FALSE, ref |-> Latest, version |-> "none", image |-> 0, list |-> {}]
Entry(v, n) == [version |-> v, image |-> n]

Init == /\ \E v \in Version :
             /\ repo = [version |-> [n \in Image |-> IF n = 1 THEN v ELSE "none"],
                        tag |-> [w \in Version |-> 0], latest |-> 1]
             /\ record = Entry(v, 1)
        /\ box = [t \in Tenant |-> 0]
        /\ job = [j \in Job |-> Idle]
        /\ running = FALSE /\ late = {} /\ clash = FALSE
        /\ registry = 0 /\ cache = 0 /\ fetch = {}

At(j, l) == job[j].pc = l
Become(j, r) == job' = [job EXCEPT ![j] = r]
Step(j, from, r) == /\ At(j, from) /\ Become(j, r)
                    /\ UNCHANGED <<repo, record, box, running, marks, versions>>
Made == {n \in Image : repo.version[n] # "none"}
Present == {n \in Made : repo.version[n] # "gone"}
VersionOf(n) == IF n = 0 THEN "none" ELSE repo.version[n]

-----------------------------------------------------------------------------
(* POST /api/admin/dsh/image.                                              *)

(* No build is running: the body is read and the version looked up.        *)
BuildAsked(j, v) ==
  ~running /\ Step(j, "idle", [Idle EXCEPT !.pc = "asked", !.build = TRUE, !.ref = v])

BuildStarted(j) ==
  /\ At(j, "asked")
  /\ running' = TRUE
  /\ Become(j, [job[j] EXCEPT !.pc = "building"])
  /\ UNCHANGED <<repo, record, box, marks, versions>>

(* The next number, or one docker has of the version.                      *)
Products(v) ==
  {n \in Present : repo.version[n] = v}
    \cup {n \in Image : n \notin Made /\ \A m \in Image : m < n => m \in Made}

(* A default is tagged; others are not recorded yet, and will be late.     *)
Changing(j) == job[j].pc \in {"built", "versioned", "tagged", "named"}
Overtake(j) == /\ late' = (late \cup {i \in Job : Changing(i)}) \ {j}
               /\ UNCHANGED clash

(* docker build: a new image, or one docker has; it gets the tags.  The    *)
(* version latest is what the registry says it is.                         *)
Built(j) ==
  LET asked == job[j].ref IN
  /\ At(j, "building")
  /\ \E v \in IF asked = Latest THEN Version ELSE {asked} : \E n \in Products(v) :
       repo' = [version |-> [repo.version EXCEPT ![n] = v], latest |-> n,
                tag |-> [w \in Version |-> IF w = asked THEN n ELSE repo.tag[w]]]
  /\ Overtake(j)
  /\ Become(j, [job[j] EXCEPT !.pc = "built"])
  /\ UNCHANGED <<record, box, running, versions>>

BuildFailed(j) ==
  /\ At(j, "building")
  /\ running' = FALSE
  /\ Become(j, Idle)
  /\ UNCHANGED <<repo, record, box, marks, versions>>

(* Mutant: the version is the one that was asked for.                      *)
VersionAsked(j) ==
  Step(j, "built", [job[j] EXCEPT !.pc = "versioned", !.ref = Latest, !.version = job[j].ref])

(* imageDshVersion, then imageId, of the default image as it is by now; an *)
(* error of docker is an unknown version, or no image.                     *)
VersionRead(j) ==
  \E v \in {VersionOf(repo.latest), "none"} :
    Step(j, "built", [job[j] EXCEPT !.pc = "versioned", !.ref = Latest, !.version = v])

IdRead(j) ==
  /\ job[j].pc \in {"versioned", "tagged"}
  /\ \E n \in {repo.latest, 0} :
       Step(j, job[j].pc, [job[j] EXCEPT !.pc = "named", !.image = n])

(* saveDshImage, after a build (which is over) or a choice.                *)
Recorded(j) ==
  /\ At(j, "named")
  /\ record' = Entry(job[j].version, job[j].image)
  /\ running' = (running /\ ~job[j].build)
  /\ clash' = (j \in late) /\ late' = late \ {j}
  /\ Become(j, Idle)
  /\ UNCHANGED <<repo, box, versions>>

-----------------------------------------------------------------------------
(* POST /api/admin/dsh/select, of a version's tag or of an image's id.     *)

Resolve(r) == IF r \in Version THEN repo.tag[r] ELSE IF r \in Present THEN r ELSE 0

(* The image exists, and its version is read.                              *)
Select(j, r) ==
  LET n == Resolve(r) IN
  n # 0 /\ Step(j, "idle", [Idle EXCEPT !.pc = "select", !.ref = r, !.version = VersionOf(n)])

Tagged(j) ==
  LET n == Resolve(job[j].ref) IN
  /\ At(j, "select")
  /\ IF n # 0
     THEN /\ repo' = [repo EXCEPT !.latest = n] /\ Overtake(j)
          /\ Become(j, [job[j] EXCEPT !.pc = "tagged", !.ref = Latest])
     ELSE Become(j, Idle) /\ UNCHANGED <<repo, marks>>
  /\ UNCHANGED <<record, box, running, versions>>

-----------------------------------------------------------------------------
(* Removal.                                                                *)

Tags(n) == {v \in Version : repo.tag[v] = n} \cup IF repo.latest = n THEN {Latest} ELSE {}
Used(n) == \E t \in Tenant : box[t] = n

(* collectPrunableImages.                                                  *)
Prunable == {n \in Present : n # record.image /\ ~Used(n)}

(* POST /api/admin/dsh/images/prune, for the images that were signed.      *)
Prune(j, S) ==
  /\ S \cap Prunable # {}
  /\ Step(j, "idle", [Idle EXCEPT !.pc = "prune", !.list = S \cap Prunable])

Building == \E j \in Job : At(j, "building")

(* runMaintenance: images without a tag, if no build is at work.           *)
Reclaim(j) ==
  LET S == {n \in Prunable : Tags(n) = {}} IN
  ~Building /\ S # {} /\ Step(j, "idle", [Idle EXCEPT !.pc = "reclaim", !.list = S])

(* docker rmi: it refuses an image in use, or with several tags.           *)
Removed(j, n) ==
  LET rest == [job[j] EXCEPT !.list = @ \ {n}] IN
  /\ job[j].pc \in {"prune", "reclaim"} /\ n \in job[j].list
  /\ repo' = IF Used(n) \/ Cardinality(Tags(n)) > 1 \/ n \notin Present THEN repo
             ELSE [version |-> [repo.version EXCEPT ![n] = "gone"],
                   tag |-> [v \in Version |-> IF repo.tag[v] = n THEN 0 ELSE repo.tag[v]],
                   latest |-> IF repo.latest = n THEN 0 ELSE repo.latest]
  /\ Become(j, IF rest.list = {} THEN Idle ELSE rest)
  /\ UNCHANGED <<record, box, running, marks, versions>>

(* A tenant's container is made, or removed.                               *)
Rebuild(t, n) ==
  /\ n \in {0, repo.latest} /\ box[t] # n
  /\ box' = [box EXCEPT ![t] = n]
  /\ UNCHANGED <<repo, record, job, running, marks, versions>>

-----------------------------------------------------------------------------
(* getVersions.  A fetch answers what the registry had when it was asked,  *)
(* 0 in the cache is none.                                                 *)

Publish ==
  /\ registry < MaxFetch
  /\ registry' = registry + 1
  /\ UNCHANGED <<repo, record, box, job, running, marks, cache, fetch>>

(* The cache has expired, or is not asked; requests share one fetch.       *)
Asked ==
  /\ registry > 0 /\ fetch = {}
  /\ fetch' = {registry}
  /\ UNCHANGED <<repo, record, box, job, running, marks, registry, cache>>

Answered(k) ==
  /\ k \in fetch
  /\ fetch' = fetch \ {k}
  /\ cache' \in {cache, k}
  /\ UNCHANGED <<repo, record, box, job, running, marks, registry>>

(* refreshVersions.                                                        *)
ClearCache ==
  /\ cache # 0 /\ cache' = 0
  /\ UNCHANGED <<repo, record, box, job, running, marks, registry, fetch>>

Manage == \/ \E j \in Job : \/ \E v \in Version \cup {Latest} : BuildAsked(j, v)
                            \/ \E r \in Version \cup Image : Select(j, r)
                            \/ \E S \in SUBSET Image : Prune(j, S)
                            \/ \E n \in Image : Removed(j, n)
                            \/ BuildStarted(j) \/ Built(j) \/ BuildFailed(j) \/ VersionRead(j)
                            \/ IdRead(j) \/ Recorded(j) \/ Tagged(j) \/ Reclaim(j)
          \/ \E t \in Tenant, n \in Image \cup {0} : Rebuild(t, n)

Fetch == \/ Publish \/ Asked \/ ClearCache
         \/ \E k \in 1 .. MaxFetch : Answered(k)

Next == Manage \/ Fetch

Spec == Init /\ [][Next]_vars

-----------------------------------------------------------------------------
TypeOK ==
  /\ repo.latest \in Image \cup {0} /\ repo.tag \in [Version -> Image \cup {0}]
  /\ record.image \in Image \cup {0} /\ box \in [Tenant -> Image \cup {0}]
  /\ \A j \in Job : job[j].list \subseteq Image
  /\ late \subseteq {j \in Job : Changing(j)}
  /\ cache \in 0 .. registry /\ Cardinality(fetch) <= 1

(* When no default waits for its record, the record names the default      *)
(* image and the version it really has, and leaves out what docker did not *)
(* answer (docker.service.js:1025): builds, choices and removals that      *)
(* overlap confuse it only if the last to write it was overtaken, that is, *)
(* another default was tagged before it had written (admin.routes.js:1249).*)
CurrentRecorded ==
  repo.latest # 0 /\ ~clash /\ (\A j \in Job : ~Changing(j))
    => /\ record.image \in {repo.latest, 0}
       /\ record.version \in {VersionOf(repo.latest), "none"}
=============================================================================
