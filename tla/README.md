# dsh-multitenant: specification and proofs

dsh-multitenant gives every wallet address ("tenant") a DSH container of its own. One Node.js
process (`src/src/server.js`) creates, stops and rebuilds the containers through the docker CLI,
opens one public port per tenant in an in-process gateway, keeps login sessions, limits the
minutes a tenant may run per day, and serves two pages to the browser, one for tenants and one
for administrators. This directory holds TLA+ models of that program, what TLC checks about them
and what TLAPS proves about them.

Paths below are relative to the repository's parent (`src/src/...` is the program, `src/docs`
and `src/test` its documents and tests). `us` stands for `src/src/services/user.service.js`.

## 1. How the program runs, and why it is hard

The server is one process with one event loop. Code between two `await`s is atomic; everything
else interleaves: HTTP requests of tenants and of administrators, the idle sweep, the usage
check, the route heal timer, the resource monitor, the queue processor, the queues that mirror
sessions to MongoDB. **There is no lock per tenant**, so two operations may work on the same
tenant at once. Records are plain objects in `this.state.swtcUsers`; some operations change them
in place, others replace them by a spread (`{...prev, ...}`) of an object captured before an
await. docker commands, readiness probes, port binds and database writes may fail at every await.

So the hard behaviours are: choices made before an await and used after it (the port of a start,
the record object, the list of shares, a cookie), two operations on one tenant, docker and record
drifting apart, settling a running segment once, images of caches written late, twice or not at
all, a crash between memory and database or between a file and the restart that makes it
effective, and in the browser flows of several events that share one set of refs.

## 2. Inventory

| Component | State | Operations | What makes it correct |
|---|---|---|---|
| Tenant lifecycle (`us`) | `swtcUsers`, `availablePorts`, `nextPort` | connect, stop, force-stop, restart, reset, apply image, upgrade, destroy, remove, delete volume, idle sweep, route heal | ports unique, pool and records disjoint, counter ahead of every port, every operation ends, drift and lost routes healed |
| Start of the server (`server.js`, `us:2337-2454`, `us:566-641`) | stage of the start | hydrate, restore from docker, align, sync patch files | records say running exactly for what runs and can be reached; a new patch file is read |
| Usage limit (`us:729-882`) | `usages`, `usageStartedAt` | settle, check, limit timer | no minute billed twice, meter on exactly while running, a tenant over the limit is stopped |
| CWT approval (`cwt-admin.service.js`, `cwt.store.js`) | registry, applications, marks | submit, approve, reject, revoke | registry and audit trail agree, a confirmed application is kept, decisions are whole |
| State persistence (`state.store.js`, `mongo.store.js`, `migration.js`) | collections users, meta | save as a fan-out in one transaction, migrate, hydrate | an answered change is stored, no stored port reaches the stored counter |
| Login sessions (`session.store.js`, `auth.middleware.js`, `user-auth.middleware.js`) | two stores, two mirror queues, collection sessions | create, resolve, revoke, hydrate, drain | an answered logout is final, no row wiped, nothing lost in a drain |
| Gateway and its authentication (`tenant-proxy.service.js`, `dsh-auth.service.js`) | routes, cookie cache, launch token cache, recovery throttle | listen, close, proxy, retry, activate, recover | stale cookies heal, one recovery restart per throttle window, nobody waits for nothing |
| Challenges and admin signatures (`tenant-config.service.js`, `admin-signature.middleware.js`) | pool of challenges, pending operations, tickets | issue, redeem, prune | a signature works once and only for what was signed; the last challenge works |
| Wait queue, preflight (`us:223-428`) | `waitQueue` | check, enlist, prune, process | nobody twice in the list or overtaken, bounded overshoot |
| Resource monitor, disk scans (`us:884-1045`) | tiers, cooldowns, `diskUsage` | monitor, upgrade, collect, scan | one automatic upgrade per cooldown, no size shown for another volume |
| Skill market (`skill.service.js`) | index, files, volumes, install records | publish, unpublish, install, import, uninstall | no share lost, what is shown is what is there |
| DSH versions, images, maintenance | tags, record of the default, build flag, version cache | build, select, prune, reclaim, list versions | the record names the default image |
| Tenant configuration (`tenant-config.service.js`, `merge-*.mjs`) | two files in the volume | configure, clear; edit lines | an answered list is the final state, no orphan keys, an edit changes one key |
| User page (`UserCenter.vue`) | refs of the page, pending flows | wallet events, connect, enter, poll, buttons | the overlay comes down |
| Admin page (`AdminPanel.vue`) | views, addresses, timers | mount, switch, login, logout | an administrator is not denied |
| Tenant list cache, rate limit, validation, helpers, other views, deployment | small or none | | section 8 |

How they interact: a request passes the gateway or a route, is authenticated (sessions,
challenges), checked for room (queue) and minutes (usage), and then drives docker through the
lifecycle, which saves through the persistence and opens or closes the gateway's routes. Timers
call the same operations. The start of the server rebuilds records and routes from docker. CWT
decisions set the mark in a tenant's record that exempts it from the limit. The pages poll the
routes and react to the wallet.

## 3. Modules

Every module names an await by a `pc`: an action is the code from one await to the next. Answers
of docker, the database, the wallet and the network are free choices, failures included. Each
operator called "Mutant" is a plausible bug of the operator it precedes; PROJECT.json says which
property it breaks.

### TenantLifecycle

The core: two or more tenants, the docker daemon and the route table. `Start(p, a)` is the
arrival of a request or a timer, `Resume(p)` a turn of the event loop.

| Variable | Code |
|---|---|
| `rec[a]` | `state.swtcUsers[a]`: containerStatus and port; `NoRec` when there is no entry |
| `pool`, `nextPort` | `state.availablePorts` (kept sorted), `state.nextPort` |
| `cont[a]` | the container docker has: absent, exited or running |
| `routes[port]` | `tenantGateway.routes` |
| `task[p]` | a suspended call: its op, tenant, local `port`, attempts, and the record object it captured (`held`: that object is still in the state; `obj`: its fields when it is not) |

| Actions | Code |
|---|---|
| Start* | the routes of tenants and administrators that begin the operation, up to the first await |
| Inspect ... TakePort, Refuse, Reclaim | `ensureContainer` 1352-1486, `reclaimDestroyedPorts` 795-816 |
| Ready, NotReady, Quarantine, Reheal, Bind, Bound, NotBound | `finalizeTenant` 1598-1700, `_healStartupFailure` 1749-1790, `TenantGateway.listen` |
| Rollback, RolledBack | `_rollbackFailedContainer` 1708-1732 |
| Discard, Retire, Unroute, Purge, Wipe | `destroyContainer` 2126-2192, `resetContainer` 647-724 |
| ApplyInspect, ApplyRemove, ApplyMark, NoteVersion | `applyImageVersion` 1847-2062 |
| RestartInspect, Redo, MarkRestarted | `restartContainer` 433-546 |
| StopInspect, Halt, Halted | `stopContainerForUser` 1050-1085, `forceStopContainer` 1090-1131 |
| EraseInspect, Erase, Erased | `deleteUserVolume` 1136-1182 |
| Visit, IdleStop, Idled, IdleRemove | `isContainerActive` 2466-2567, `_cleanupIdleContainersInner` 2579-2684 |
| StartHeal, Remap | `ensureGatewayRoutes` 2297-2334 |
| UpgradeInspect, Resize, Resized | `upgradeContainer` 2067-2118 |
| ContainerExit | a container ends by itself (external) |

Ports are JavaScript values, because the code does arithmetic on ports that may be missing:
`NoPort` is undefined, which sorts last and plus one is NaN; `Null` is null, which
`applyImageVersion` writes for a tenant without a port (1985), sorts first and plus one is 1;
`NaN` is NaN. All three are falsy and none is greater than a port. A start that takes a null from
the pool creates without a port, and its next attempt is port 1, below the range.

Abstractions: each tenant has one fixed internal port; docker stop and rm of one clean-up are one
step, as are the restart and the second wait of the self-healing; elapsed time and measurements
(idle, active, resources) are free choices; the sweep visits one tenant per task, with the object
its loop captured; docker's own restart of a container is left out. Saving is in StateStore, the
start of the server in Startup, the check for room in Capacity, minutes in UsageMeter.

### UsageMeter

The same operations for one tenant (tenants share nothing here), reduced to what they do to
`usageStartedAt`, today's minutes, the container and the CWT mark. Time is kept as ages:
`rec.start` is the minutes since `usageStartedAt`, `settled` the minutes since the last
settlement; both saturate at `Cap`, from where the model does not tell times apart. `Settle` is
`settleUsage`; every action that stops, starts or rebuilds calls it where the code does, before
or after the docker command. `Approve` and `Revoke` are `cwt-admin.service.js` 173-213 and
258-284: what a decision does to the registry and the mark (their transaction is atomic here).
`outdated` is a history: at the last revocation an operation was under way that will write back a
record with the mark which another operation had replaced before (`Outdated`).

### SessionContract and Sessions

`SessionContract` is what the header of `session.store.js` promises: a dropped session never
comes back, and a logout is answered only when the session is dropped for good. `Sessions` is
the code: a store object built from the json files and replaced by the hydrated one, jobs that
keep a reference to the object they were queued for and read it when they run, the transaction
that replaces the rows of one scope (possibly run again), crash, SIGTERM with its drain, TTL.
`Refines` maps `alive` to what the server honours now or could read back: the rows in the
database, in a hydrated store, in a hydration and in a write under way.

With the fault `early` requests are served before the hydration, as `server.js:303` allows: they
change the json image, and their saves write that image over the rows of its scope. `Lapse` are
the tokens that may run out of time while the instance runs.

A transaction whose outcome is unknown is either a commit or a failure; several logouts of one
token at once are one; the model starts when the migration is over; the json provider writes in
the same turn and is not modelled.

### CwtApproval

Applications, registry and marks exist twice: in the caches, which an operation changes as it
goes, and in the database, which changes when the operation's transaction commits.

| Variable | Code |
|---|---|
| `place`, `status` | `cwtStore.applications`: where in the array each application is (0 when it is not), and the status of its object |
| `registry` | status of the entries of `cwtStore.registry` |
| `mark` | `cwtAuthorizedAt` in the tenant records |
| `db` | the collections `cwt_applications`, `cwt_registry`, `users` and `audit` |
| `task[p]` | a request: the write it waits for, what its transaction has written, and the groups that others have committed since it began |
| `owner`, `history` | the address of each application; what callers were told (for the properties) |

`Submit`, `Approve`, `Reject`, `Revoke` are the first turns of the four requests; `RegWritten`,
`Deleted`, `Inserted`, `UsersWritten`, `Commit` are one action per awaited write. The images are
taken where the code takes them: the applications when `deleteMany` has returned, a registry
entry and the marks when they are sent. `Retry` runs the callback again after a write conflict,
on caches the first run has changed already. `Restart` is a crash with the hydration after it.

Verification awaits nothing but microtasks and is part of the turn; the fan-out of the user
records is one write; the audit records of rejections and the saves of user records by other
operations are left out; so is the json provider, which writes in the same turn.

### StateStore

Tenant records and ports with `storage.provider = mongodb`. `cache` is `userService.state`, `db`
the collections users and meta; `task[p]` is an operation and its save, whose pc is the write it
is about to send (`users`, `delete`, `ports`, `commit`), with the view its transaction has and the
documents others changed since it began. `UserSent`, `OthersDeleted` and `PortsSent` read the live
cache when they run, as `fanoutOps` (state.store.js 120-144) does; `Conflict` and `Retry` are
`withTransaction` (mongo.store.js 128-156). `TakePort`/`Recorded`, `Stop`, `Start`, `Destroy`,
`Remove` are what five operations do to the cache before they save; `Migrate`, `Hydrate` and
`Restart` the start with its import of `state.json`. A record is its port, its status and the
number of the operation that wrote it last.

### Startup

The start of the server over containers that exited, vanished, or run, with crashes at every
await: `Hydrate`, `ListContainers`, `NotRunning`, `Running`, `Published`, `Restored` and `Align` are
`restoreFromDocker`, `BeginSync`, `UpToDate`, `WritePatch` and `Refresh` are `syncTenantPatches`.
A configuration is a number; `file` is the one a patch file was written for, `loaded` the one a
container has read, which it does only when it starts. `Early` is a request that does not wait for
the start to end, as a whole. `touched`, `skipped` and `missed` are histories for the properties.

### Gateway

The public port of one tenant. `req` are the browser's requests and the check of the idle sweep
(`rpcAuthFor`), `act` the activations that requests share, `jar` the cookie cache, `launch` and
`throttle` the token cache and the recovery throttle. `Arrive`, `Check`, `Forwarded`, `Refused`,
`PassedOn`, `Retry` are `handleRequest` with `_retryWithFreshAuthCookie`; `TailRead` ... `Cookied`
the stages of `readToken` and the activation; `Printed`, `Rolled`, `Reboot`, `Rebuild`, `Listen`
what the container and the lifecycle do meanwhile. The k-th start of the container prints token
k; cookies are numbered by the signing key that made them. `seen` is the key of the moment a
request was retried, for the property.

### SignedRequests

The pool of challenges, the operations administrators have pending, and the gateway's tickets.
A challenge is a number, `issued[n]` what the wallet signs with it. `Issue`, `IssueAdmin`,
`IssueTicket` hand numbers out, with the pruning and the limit of the pool; `Connect`, `Login`,
`Configure`, `Verify`, `AdminOp` and `Enter` are the handlers that redeem them, each with the order
in which the code checks, consumes and gives up. A browser may present a signed request at any
time and as often as it wants, with other arguments. `done` and `spent` record what was honoured,
the gateway's answers to a replay included: `Verify` says valid to every good signature, whatever
became of the challenge (`tenant-proxy.service.js:798`), at most `MaxReplay` times in an instance.

### Capacity

The check for room and the waiting list. `Connect`, `Looked`, `HostChecked`, `BoxesChecked`,
`Enlist`, `Admit`, `Create` are a connect through `preflightCheck`; `Turn` and `Shift` a round of
`processWaitQueue`, which may overlap the next, and continues as a connect; `Age` makes entries
older than an hour, `Remove` frees a container; a stopped one stays, and is counted. A `docker ps`
that fails counts no containers (docker.service.js:1281) and lets a call pass that should wait;
`blind` records which containers were made that way.

### ResourceMonitor

`Watch` is the monitor: overlapping firings (`Fire`), `Visit`, `Spared`, `Exceeded` up to the
awaited upgrade, `Recorded` after it, `Cooled`, and administrators who set a tier (`UpgradeByHand`).
`Measure` is the disk: `Collect` replaces the listing, `ScanBegins`, `Measured` and `ScanEnds` are
`scanVolumeUsage` over the listing it found; `scan.shared` says that it still is the shown one.

### Images

`Manage` are builds (`BuildAsked`, `BuildStarted`, `Built`, `VersionRead`, `IdRead`, `Recorded`), the
choice of a default (`Select`, `Tagged`), removals by an administrator (`Prune`) or by the timer
(`Reclaim`), one image at a time (`Removed`), and rebuilt containers. `VersionRead` and `IdRead` may
fail: then an unknown version or no image is recorded. `Fetch` is the version list: one fetch in
flight that callers share, and `ClearCache`, which does not stop it. Two histories: `late` are the
requests whose default another one replaced before they recorded it, and `clash` says that the last
to write the record was one of them.

### SkillMarket

`Publish`, `Extracted`, `Published`; `Unpublish`, `Unlinked`; `Install`, `Import`, `Uninstall` with the
script in the volume (`Scripted`, which may fail or lose its answer) and the record after it
(`Recorded`). Beside the requests the tenant writes and deletes skills of its own (`Write`, `Delete`),
and a reset or the deletion of the volume removes them all while the records stay (`Erase`). A
text is the number of the request or change that wrote it, and so is its hash. `provider` is chosen
at first: with json a publication writes the list it read before its script, with mongodb the
shared one (`List`). Histories: `restored` are the entries an older list put back, `mixed` the skills
of a volume whose operations failed or overlapped, `lost` those deleted beside the requests.

### TenantConfig and CredentialsFile

`TenantConfig` is the sequence of helper scripts each signed request runs over two files (`Configure`,
`Clear`, `ClearKey`), where each may fail before or after it changed its file and the reading
before them may fail. `CredentialsFile` is the line editor `merge-credentials.mjs`: `Set`, `Del`,
`DelFlat` and their helpers edit lines by pattern; `Value`, `Rest` and `Loads` say what the file
means as YAML, and the initial states are all files of the shapes DSH and the script write, those of the old flat
layout included, with empty lines and comments between their parts.

### UserPage and AdminPage

A flow is an event handler or a tick suspended at an await. `UserPage` has the mount, account
events, the signed connect with its second signature, the queue polling and the buttons of
`UserCenter.vue`, each action with the refs it sets and the `finally` it goes through. `AdminPage`
has what decides which view `AdminPanel.vue` shows. `StopPolling` there is the code's own
recursion: it throws.

### Modules for TLC

`MCTenantLifecycle` bounds the operations a behaviour issues; `MCTenantPorts` adds the mode
(section 4); `MCUsageMeter`, `MCSessions`, `MCCwtApproval`, `MCTenantConfig` give constants their values.
**`MCRequests` and `MCPlatform` put parts that share no state side by side** (they extend Gateway
and CwtApproval, so that a run and a theorem state the same formula): the variable `part` is
chosen at first and never changes, the part's variables follow its module, those of the others
are `Off` throughout. A property names its part (`part = "gateway" => ...`). Nothing is composed by
this; it is several checks in one run. What does interact is modelled together in one module
(docker, records, pool and routes in TenantLifecycle; caches and transactions in CwtApproval and
StateStore; cookies, tokens and container in Gateway), and across modules by the free choices
named above.

## 4. Runs

| Run | Instance | Shows |
|---|---|---|
| `lifecycle_ports` | 2 tenants, 2 public ports; docker, readiness and binds failing, refused starts, containers that exit. Mode interleaved: 2 tasks, 3 operations of any kind. Mode serial: 5 operations of any kind one after another | TypeOK, NextPortFresh in both modes; SerialPorts, SerialPool |
| `lifecycle_recovery` | 1 tenant, 2 tasks, 2 operations plus unbounded sweeps and heals, taken internal ports | OperationsEnd, DriftHealed, RouteHealed |
| `sessions_confirmed` | 3 tokens in 2 stores, each may expire, 2 starts, crashes, writes accepted | TypeOK, Refines, DrainKeepsLogins |
| `sessions_live` | 2 tokens of one store, one may expire, 2 starts, every fault: crashes, refused writes, requests before the hydration, gateway logouts | SessionsKept, Mirrored, LogoutAnswered |
| `usage_meter` | 2 tasks, every operation and fault, limit 2, ages to 2 | TypeOK, BilledOnce, RevokedLimited, LimitEnforced |
| `requests` | gateway (2 requests, 2 hosts, 3 starts of the container), skills (either provider; 2 tenants, names, jobs; 3 requests or changes of a volume), configuration (2 routes, 3 requests), credentials file (2 keys), images (2 versions, 2 jobs) and versions, user page (2 accounts, 2 flows at once, 4 in all), admin page (2 visitors) | TypesOK, GatewayRecovers, NobodyStranded, SharesKept, ShownTrue, ListFinal, NoOrphans, EditsRight, CurrentRecorded, LoadingEnds |
| `platform` | approvals (2 addresses, 2 requests at once, 2 applications, `Keep` 1, a failed request, crashes), state store (2 tenants, 2 saves at once, 3 operations, 2 starts), signatures (2 wallets, both administrators at first, 3 numbers, a pool of 2, 2 answers of the gateway to one signature), queue (3 tenants, 2 jobs, a list of 2, 1 container), monitor (2 tenants, 2 rounds), disk (2 volumes), start (2 tenants, 3 boots, 1 early request) | TypesOK, AuditTrail, ConfirmedKept, ApplicationsSettled, RecordsKept, SignedOnce, LastWorks, Overshoot, QueueFair, RaisedOnce, SizesTrue, RestoredTrue, PatchSynced |
| `port_race` | 2 connects | PortsUnique is violated |
| `meter_restart` | 1 task, connect, stop, restart | MeteredWhileRunning is violated |
| `half_approved` | the approvals with crashes only | ApprovedWhole is violated |
| `clear_config` | configuration, 3 requests | ClearedAll is violated |
| `admin_denied` | admin page, no network faults | DeniedNotAdmin is violated |

**Bounds.** Two public ports and two tenants let the range run out, so recycling, reclaiming and
refusing all happen; five serial operations cover create, remove, create of the other tenant,
rebuild and reconnect; two tasks are every pair of operations, and a third operation after them
meets what the pair left. `MaxAttempts = 2` (64 in the code) lets an attempt fail and be followed
by another. Two starts are a crash and a recovery. A queue of two jobs has one running and one
behind it. A limit of two minutes tells none, some and all of it apart, and the sum of two
segments from one. With `Keep` 1 the second rejected application removes the first; two
applications are one whose save overlaps the other's decision. After a failed request
(`Calm` of MCPlatform) new CWT requests run one at a time until the server restarts; those under
way go on; likewise new requests for images once a record has been overtaken (`Calm` of
MCRequests). Three operations on the state
store are two saves that overlap and one after them. Three starts of a container are one
before, during and after a request. A pool of two challenges is full with three numbers.
Three tenants in a list of two are one served, one before another, and one refused; a check that
lets one container through is exceeded by the second. Three boots are one that writes a
patch file, one that finds it, and a change of the configuration between. Four flows on the user page
with two pending at once are every pair, and what two more meet. The heal and the sweep are not
counted among the operations of `lifecycle_recovery`: they recur for ever.

**In `usage_meter` a start overlaps no other operation** (`Alone`: connect, reset, apply, upgrade,
remove, erase); CWT decisions come at any moment of them. The stops, the restart, the sweep, the
check and destroy overlap one another freely. BilledOnce needs the restriction for connect, reset
and apply: with one of them overlapping it does not hold (section 7). For upgrade, remove and erase
it only keeps the run small: NoMinuteTwice is proved with their overlaps, and RevokedLimited is
proved for every interleaving (section 6); LimitEnforced is checked without them. For the same reason as BilledOnce, SerialPorts and SerialPool speak of operations that
do not overlap: `port_race` is what happens when they do.
Internal ports are never found taken in `lifecycle_ports` (they are in `lifecycle_recovery`): such
a conflict moves even a lone operation to a port that may be another tenant's (section 7).

`CHECK_DEADLOCK FALSE` is set everywhere: the instances bound requests and starts of the server,
so they may stop where the program would go on serving.

**Fairness.** Every docker command, probe, bind and database call returns, with a result or an
error, because each has a timeout: weak fairness of a suspended task, of the mirror queue, of a
waiting logout and of the exit after a drain. The timers are `setInterval`s that never stop, and
what they need is available again and again (a free turn, a port another program held, a
container found idle, docker answering that a container is gone, a docker stop that works at
last): strong fairness of those steps. No fairness is assumed of requests. Where something must
come to an end without a timer the property is stated without fairness, about the states in
which all has ended (LoadingEnds) or about what a waiting request waits for (NobodyStranded).

## 5. Properties

- Lifecycle: **NextPortFresh** (the counter has passed every recorded or pooled port);
  **SerialPorts**, **SerialPool** (no port twice, none both pooled and recorded); **OperationsEnd**
  (neither the creation loop nor a takeover of another's container goes on for ever);
  **DriftHealed**, **RouteHealed**. Stated and refuted: PortsUnique, ApplyKeepsPort.
- Start: **RestoredTrue** (after the restore, running in the record means running and reachable),
  **PatchSynced** (a container with an old configuration has an old file too, so that the next
  start sees it, unless the restart after a new file was cut short).
- Meter: **BilledOnce**, **RevokedLimited** (a revoked mark comes back only from a record that an
  operation under way held and another had replaced before the revocation), **LimitEnforced** (also when docker refuses to stop
  the container for a while, after the segment has been settled). Refuted: MeteredWhileRunning.
- Sessions: **Refines**, **SessionsKept** (a saved session that leaves the database has expired or
  was logged out, whatever is refused and whenever the process ends; requests served before the
  hydration make the two exceptions of section 7), **DrainKeepsLogins**, **Mirrored** (once a save of
  the hydrated store is queued, a session in it reaches the database unless it is dropped, the
  process ends or the last write was refused), **LogoutAnswered**. Refuted when a write fails:
  LoggedOutStaysOut.
- Approvals: **AuditTrail**, **ConfirmedKept**, **ApplicationsSettled** (the whole-array saves leave
  cache and database equal). Refuted: ApprovedWhole.
- State store: **RecordsKept**, which is AnsweredKept (what a caller was told is stored or has been
  overtaken by something later), StoredBelowNext (stored ports are below the stored counter)
  and SettledRecords (at rest the database has the records of the cache). Refuted: RemovedStored,
  StoredWhole.
- Gateway: **GatewayRecovers**, which is GetHealed (a page is refused only if the key changed
  again after the retry) and RestartsSpaced (one recovery restart per window);
  **NobodyStranded**. Refuted: LaunchCurrent.
- Signatures: **SignedOnce** (at most once, and only what was signed; the gateway's check, which
  carries no operation and answers replays too, is left out of the once), **LastWorks** (the last
  challenge works until used, replaced, spoilt or too old).
- Queue: **QueueFair** (within its hour a place only gets better, nobody is twice in the list,
  and one leaves it only to be served), **Overshoot** (the containers made on a count that docker
  answered exceed the limit by fewer than the calls, whatever failed counts let in besides).
- Monitor and disk: **RaisedOnce**, **SizesTrue**.
- Skills: **SharesKept** (who loses an entry, or its ownership, loses it to its unpublication or to
  a publication that had looked at the list before the entry was made: of the same name, or with
  json of any), **ShownTrue** (the shown hash is that of the file; records and volumes agree where
  nothing failed, overlapped or was deleted beside the requests).
- Images: **CurrentRecorded** (when no default waits for its record, the record has nothing that is
  not of the default, unless its last writer had been overtaken; it may be empty, for docker's errors).
- Configuration: **ListFinal**, **NoOrphans**, **EditsRight**. Refuted: ClearedAll.
- Pages: **LoadingEnds** (once all flows have ended the overlay is down). Refuted: DeniedNotAdmin.

Each has a mutant of the code's model that breaks it, listed in PROJECT.json.

## 6. Proofs

A theorem holds for every value of the constants: any number of tenants, tasks, requests, wallets
and bounds. Each rests on an inductive invariant: the states a property allows are more than those
the code reaches, and what excludes the others is the argument for the code.

| Module | Theorems | What the invariant adds |
|---|---|---|
| `TenantLifecycleProofs` | TypeCorrect (TypeOK) | the creation loop asks docker below its end, so that `port + 1` stays in range |
| `TenantPortProofs` | CounterFresh (NextPortFresh), SerialPortsUnique (SerialPorts), SerialPoolUnowned (SerialPool) | ports in local variables and captured record objects, which may be recorded later, are below the counter too, other than those docker has not accepted yet; while one operation runs at a time, see below (`OneOwner`) |
| `RequestsProofs`, gateway | TypeCorrect, NoWaiterStranded (NobodyStranded), Recovers (GatewayRecovers) | an activation is owned by the request that began it, which stands still as long as it runs (`Paired`); a retried page begins an activation of its own, which reads the key after the refusal (`Healing`); one recovery per window (`Spaced`) |
| `RequestsProofs`, other parts | SkillsShownTrue (ShownTrue), SkillSharesKept (SharesKept), CurrentImageRecorded (CurrentRecorded), PageNotFrozen (LoadingEnds), ConfigListFinal (ListFinal), ConfigNoOrphans (NoOrphans), TypesHold (TypesOK, all parts) | see below |
| `CwtApprovalProofs` | TypeCorrect (with the caps), TrailHolds (AuditTrail), NeverLost (ConfirmedKept), Settled (ApplicationsSettled) | one transaction at a time holds the collection, with the image it took when it got hold of it; whoever changed the cache has an image still to take, or has failed (`Stages`, `Images`, `Keeping`) |
| `SessionsProofs` | TypeCorrect (TypeOK), SavedStays (SessionsKept), ShutdownSaves (DrainKeepsLogins), Implements (Refines), StaysOut (LoggedOutStaysOut) | under every fault: what the files had is everywhere (`Filed`), and a row is in all it can be overwritten by, apart from what the json image added and from a save of that image (`Wide`); without early requests: every job has the hydrated object, and a row is in all it can be overwritten by (`Saving`); a session that is logged out is in no snapshot its logout waits for (`Leaving`) |
| `UsageMeterProofs` | TypeCorrect (TypeOK), NoMinuteTwice (BilledOnce), RevokedAgain (RevokedLimited) | what a task will write back, its startedAt and its captured record, is as sound as the record (`Sound`); after a revocation what it will write back of a replaced record has no mark (`Marks`) |
| `PlatformProofs` | HonouredOnce (SignedOnce), LastChallengeWorks (LastWorks), OneRaise (RaisedOnce), SizesRight (SizesTrue), RestoreTrue (RestoredTrue), PatchesTrue (PatchSynced), RoomExceeded (Overshoot), PlacesImprove (QueueFair), TypesHold (TypesOK, all parts) | what is in a pool, pending or a ticket was never honoured; one round of the monitor works, and one that asks has raised nobody yet; the scan's list is the shown one while they share it; what the restore has passed is true already; containers and calls that an answered count let through together stay in bounds; the waiting list, see below |
| `StoreProofs` | RecordsStay (RecordsKept) | see below |

**The owners of ports.** While one operation runs at a time, a port is in one place: a record, the
pool, or the local variable of the task under way, and that one is free for the tenant or its own
already (`Owns`). A new port is nobody's because it is the counter, which has passed all known
ones: the second theorem rests on the first. What excludes the creation loop's takeovers, which
adopt the port of whatever container they find, is that a tenant whose container was missing when
the operation began has none later either, so that no name is ever taken.

**The invariant of StoreProofs.** Three images of a record are compared: of the cache, of the
database, and of each transaction. A transaction is ahead of the database in what it has written
and behind it elsewhere, never ahead of the cache; nobody else writes what it has written, and
nothing it has written was committed under it (`Exclusive`, `ViewRow`). Therefore a commit moves
the database forward only. The operation a transaction saves is in its view once its record was
sent (`OwnRow`), so what is answered is stored. Ports are sent after the records (`ViewPort`).
A record that differs from the database is still carried by some transaction, or a save has
failed (`Settling`). Removed tenants are exempt from their removal on: that is where the code
fails (RemovedStored).

**The invariants of RequestsProofs.** *Skills:* the hash in the index is that of the published file
(`HashesTrue`); a volume and its record disagree only while a script that made the difference has
its record still to write, and only one such job is there until two overlapped (`RecordsTrue`). A
publication has the list of its beginning: the name was free or its own in it, and every entry
that is older than it and still there is in it (`ListsTrue`), so that what it drops is younger.
*Images:* what a build or a choice will tag and record is the version of the image it names
(`TagsRight`, `ChoiceRight`); at most one request has tagged a default that nobody replaced and it
has not recorded, what it has read is of that default or none (`ReadRight`), and when there is none
the record is right unless its last writer was overtaken (`DefaultRight`). *Page:* the overlay is up only when
some flow covers the page, that is, has a step left that takes it down (`Covers`); the timer's
flow never does more than ask and fetch (`FlowRight`). *Configuration:* what the scripts left to
run will make of the files is fixed when the list has been read. `Coming` is the list as they
leave it, which never changes while they run; a key asked for is set or will be, and no script
will remove it (`ListComes`); a key that is set, or will be, is of a provider in `Coming`, or will be
removed, unless something failed (`KeysOwned`). A reading comes last, and no list follows another
(`LastRead`, `NoRead`).

**The waiting list** (PlacesImprove). Nobody is in the list twice, and the entries older than an
hour are a prefix of it (`Distinct`, `Aged`: `ListInv`). So what `Fresh` keeps is a tail of the list
in its order. The list changes in three ways: a connect drops the prefix and may append a tenant
that is not in what is left, a round takes the first entry and begins its tenant's call in the same
step, and one more entry becomes old. None moves anybody back.

**The types** (TypesHold, for each of the two composed specifications). Where the invariants above
give a part its types they are used; the others have an invariant of their own: `StoreTyped` (of
the views of a transaction too, with no hypothesis on the faults), `SignedRange`, `StartRange`,
`MonitorInv`, `MarketInv` (with any provider), `ImageRange`, `ConfigRange`, `PanelInv`, `OneSigns` and
`PageFlags`. TypesOK says more than types in places: a pool never holds more challenges than its
limit (it grows by at most one challenge, and only when what has not expired leaves room); the
monitor's flag is up exactly while a round works; the scan's list is the shown one as long as it
is marked so; a step of the restore works on a tenant exactly in the three stages that
have one; and the tenant's page says it is signing exactly while one flow signs, never two
(`OneSigns`: only `Sign` and the two buttons begin a signature, each when the flag is down, and
every way a signature ends takes it down). The tenant in a request of the market is one as long as
its script runs, and a hash is never of a request that has not come (`MarketInv`).

**The refinement** `Spec => Refines` of Sessions is proved step by step with the mapping of the run:
the initial states map to initial states of SessionContract, every step to a step of it or a stutter.

**Hypotheses.** Some theorems hold for fewer faults than the model knows, because with the others
the property is false (section 7): SerialPortsUnique and SerialPoolUnowned exclude internal ports
that docker finds taken (`"internalTaken" \notin Faults`): after one the loop goes on with
`port + 1` though the public port was free, and past a recycled port, or the tenant's own, that is
another tenant's. RecordsStay excludes requests that do not wait
for the start (`"early" \notin Faults`); ShutdownSaves also refused writes; Implements and StaysOut
allow crashes only, since a refused write or the gateway's logout answers too early.
NoMinuteTwice has the restriction of `usage_meter` for the three operations that
write a meter back after an await: `{"connect", "reset", "apply"} \subseteq Alone`. SavedStays,
RevokedAgain, SkillsShownTrue, SkillSharesKept, CurrentImageRecorded, HonouredOnce and RoomExceeded
have no hypothesis: the cases in which the code falls short of a document are exceptions in the
property itself, each with the line that makes it. ConfigNoOrphans has `OfficialApart`, no route has the official key: one named
"deepseek" would (`tenant-config.service.js:130` makes DEEPSEEK_API_KEY of it).

**Assumptions** on the constants, which TLC evaluates in the runs: a non-empty range of positive
ports, and internal ports that are distinct and not below it (TenantLifecycle); `NoReq` is no
request and there is a first start (Gateway); scopes are those of the tokens, bounds are naturals
(Sessions, UsageMeter, CwtApproval); challenges, containers, jobs and known tenants are finitely
many, the port range has room for the tenants known at first, the ports' document has not the id
of a tenant, no container is the absent one, and there is a tier and room for a container
(MCPlatform); bounds are naturals, a page has mounted before anything else, and administrators have
wallets, which is how the server tells them (MCRequests); a version is none of the
words beside one and there is a first image; routes are finitely many and have different keys,
which the pattern of routes ensures (`tenant-config.service.js:463`) (MCRequests).

**Only model-checked:**

- OperationsEnd, DriftHealed, RouteHealed, Mirrored, LogoutAnswered, LimitEnforced: liveness, out of
  the prover's reach with the fairness it needs.
- EditsRight: the line editor of the credentials file is a fold over the lines of a file, and what
  a fold makes of every file takes an induction over its lines. TLC checks it on all files of the
  shapes DSH and the script write.

Every other property of the passing runs is a theorem, some under the hypotheses above.

## 7. Where the code and its documents disagree

Shown by a run (PROJECT.json, findings): `port_race`, `meter_restart`, `half_approved`,
`clear_config`, `admin_denied`.

Seen while modelling; the code's behaviour is in the models, without a run of its own.

Lifecycle and meter:

- `us:1425` a rebuild takes a recycled port before the one the record keeps, so that a legal
  sequence changes a tenant's address, against the comments at 1840 and 2013 (ApplyKeepsPort).
- `us:1474` an internal port conflict also moves to the next public port; the comment at 1476
  says the public port stays. After a recycled port or the tenant's own the next one may be
  another tenant's (SerialPorts fails with the fault `internalTaken`).
- `us:1720` a start that never gets ready marks the tenant destroyed and leaves an earlier
  listener open; 791 relies on destroyed tenants having none.
- `us:2168` removing a tenant whose port was reclaimed pushes undefined into the pool, and one
  rebuilt without a port pushes null (693 tests for that); a later start takes it. With undefined
  `nextPort` becomes NaN; with null the attempts go on at port 1, below `basePort`.
- `us:1384, 1468` a late connect that takes over a new tenant's container adopts the internal
  port as the public one, which the gateway then cannot bind.
- `us:505` restart writes running before readiness and bind; `src/test/finalize-tenant.test.js:11`
  states the opposite order for starts.
- `us:1602, 1693` a start keeps the `usageStartedAt` it read at its beginning; a stop that
  settles meanwhile is billed again.
- `us:1685` a connect that ends after a revocation writes the mark back from the record object
  it took at 1600, if another operation had replaced that object before the revocation, against
  the comment at 736 that a revocation clears it (the exception `outdated` of RevokedLimited).
- `us:1600, 1685` the same write-back undoes any other field another operation set meanwhile, such
  as `lastAutoUpgradeAt` of the monitor; ResourceMonitor has no starts, so RaisedOnce does not see it.
- `us:756` a segment that spans midnight is billed as a whole to the new day.
- The sweep takes a record without containerStatus for a running one.

Stores and start:

- `session.store.js:53` a refused write is only logged and the logout that waited for it
  answered, against line 8 of the file (LoggedOutStaysOut with the fault `write`).
- `tenant-proxy.service.js:735` the gateway's logout does not await `revoke`, against
  `session.store.js:8` and `server.js:373`.
- `server.js:303` listens before migration and hydration, against the comment at 319: a request in
  that window saves the json image over the rows of the database, and a store that was read before
  such a save has not its logins and drops them later (fault `early`; the two exceptions of
  SessionsKept, `ImageSaved` and `Unread`). DrainKeepsLogins and RecordsKept exclude that window.
- `mongo.store.js:39` audit rows expire after 90 days; AuditTrail is about the time before.
- `cwt-admin.service.js:176` two decisions on one pending application both commit when they
  overlap, against `src/test/cwt-admin.test.js:248`.
- `cwt.store.js:90` hydration sorts newest first, addApplication appends, and the pruning counts
  from the end: after a restart the rejected applications that stay are the oldest, against line
  14 of the file.
- `cwt.store.js:104` of two decisions on one address under way, the cache keeps the one called
  last, the database the one whose write it took last.
- `state.store.js:11` a stored image may mix moments: while records are sent one by one the
  cache goes on, and a port may be stored with two tenants (StoredWhole); `state.store.js:136` a
  save that overlaps a removal can store the removed tenant again (RemovedStored).
- `stoppedAt` is not among the fields the store owns: a restart forgets it.
- `us:1247` a tenant list computed before a change fills the cache after the change dropped it.
- `data.service.js` saveAdminConfig changes its cache before the write that may fail.
- `us:590` the patch file is written before the restart that makes it effective; a crash or a
  failed restart between the two leaves the container as it was, and no later start tries again.
- Changes requests make while `restoreFromDocker` runs are overwritten from the record it captured.
- A container whose port docker does not tell keeps a running record without a route until the
  heal timer comes.

Gateway, signatures, queue, monitor:

- `dsh-auth.service.js:55` the token is read before the start time it is filed under; a restart
  between the two files an old token under the new start (LaunchCurrent).
- `gateway-enter` opens a session after the awaited `ensureContainer`, though a CWT approval may
  have been revoked meanwhile, and has no branch for a full queue.
- `us:403` rounds of the queue do not pass `skipQueueCheck`; `removeFromWaitQueue` has no callers;
  stale entries are pruned only when one is added; a docker failure drops a waiting tenant
  although the page of `resource-exhausted.js:27` promises the creation.
- The monitor computes the next tier before it awaits the statistics: it lowers a tier an
  administrator set meanwhile.
- `us:977` reads the volumes as an array, `docker.service.js:1458` returns `{ items }` when disk
  space is low.
- `tenant-proxy.service.js:798` the gateway's verification answers valid to a replay and to a
  number that was never issued, against the comment at 797 (SignedOnce counts these apart).
- `docker.service.js:1281` a `docker ps` that fails lists no containers, so `us:299` counts none and
  lets every connect pass: the limit `us:295` states has no bound then (Overshoot counts apart the
  containers made on such a count). The comment at `us:241` says ports and containers are hard
  whatever the mode; at 1392 and 1406 the mode warn lets all pass.
- The rate limiter counts in fixed windows, its header says sliding.

Images, skills, configuration:

- `admin.routes.js:1085` builds may overlap choices and removals: two changes of the default
  confuse the record, a crash between tag and record leaves it old, a reclaim goes on during a
  build (`maintenance.service.js:21`), and the default itself may be removed (883).
- `admin.routes.js:1287` the flag of a batch is checked before awaits, and a single apply ignores
  it; a container whose inspect fails does not keep its image from being pruned.
- `docker.service.js:822, 863` swallow docker's errors, and null is recorded (844, 1025): the default
  image then counts as no one's current and may be pruned, against `admin.routes.js:876`.
- `skill.service.js:324, 388` two first publications of one free name overlap, both pass the check,
  and the later takes the entry from the first sharer; with the json provider a list read before
  the script drops what others entered since and puts back what they unpublished.
- `us:669, 1160` a reset and the deletion of a volume remove the installed skills and leave their
  records, as does a tenant that deletes a file itself.
- `skill.service.js:316` at 20 shares an update
  of one's own is refused; a publication during an unlink loses its file.
- Overlapping configuration requests of one tenant lose updates; a providers map that cannot be
  read is taken for an empty one; a helper killed by its timeout may still write; a custom route
  "deepseek" shares the official key.
- `merge-credentials.mjs` refuses every deletion in the flat layout; an empty line inside `refs`
  ends what the line patterns take for the block.

Pages:

- `UserCenter.vue:1242` the previous account's data is shown after a switch until the new answer,
  the poll of the old address is not cancelled (1569), and `loadMine` joins the old one's request;
  the poll goes on after the wallet disconnects and may set connected; the logout of a switch is
  undone by a pending answer of `/connect`; the result of a signed connect for a stopped container
  is ignored (1532).
- `AdminPanel.vue:2814, 2820` the recursion of `stopPolling` also makes logout and unmount throw; a
  failed precheck shows the no-access page though the comment at 1753 says the signature is the
  fallback; a race of switches can leave the management view to another wallet (1724); the first poll of a
  batch may answer "not running" and leave the mask (2566-2606); the end of a batch stops the
  timer a build shares (2558).

## 8. Not modelled, and the plan

Not modelled: the tenant list cache (read only; its one hazard is listed), the rate limit and
stateless validation, constants and helpers, other views than the two pages, the tables and
dialogs of the pages, installers and one-off scripts. Partly modelled: command lines, quotas and
diagnostics of the docker driver, backups of volumes, usage rows and the operation log, the json
provider, the YAML merge of `settings.yaml`, the builder cache and fstrim of the maintenance,
verification of CWT tokens. These are pure I/O or pure functions, apart from what the modules
name as an abstraction.

What would add most next, in order:

1. Composition: Startup with StateStore (a start over a database that is behind), Capacity with
   TenantLifecycle (ports as the resource that runs out).
2. The list cache beside StateStore; the handlers behind the admin page's batch operations.

## 9. Running

`tlc -workers 2 -config <run>.cfg <module>` with the module PROJECT.json names for the run, and
`tlapm <module>` for the eight modules of section 6: half a minute to four minutes each,
PlatformProofs and RequestsProofs longer (about a quarter of an hour). `requests` and `platform`
take three to four minutes, `usage_meter`, `lifecycle_ports` and the two runs of sessions two to
three, the others less than one.
