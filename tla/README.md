# Verification of claude-manager

TLA+ models of the manager (the Node process under `server/`) and of the parts
of its dashboard (`src/`) that keep state, checked with TLC on small instances
and, where marked, proved with TLAPS for all values of the constants.
`PROJECT.json` lists the runs, the source lines every definition stands for, the
hazards and the theorems.

## The system

claude-manager runs Claude Code in Docker containers, "instances", on its own
host and on remote ones. One Node process serves the dashboard and drives

* Docker daemons, through `dockerode` (local socket, or SSH),
* a squid proxy, through ACL files that the proxy container watches,
* a LiteLLM router, through its HTTP admin API,
* a SQLite database (synchronous, so a statement is atomic).

JavaScript runs one handler at a time, but every `await` lets every other
handler run. There is no lock on an instance or a host. The hard behaviour is
therefore nearly always of one kind: what a handler read before an `await` is
used after it, a call in the middle of a sequence fails, or the process ends.
The rest is in rules that are written down twice (what a create and a recreate
put into a container, what two views make of one instance) and have to agree.

### Inventory

| Component | State | Operations | Hard behaviour | What makes it correct | Module |
|---|---|---|---|---|---|
| Docker event streams, `routes/instances.js`, `routes/hosts.js` | `eventStreams`, `streamBackoff`, `lastAttempt`, the reconcile timer, `hosts` rows | reconcile, end of an attempt, drop, host POST/PATCH/DELETE, shutdown | overlapping attempts, late completions, events of dead streams | delivered once; nobody listened to who should not be; a reachable host is watched in the end | `HostWatch`, `EventStreams` |
| Instance lifecycle, `docker.js`, `routes/instances.js` | the instance's containers, its row | recreate, update, remove, start, stop, adopt | overlapping operations, a failed call, a crash, ids that Docker does not know | never lost; replaced or restored; what is shown is what is acted on | `Lifecycle`, `Directory` |
| What an instance is made of, `docker.js`, `placement.js`, `llm-routing.js` | environment, policy, model, key scope, binds; the learned mount template | create, recreate, rotate, reconfigure | two pieces of code build the same thing, from an older one | a replacement is what a creation would make; a key stays within its backend; mounts are its own | `InstanceSpec`, `Mounts` |
| LiteLLM keys, `litellm.js`, `llm-routing.js`, `routes/litellm.js` | virtual keys, their hashes, the key in a container | mint, scope, rotate, revoke | database, router and container are updated by different calls | no instance on a dead key, no key nobody can revoke | `Lifecycle`, `CreateInstance`, `InstanceSpec` |
| Instance creation, `docker.js`, `placement.js` | volume, key, container, row | create | undo of a half-made creation, concurrent creations | nothing left behind; under the cap | `CreateInstance` |
| Proxy ACLs, `proxy.js` | one file per instance | write, add hosts, remove, full sync, debounced resync | addresses are reused; a sync works from a snapshot | the files are what the running containers are entitled to | `ProxyAcl` |
| Access requests, `routes/access-requests.js` | `access_requests` | file, approve, deny | approved before it is applied | resolved once, applied once | `Grants`, `ProxyAcl` |
| Capability grants, `grants.js` | `capability_grants` | create, renew, expire, drop with a recreate | expiry check against a renewal; times compared as texts | an expired grant is swept, a renewed one is not | `Grants` |
| Idle stop, `idle-stop.js` | `pending`, a tick flag | ask, wait, stop | several awaits between the decision and the stop | an instance in use is not stopped | `IdleStop` |
| Browser terminals, `routes/terminal.js`, `TerminalTab.jsx`, `terminalBus.js` | `activeSessions`, timers, stream, socket; refs of the tab | open, input, end, heartbeat, idle timeout, reconnect, unmount | the socket closes, or a timer fires, while the handler awaits; a tab unmounts under a reconnect | one socket per tab, dead sessions go, retries end | `Terminals` |
| Device authentication, `auth.js`, `routes/auth.js`, `useAuth.js` | `devices`, cookie, page | register, approve, revoke | first device, administrators revoking each other | an administrator remains | `Devices` |
| Hosts and fleet reconciliation, `hosts.js`, `routes/hosts.js`, `db.js`, `index.js` | `hosts` and `instances` rows, engine ids | register, edit, ping, delete; startup | a host that answers with nothing, or as somebody else | live instances are not reaped | `Fleet` |
| Workspace image, scans, connectivity check | a busy flag each, last results | run, finish, fail | two triggers at once, a chain of jobs | one run at a time, also after a failure | `Jobs` |
| Proxy log and health, `proxy-log.js`, `health.js` | the followed stream, the report, the address cache | follow, retry, check, look up | a proxy that comes and goes, slow checks that overlap, an address that changes hands | trouble shows; whoever is blamed had the address a moment ago | `Watchers`, `Denials` |
| Dashboard data, `useInstances.js`, `useTopology.js` | list, graph, WebSocket, timers | refetch, event, reconnect | answers out of order, lost events, changes nobody is told of | the list shows what it was told of, the graph everything | `DashboardFeed` |
| Topology, status, maps | none | pure functions | each view has rules of its own; hosts and containers are read at different times | they agree; edges join what is there; nothing overlaps or falls off | `FleetViews`, `MapLayout` |

How they interact: routes call `docker.js`, which reads hosts and rows from
`db.js` and calls Docker; creation, recreation and rotation call LiteLLM;
creation, start, recreation, removal, approvals and container events write ACL
files; container events reach the dashboard through the event streams; grants
and idle stop call the lifecycle from timers, the end of an image build asks for
a connectivity check, and terminals keep their instance from the idle stop.

## Modules

| Module | Models |
|---|---|
| `HostWatch` | what the event streams promise: at most one subscription per host, only where allowed |
| `AtomicInstance` | what the operations on an instance promise when they come one after the other: each takes effect at once or not at all |
| `EventStreams` | `startHostEventStream`, `stopHostEventStream`, `restartHostEventStream`, reconcile and shutdown in `routes/instances.js`; POST, PATCH and DELETE in `routes/hosts.js` |
| `Lifecycle` | `recreateInstance`, `removeInstance`, `startInstance`, `stopInstance` and their routes, the rotate route, call by call, for one LLM-routed instance |
| `CreateInstance` | POST `/api/instances`, `createInstance`, `admit`: the resources a creation makes and undoes |
| `ProxyAcl` | `proxy.js` with the routes and events that call it |
| `IdleStop` | `runIdleCheck` and `decide`, against events, terminals, starts and stops |
| `Grants` | `checkExpiredGrants`, the grant routes, access requests for a capability |
| `Jobs` | image rebuild, security scan and connectivity check with their flags |
| `Watchers` | `follow` of the proxy log and `runHealthCheck` |
| `Denials` | `instanceForIp` and its cache, as used by `handleLine` and `callerIsInstance` |
| `Fleet` | hosts, their engines, the rows of instances, `syncWithDocker` at startup |
| `Terminals` | the session on the server and the tab in the browser, over two ends of a socket |
| `Devices` | the devices table, the auth hook and routes, `useAuth` |
| `DashboardFeed` | broadcast, `useInstances`, `useTopology` |
| `FleetViews` | `buildTopology` and what the three layouts and the list make of it |
| `MapLayout` | the coordinates of `layoutFleetMap` and `layoutNetworkMap` |
| `Directory` | labels, `docker_id` rows, adoption, the lists and the lookups |
| `InstanceSpec` | environment, policy, model and key scope of a created and a recreated container |
| `Mounts` | the template learned from other containers, explicit binds, prepared directories |
| `MCInstances`, `MCBackground`, `MCDashboard` | compose three, seven and eight of these (below); `MCLifecycle` has constants for the other runs of `Lifecycle` |
| `EventStreamsProofs`, `LifecycleProofs`, `CreateInstanceProofs`, `ProxyAclProofs` | theorems about the module they are named after |
| `BackgroundProofs` | theorems about `IdleStop`, `Grants`, `Jobs`, `Watchers`, `Fleet`, `Denials` and, with `ProxyAclProofs`, `MCBackground` as a whole |
| `InstanceProofs`, `MapProofs`, `DashboardProofs` | theorems about `Mounts`, `InstanceSpec` and `Directory`; about `MapLayout`; about `Devices`, `Terminals`, `DashboardFeed`, `FleetViews` and `MCDashboard` as a whole |

A definition whose name begins with `Mut` is a bug the code could have had (or
once had); it is not part of any specification. `PROJECT.json` says which
property it breaks when it takes the place of the definition it follows.

### Composition

Modules that only affect each other through what the other calls its
environment need not move together: `IdleStop` has `HookEvent`, `OpenTerminal`
and `StartedByOthers` for everything that terminals, routes and grants can do
to it. So `MCInstances`, `MCBackground` and `MCDashboard` put such modules side by side with a
variable `focus`: in a behaviour one of them moves, and the others rest in one
initial state. That is the union of the modules' behaviours, not their product:
an invariant of one is checked in all of its own reachable states, once.
Fairness conditions are conditioned on the focus for the same reason. What a
module that rests starts from is fixed where its initial states are many. In
`MCInstances` operations and creations that have not begun come in one order, as
they are interchangeable until then. The
invariant `MapsRight` is conditioned on it because a layout is costly to compute
and cannot change while its module rests.

### EventStreams

`slot[h]` is the entry of `eventStreams`: nothing, the `CONNECTING` sentinel or
a stream. An attempt `t` is `opening` from the reconcile that started it until
`getEventStream` answers, `live` when its data handler is attached, `destroyed`
once the manager ended it (its `end` event may still fire) and then `idle`.
`target` is the endpoint it was connected to, taken from the row when it was
started. `backoff` and `since` count 5 s periods of the reconcile timer, so the
60 s cap is 12. `cuts` counts how often an attempt may fail or a stream break
though the daemon answers (`Lost`), as a connection can; they are bounded, since
one that always breaks is never watched. `Reconcile` is one pass of the timer over all hosts. `Opened`,
`OpenFails` and `Dropped` are what follows the `await`, the `catch`, and
`dropped`. `up` says which daemons answer; the environment changes it (`Flap`).
The refusal of DELETE while instances live on the host is left to chance.
Reading events from the stream, and their payload, is not modelled: a live
stream is one whose events are broadcast.

### Lifecycle

One action is the code between two awaited calls with the effect of the call
that ends it. `pc[o]` is the call operation `o` is about to make. Containers are
numbered as Docker creates them; `resolveContainer` takes the newest with the
instance's label, as `listContainers` reports them newest first. A key or token
is named after the operation that issued it; `hash` and `dtok` are whose digest
the row has. A call fails (`Fault`) without effect; calls on a container that
is gone, on a name that is taken or with a key that is revoked fail by
themselves. A removal may take the volume (`purge`): it is looked up before the
container goes and removed after it, and the records go last. `Init` ranges over running and stopped containers, own, legacy and
master keys, and over rows with and without token and key.

Approving a policy request and `update-claude` are recreates; that an approval
does not upsert the row makes no difference to these properties. The stop of the
grant expiry and of the idle check is the stop route's call.

### CreateInstance

The sets say for which instances a volume, a valid key, a container, a running
container, a row and a key hash exist. Checks that fail before anything is
created are not modelled here (they are in `InstanceSpec`), except the cap.

### ProxyAcl

A file is an address and a set of hosts. A task is a call of
`writeContainerACL`, `addHostsToACL` or `syncAllACLs` between two awaits.
`Starts`, `Dies` and `Replace` are what happens to containers, whoever causes
it; `start` and `die` events set `timer`, and `Resync` is its firing. Only
instances on the manager's own host are modelled: `proxy.js` talks to the local
daemon alone. A Docker call in a task may fail (`TaskFails`), which ends the task
as the `catch` of `syncAllACLs` or of the route does; `failed` remembers it until
the next resync. The connectivity check's own file is left out.

### IdleStop

One local instance (the idle stop looks at no other daemon). `tick[t].at` is the
await a firing of the timer is at; `ReadUsage` is the part before the first
await, so `quiet` and `answered` are what the tick goes by later. Times are ages
that stop where they stop to matter; no unit of time passes during a tick.
`prompts`, `askedIdle`, `idle` and `watched` are history the properties need.

### Grants

One capability of one instance. The clock is an hour of the day and the expiry
is hours left, which is what it takes to tell the text comparison
`expires_at < datetime('now')` from one of times: on the same date `T` sorts
after the space, so a row is found once the date is over (`Overdue`). A sweep
reads, then awaits the stop; a call of a route awaits its recreate or start. A
recreate is one step here.

### Jobs

`flag` are `state.building`, `state.scanning` and `state.running`. A rebuild
goes through `target`, `build`, `detect` and `remote`, and its end turns into a
smoke test unless one runs. `held` is what a task read before an await: the
version it found, or the row it compares the scan with. `Restart` ends every
job and restores what the database has.

### Watchers and Denials

`Watchers` has the two observers of the proxy as loops of awaits: `follow` with
its retry timer, and health checks that may overlap, the last to end deciding
the report. `Denials` is about one address: `holder` has it now, `ago` says how
long ago each instance last had it, `ipCache` is the list that is kept, and a
`line` is a denied request or a callback that waits for a list. Which repeats of
a denial are reported, and all counts, are left out. `Latency` bounds how long
the daemon takes for a list; the client of `proxy-log.js` sets no timeout, so
the bound in `RecentHolder` is only as good as the daemon.

### Fleet

A host's address leads to a daemon (`points`), which a probe learns as its
`engine` unless another host has it. An instance's container is on one daemon,
its row names a host. `boot` walks through `pingAllHosts`, `ensureNetwork`,
`listManagedContainersByHost` and `syncWithDocker`; requests are served only
before and after, as the port opens last. `syncWithDocker` runs at startup only.

### Terminals

A link is a socket seen from both ends, so that a close known to one is not
known to the other: `client` is `readyState`, `server` is where the handler is
(`lookup`, `pty`, `prime`, `serving`), `told` is the code of a close on its way.
A mount is one life of the tab with its own `wsRef` and timer. `Dropped` is a
link that breaks without the server being told; the heartbeat is what notices.
Heartbeat and idle timer run from before the priming, an await, and the
variables `cleanupSession` uses are declared after it (`terminal.js:84-109`,
`208`): one that wants to end the session in between throws out of its timer,
which ends the process and with it every session (`ProcessDies`). A retry timer
that fires on an unmounted tab finds `closingRef` and connects no more.

### Devices

The state of a device is its row; a browser stands for the token it keeps.
`answer` is the response on its way to the page. A request without a body is
admitted and handled in one turn, hence `Approve` and `Revoke` in one step.

### DashboardFeed, FleetViews, MapLayout

In `DashboardFeed` the state of the server is a version, and the question is
which version is shown. Some changes are broadcast (`Broadcast`), others are not
(`SilentChange`): the edit of name, notes and tags, an adoption, the row of a new
instance, whatever happens on a host whose stream is down. `informed` is the
version as of the last broadcast this dashboard was connected for. `FleetViews`
is about what is shown: hosts are read first (`ReadHosts`), then each is asked
for its containers (`AskHost`), unless it is gone, disabled or silent by then,
then the rest is read (`DrawGraph`); hosts and instances change in between, and
every view is an operator on what was read. `MapLayout` translates the geometry of the two maps in hundredths of
a pixel; its steps are refetches that change how many instances of a kind there
are on each of two machines, and what their proxies refused.

### Directory, InstanceSpec, Mounts

Three aspects of one container. `Directory`: which container an id means, by
label or by `docker_id`, for the lists and for the lookups, while one creation
or recreate is under way. `InstanceSpec`: `CreatedEnv` is what a creation sets,
`Recreated` what a recreate makes of any older container, and `ScopeAfter` what
happens to the key; settings, served routes and the host change around them. A
recreate that fails late may leave a key that is narrower, or one that nobody
has. `Mounts`: a bind's source is a path *of a host* and *somebody's*; the memory
directory is that of a `Slug`, which containers with names alike have in common;
the template is learned from the first container that has anything to share and
kept.

## Runs

| Run | Expectation | What it asks |
|---|---|---|
| `Instances` | pass | event streams: three attempts overlap on one host that is edited and lost at will: no stream outside the map, a `CONNECTING` sentinel always has an attempt that will replace or remove it, nobody listened to without permission, refinement of `HostWatch`, and a host that stays reachable is watched for good. Operations: three of any kind in a row, one failing: replaced or restored; removal leaves nothing; refinement of `AtomicInstance`, so that secrets agree and the instance is never on a deleted key. Creations: three at once, two failures or crashes: what was undone left nothing, rows are complete, how far the cap can be overrun |
| `EventStreams_endpoint` | violation | is the stream at the row's endpoint after a PATCH? |
| `Lifecycle_overlap` | pass | three operations in flight, one rotation among them at most, one failure or crash: the instance is not lost |
| `Lifecycle_rename` | violation | is the instance restored when the rename fails? |
| `Lifecycle_rotate` | violation | is it off deleted keys when the last steps of a rotation fail? |
| `ProxyAcl_lost_host` | violation | does an approved host stay reachable when a resync overlaps the approval? |
| `Background` | pass | ACL files, tasks one at a time: exact when nothing is under way, become exact and stay so. Idle stop: only the idle are stopped, asked once, an open terminal spares, a pending stop ends. Grants: swept only when expired, swept in the end, requests resolved once. Jobs: one at a time. Watchers: trouble shows. Denials: the one blamed had the address. Fleet: rows go on evidence |
| `Dashboard` | pass | terminals: one socket per tab, dead sessions go, tabs rest. Devices: an administrator remains. Feed: a list behind what it was told has news under way, and catches up, and the graph with everything. Views agree; maps are right; buttons act on what is shown; a replacement is as created, but for three variables, its key within its backend, its mounts its own |
| `Grants_expiry` | violation | does every sweep take a grant that has expired? |
| `FleetViews_edges` | violation | does every edge of the graph join nodes that are there? |
| `MapLayout_canvas` | violation | is every ribbon of the network map on the canvas? |
| `Mounts_memory` | violation | has every instance a memory directory of its own? |

Each violation run shows a disagreement with a comment or document that
`PROJECT.json` quotes under `findings`. The Lifecycle and ProxyAcl ones have
different settings from the passing runs of their module, which say exactly when
the property does hold: with `RestoredOrReplaced`, for instance, whenever the
failing call is in recreate's guarded part or before its stop. `SweptOnlyExpired`
and `ExpiredIsSwept` are what remains true beside `Grants_expiry`; `EdgesJoin`
while every restricted instance is on a host that accepts instances beside
`FleetViews_edges`, destinations on the canvas while there is room for all of
them beside `MapLayout_canvas`, and the directory of one's own name beside
`Mounts_memory`.

A property that another one of the same run implies is not run besides it:
`NoDuplicateDelivery` follows from `NoOrphanStream` (two live streams of a host
cannot both be the one in the map), `SecretsAgree` and `NotOnDeletedKey` from
`AtomicSpec`, whose states have one key and one token. Each is a theorem.

Deadlock is not checked where the system may stop: when the bounded changes of
the environment are used up and every operation is over.

### Bounds, and why they are enough

* `Instances`, event streams: an attempt interacts with the map entry of its own host only,
  and the sentinel does not say whose it is, so the smallest bad case has two
  attempts; three are checked. Hosts share nothing but the pass of the timer,
  which treats each on its own: one host is checked, and the proofs cover any
  number. Two endpoints are what a PATCH can tell apart. The back-off cap is 2
  periods instead of 12, so that both the doubling and the cap occur. One
  connection may be cut though the daemon answers (`MaxCuts`).
* Operations (`Instances` and `Lifecycle_overlap`): three, since a recreate, a second one that resolves
  the replacement of the first, and a third party are what an orphaning
  sequence takes. A rotation goes through the whole of recreate and differs in the
  key only, so `OverlapInit` has at most one, with at most one recreate beside it;
  stop is the same call on the same container as start, and a removal without its
  volume the same calls as one with it (`Kinds`). One fault is enough for any single step of any of them to
  fail; the proof covers any number of both. In `Instances`, where operations come
  one at a time, `Fallible` are the calls that precede the stop or are in the guarded part; the undo's own
  calls succeed, as nothing is promised when they fail.
* Creations: four instances, three of them in flight (`AtOnce`) against a cap of
  one, give admissions below, at and over the cap; two faults let a creation
  fail and its undo fail too. The proof covers any number of all of these.
* `Background`. ACL files: two instances and two addresses let a container come
  back to its old address or to one that belonged to the other. `MaxMoves` (4)
  bounds creations, starts, stops, recreates, removals, restarts and failing
  calls, enough for an address to change hands and come back, or a resync to
  fail in between; approvals are bounded by the hosts. Idle stop: two ticks, so that a slow one could overlap; a window
  of 2 and a timeout of 1, so that both can be partly over; one failing call.
  Grants: two sweeps, since a second may start before the first is over; one
  call of a route (two were tried once, and the theorems cover any number); days
  of two hours, so that a grant can expire before and at midnight. Jobs: two
  requests of any kind, one failure or crash. Watchers: two checks. Denials: two
  instances that pass an address on, two lines, a list kept for one unit and
  under way for one: an older list may replace a newer one. Fleet: two hosts,
  two engines, two instances, two edits, removals, outages or restarts, so that
  a host can be readdressed to another's engine and the manager restarted.
* `Dashboard`. Terminals: two mounts and two links, one drop or failing call.
  Devices: two browsers, of which each may be an administrator. Feed: two
  fetches that overtake each other, one change, broadcast or silent, after what
  the first fetch saw, and one loss: what matters of two versions is which is
  older (two changes were tried once, and the theorem about the list covers any
  number). Views: two hosts of which one is remote, two instances, three changes
  between any two reads. Maps: the minimum width,
  where a row holds 17 tiles, groups of 1 and 20 instances (one row, two rows),
  at most two kinds that are not empty; three and four kinds, groups of 40 and 60 and a
  width of 1600 were tried once as well, and the theorem covers every width and
  any numbers. Directory: three containers, two ids.
  Spec: two edits around the instance. Mounts: two containers of one name (`Alike`),
  one creation at a time, two events; three containers and two creations were tried once as well.

### Fairness

* `Instances`: the reconcile timer fires (`setInterval`), every attempt ends
  (`readyTimeout` of an SSH client; a local socket answers or refuses at once),
  and a dead stream is noticed (SSH keep-alive, or the socket closing). Reading
  the SSH key from the vault has no time limit in the code; it is assumed to
  answer. Edits, shutdown, the daemons and connections that are cut are under no
  fairness; operations and creations state safety only.
* `Background`: weak fairness of the steps of a tick, a sweep, the follower, a
  check and a task on the ACL files, and of the resync timer: a call to Docker returns or fails, and timers fire. Time passes under
  strong fairness in `IdleStop`, because ticks disable it as long as they run
  and there always is a next one. Users, proxies and daemons are under none. A
  container that restarts for ever within the 1.5 s debounce would postpone the
  resync; `MaxMoves` excludes it.
* `Background` lets one task on the ACL files run at a time (`Overlap = FALSE`).
  The code has no such rule: it is how things are as long as a handful of local
  Docker calls take less time than the 1.5 s debounce and the user between two
  clicks. `ProxyAcl_lost_host` is what happens otherwise.
* `Dashboard`: weak fairness of what the server and the client of a link do by
  themselves, of the heartbeat, of some reconnect timer (two are never set at
  once for long: a mount that is over connects no more), of the events socket,
  of some refetch, of the answer to each, and of the poll. A pong is not owed, so a silent link may die; neither
  is input, an edit, or anything a user does.

## Proofs

An invariant that is proved for every value of the constants under an inductive
strengthening is run by TLC where it states something on its own; the
strengthenings themselves (`IInv` and the other `...Inv` named below, and the type
invariants of `EventStreams`, `Lifecycle` and `CreateInstance`) are only proved;
TLC was asked about each, on the small instance, before its proof was written.

Every safety invariant, every action property and every refinement of a passing
run is a theorem here. The strengthenings stand in the proof modules, not in the
models. The assumptions are the `...Assumption`s of the modules:
that sentinels are no values, that a bound or a length of time is a natural
number (some of them positive). The theorems that assume more say so.

`EventStreamsProofs`, from the assumptions that the two sentinels are no stream
and differ (`SlotAssumption`) and that the cap is a positive number
(`CapAssumption`):

* `Inductive`: `StreamInv = StreamTypeOK /\ NoOrphanStream /\ MapSound`. No double
  delivery is not inductive alone: two live streams are excluded because a live
  stream is the one in the map (`NoOrphanStream`), which is kept because an
  attempt only installs itself over a sentinel, so over no other stream.
  `MapSound` adds that the map never points at a dead stream and has entries
  only while the timer runs and for watchable hosts, without which a late
  attempt could install itself for a deleted host.
* `TypeCorrect`, `NoOrphan`, `DeliveredOnce`, `ListensWhereAllowed` follow.
* `SentinelOwed`: `StreamSpec => []SentinelHasAttempt`. A host whose entry is the
  sentinel has an attempt still in flight, though the sentinel does not say
  whose it is and an attempt that ends may meet another's. Else reconcile would
  skip the host for ever: the part of `EventuallyWatched` that is no question of
  fairness.
* `Refinement`: `StreamSpec => WatchSpec`. Under `StreamInv` every step maps to a step of
  `HostWatch` or to none.

`LifecycleProofs`, from `NamesDistinct`, `FaultsAssumption` and
`KindsAssumption`:

* `Inductive`: `IInv = TypeOK /\ Kept`. That the instance has a container is not
  inductive: an operation at `retire` is about to remove one. `Kept` says that
  some container is a `Survivor`: nobody at `retire` holds it or an older one
  (removals go from old to new), and nobody who may still undo his replacement
  made it; if a replacement was removed under its maker, a newer one stands in.
  Committing makes one's replacement the survivor, unless a newer one is.
* `NeverLost`: `Spec => []InstanceKept`, for any number of operations, failed
  calls and crashes; `TypeCorrect`.
* `SerialInductive`, with one operation in flight at a time (`MaxInFlight = 1`)
  and calls that fail only before the old container is touched or in the guarded
  part (`Fallible \subseteq Undone`), for any number of operations and failures.
  `SerialInv` says that at most one operation is under way (`Alone`), that one
  which has not begun has issued no key (`Unissued`), what is true of the
  containers, the row and the keys when nothing is under way (`Rest`), and for
  every program point of an operation what it has done so far (`World`): which
  containers exist, their names, who has which key, what it remembers and would
  undo. Each step takes the `World` of one point to that of the next, the last
  to `Rest`. `SerialRestored`, `SerialSecretsAgree`, `SerialNotOnDeletedKey` and
  `SerialRemoveLeavesNothing` follow. The second assumption is needed:
  `Lifecycle_rename` and `Lifecycle_rotate` are what happens without.
* `SerialAtomic`, from the same: the operations refine `AtomicInstance`. Its
  state is what the instance is to a user, whichever container stands for it
  (`Shown`, in `Lifecycle`), and it changes at one step of each operation: a
  recreate's is the one that puts the replacement on record, a removal's the
  revocation of its key. Every other call, every failure and every undo is a
  stutter, or issues or revokes a key the instance is not on. `Faces` says which
  container that is at each program point, `Works` that its key works.

`CreateInstanceProofs`, from `BoundsAssumption`:

* `Inductive`: `CreationInv = CreationTypeOK /\ Stages /\ RecordComplete /\ Overrun`. `Stages`
  says which resources exist at each point of a creation; no step touches
  another instance's, so it is kept for any number of creations. `Overrun`
  counts rows and creations in flight together: that sum grows in `Admit`
  alone, which is guarded by the cap on one part and by `AtOnce`, the
  model's bound, on the other.
* `RowsComplete`, `UndoComplete`, `OverrunBounded` and `TypeCorrect` follow, and
  `CapWhenSerial`: with one creation at a time the cap is kept.
* `FailedLeavesNothingWhenGuarded`: if only calls of the guarded part fail
  (`MayFail` has neither a step after it, nor an undo, nor the crash), a creation that fails
  leaves nothing. So what can leave something behind is exactly a failing start
  or inspect, a failing call of the undo, or the end of the manager.

`ProxyAclProofs`, from `Distinct`, `EnoughIps` and `MovesAssumption`:

* `TypeCorrect`, whatever overlaps. `TasksOK` is what a task has at its place: an
  instance where it lists, inspects or writes for one, an address of the pool
  where it writes.
* `FilesExact`: `AclExact`, when tasks do not overlap. Between two tasks the files
  may well be wrong, as after a restart of a container at a new address. So
  `ExactInv` says that a task is alone, and that, unless the resync timer is set or
  a call has failed (`Calm`), whatever is not right is in the hands of the task under way, which has read all
  it needs to put it right (`Knows`). `ProxyAcl_lost_host` shows it false with
  overlap. `BackgroundSafe` has it for the whole, under the same assumption.

`BackgroundProofs`:

* Idle stop. A tick holds what it decided several awaits ago, so the invariant
  says for each place what was true when the tick began. `OneTick` (ticks do not
  overlap) makes that the state only others have changed since; `Requested` ties
  the number of prompts typed to the pending request or to the tick about to
  record it; `FoundIdle` and `Watching` carry idleness and the closed terminal
  from the place where they were looked at to the stop. `AsksOnceCorrect`,
  `StopsOnlyIdleCorrect`, `OpenTerminalSparesCorrect`, `IdleTypeCorrect`.
* Grants. `OpenOrOnce` (a request that is pending was never resolved, one that is
  not was resolved at most once) gives `ResolvedOnceCorrect`; `SweepKnows` (a sweep
  that awaits its stop read an expired grant, unless it was renewed since) gives
  `SweptOnlyExpiredCorrect`, for which the text comparison must never be early:
  `hour + left < 0` implies `left < 0`. `GrantTypeCorrect`.
* Jobs. `OneEach` says per kind that at most one task runs and the flag is up
  exactly then; `KindOK` that a task is at a place of its own kind, so that the
  end of one kind cannot take down another's flag. `OneJobCorrect`,
  `JobTypeCorrect`.
* Watchers. `WatchTypeCorrect`, and `NeverGivesUp`: the log of the proxy is
  followed, is about to be, or a retry is set. That is the part of `TroubleShows`
  which is no question of fairness.
* Fleet. `AskedEnabled` (a host the startup visits, or that answered, is enabled,
  as no request is served meanwhile) makes `ReapedOnEvidenceCorrect` an action
  property of the reachable states. `FleetTypeCorrect`.
* Denials, from `TimesAssumption` and `NobodyAssumption`. `NamedInTime` bounds how
  long ago whoever is named by a list kept or under way had the address, by the
  age of that list; `RecentHolderCorrect` follows for any number of instances and
  lines. `DenialTypeCorrect`.
* All of them. A behaviour of `MCBackground` is one of each part
  (`WholeHasParts`), so `BackgroundTypeCorrect` and `BackgroundSafe` hold of the
  specification the run checks.

`InstanceProofs`:

* Mounts, from `FarAssumption` and `MaxEventsAssumption`. That the binds of an
  instance made here are its own is no question of that instance alone, but of
  all it could have learned from. `MountInv` says that no container has one
  place twice, that what was learned (the template, or what a creation under way
  has seen) is on the local host and has no socket, no `/workspace` and no
  `/data` (`Learnable`), and that two creations make different containers
  (`MakersApart`); then an explicit bind always wins over a learned one. The memory
  directory is that of the slug; that no other instance has it is not so.
  `MountsItsOwnCorrect`, `MountTypeCorrect`.
* Keys. `KeyWithinBackendCorrect`, by `KeyOnRecord` (the key in a container is the
  one on record, or the row knows none) and `KeyScoped` (the key of an instance
  made here has a scope, within its backend), since a rotation copies the scope it
  finds and a recreate narrows it.
* Environment, from `NoModelAssumption` and `EditsAssumption`. `MadeInv` says that
  no variable is set twice, that the model is one of the backend's and its
  variables are there only where they belong (`WellMade`), and that as long as
  nothing has changed the container has what a creation would give it now
  (`AsCreated`), but for the variables `LeftAlone`: `LITELLM_API_BASE`,
  `CM_COPILOT_TOKEN_REF` and the `ENV` of the image, which a creation takes from
  the settings and a recreate from the old container; the merge of a recreate, which takes some variables from the old
  container and some anew, then yields that too. `RecreatedAsCreatedCorrect`,
  `SpecTypeCorrect`.
* Which container is which, from `IdsAssumption` and `MadeAssumption`. `DirInv`:
  the two containers of a recreate under way have the same labels (`JobOK`); one
  label is on one daemon, and on two containers only during a recreate or after one
  that ended with the manager (`LabelsOK`); a row has the host of its container,
  and one that tracks an unlabelled container has no other (`RowsOK`); what is
  offered for adoption has no label (`OfferedOK`). `ActsOnTheShownCorrect`,
  `DirTypeCorrect`.

`MapProofs`, from `SizesAssumption` (the width is a number, what is counted are
naturals) and `MaxPartsAssumption`:

* `MapsHoldCorrect`: whatever the width, the counts of the five kinds on the two
  machines, the refusals and the filter, both maps are right, as far as
  `FleetMapHolds` and `NetworkMapHolds` say; destinations are on the canvas if it
  has room for all. `MapTypeOK` is all
  the invariant there is (`MapTypeCorrect`); the rest is about the functions that
  lay out, and these are folds. So the module begins with induction: `Ind` for
  sets of numbers, from `NatLessThanWellFounded`, and `FinInd` for sets of subsets
  of a finite set. A property of a fold is stated as a *set* of the numbers for
  which it holds, since the library's induction theorems take operators, which
  the provers cannot instantiate. From there, sums: `AddsSplit` (the order in
  which `SumFunctionOnSet` takes the elements does not matter), `SumSplit`,
  `SumParts`, `SumLeq`, `SumBound`, `SumFibres` (a sum over parts).
* The picture from the inside out: the tiles of a group are as many as its
  instances and inside its block (`BlockGood`); blocks of a lane do not touch,
  however rows wrap (`PutGood`, `LaneHolds`); lanes of a machine lie one below
  the other and count its instances (`HostGood`); so do bands (`BandsGood`,
  `BandsShow`); and the groups of each map have every instance once (`FleetAll`,
  `NetworkAll`), as every kind has one lane and one group.
* What is drawn around them: a stack of ribbons centred in a box that is as high
  as they are ends within it (`StackMeets`); piled boxes stay on the canvas if
  they are not higher than it (`PiledFits`); the fleet map's router and providers
  are not, since a lane is at least 79 pixels high and its ribbon at most 46
  (`RouterFits`, `ProvidersFit`), and since kinds of instances need three
  providers at most (`LanesTo`); a gate ends before the next band (`GateLess`,
  `GateFits`); what flows into a destination is what the lanes that reach it hold
  (`IntoListed`, `IntoAnywhere`). `FleetMapRight`, `NetworkMapRight`.

`DashboardProofs`:

* `AdminRemainsCorrect` (`AdminRemains` is inductive with the types: who revokes
  stays, and is an administrator), `OneSocketPerTabCorrect`, with what the refs of
  a mount are at each stage; `DeviceTypeCorrect`, `TermTypeCorrect`,
  `FeedTypeCorrect`, `ViewTypeCorrect`.
* `BehindIsPendingCorrect`: a list that does not show yet what the dashboard was
  told of has an event, the timer or a fetch under way that will show it, unless
  something was lost or overtaken. It needs that the last it was told is not from
  the future (`InformedOfThePast`), and is the part of `CatchesUp` about the list
  that is no question of fairness. Of a silent change it says nothing.
* `ViewsAgreeCorrect`, for any hosts and any finite number of instances, from
  `RemoteAssumption` and `MaxMovesAssumption`. `ViewInv` only says that the last
  graph is of such hosts and instances: the rest is a property of the functions
  that draw it, whatever changed between the reads. That the list has on top what the fleet map marks is about a
  sort: `Sorted` shows that the places of a strict total order are all of
  `1..n`, by counting the entries that come before, and `SameMany` that as many
  entries wait as instances do.
* `DashboardTypeCorrect`, `MapsRightCorrect` and `DashboardSafe`: as in
  `MCBackground`, a behaviour of `MCDashboard` is one of each part.

Only model-checked is liveness, which is beyond the prover: `EventuallyWatched`,
`Converges`, `PendingEnds`, `ExpiredIsSwept`, `TroubleShows`, `DeadSessionsGo`,
`TabsRest`, `CatchesUp`. The safety halves of three of them are proved
(`SentinelOwed`, `NeverGivesUp`, `BehindIsPendingCorrect`): there always is
something under way, and fairness is only needed for it to happen.

## What the models show beside the runs

Each of these is a behaviour of a model here, or an exception a property names;
none has a run of its own.

Creation and keys:

* The start and the inspect (`docker.js:552-562`) come after the part of
  `createInstance` whose failure is undone, so an instance that does not start
  leaves volume, key and container without a row, although the comment at
  `docker.js:369-371` says a failure part-way leaves nothing behind: `"failed"`
  is that outcome, `"undone"` the promised one.
  `FailedLeavesNothingWhenGuarded` says that nothing else leaves anything, apart
  from a failing undo and the end of the manager.
* `admit` counts rows (`placement.js:57-62`) that a creation inserts last, so
  creations that overlap can exceed `MAX_INSTANCES`; `Overrun` says by how much.
* A rotation copies a legacy key's wide scope; a recreate that is refused late
  (no LAN address of the router) has narrowed the key already, or leaves a key
  it minted behind (`docker.js:926-931`, `Recreate`), as does one whose stop or
  rename fails; a recreate pins the backend's default model without asking
  whether it is served.
* `LITELLM_API_BASE`, `CM_COPILOT_TOKEN_REF` and the `ENV` of the old image survive
  a recreate (`docker.js:873-894` takes none of them out), so an instance does not
  follow a change of these settings, or of the image, until it is created anew
  (`LeftAlone`).

Which container is which:

* An adopted container has no label, and GET `/api/instances` lists labelled
  ones only: it vanishes from the dashboard, although `docs/operations.md:167-169`
  promises full management (`ListManagedContainersByHost`).
* Recreating an adopted container by an approval or a dropped grant
  (`routes/access-requests.js:136`, `grants.js:82`) does not record the new
  docker id, so the row points at nothing. A row with a docker id is never
  reaped, whether its container exists or not.
* Two dashboards with old lists can adopt one container twice. A manager that
  ends during a recreate lists the instance twice. A removal that overlaps a
  recreate reinserts the row (`routes/instances.js:334`).
* A PATCH that leads a host's address to another engine makes the next start
  reap that host's rows, if the other engine has an instance: it did answer.
* An instance is stamped with the image version current when its creation ends
  (`workspace-image.js:145`).

Mounts:

* With no memory directory configured, a learned template may bind another
  container's `/workspace/.claude`; the template stays until an adoption or a restart; a recreate keeps
  `HostConfig.Binds` only. `MountsItsOwn` is about instances with a base.

Views:

* `topology.js:217` indexes the `Map` of scan summaries like an object, so no
  node has a summary.
* The ribbons that leave a gate may be thicker than the gate is high, and then
  begin beside it.
* A gate of the network map may reach beyond its machine's band, by 4 pixels at
  most (37 or 38 instances in one lane, in one row), never to the next band. The
  proof of `ProvidersFit` leans on three of the five providers being in use; with
  all five and six or more lanes of 38 and more instances, the boxes would need
  550 pixels where the canvas may have 520.
* An instance on a host registered after the graph has read the hosts is not in
  that graph, nor one whose host does not answer.
* The list neither refetches on a reconnect nor orders its answers: `missed` in
  `CatchesUp` and `BehindIsPending`.
* `routes/instances.js:303-305` (name, notes, tags), `82-97` (adoption) and `146-156`
  (the row of a new instance, after its container's events) broadcast nothing, so
  another dashboard shows the old list until an event of something else.

Grants and requests: a renewal while the sweep awaits the stop of the instance is
undone (`grants.js:46`; `SweptOnlyExpired` exempts it). A request is marked approved
before the recreate that applies it, and when that fails it can be neither
approved again nor denied (`routes/access-requests.js:130`).

Terminals: a heartbeat that finds its last ping unanswered, or an idle timer,
while the terminal is being primed ends the manager (`terminal.js:97`, `208`;
`ProcessDies`). The await has no time limit, two heartbeats are 30 s apart.

Events: the resync is debounced by each event, so a container that restarts for
ever postpones it for ever (`routes/instances.js:527`).

## Not modelled

* `metrics.js`, traffic rates, counts and deduplication of denials, usage
  statistics: numbers to look at, on which nothing depends.
* The radial drawing of `graph-layout.js` and the components that draw
  (`GraphView`, `NetworkMap`, `Dashboard`): rendering. `useGrants.js`,
  `notify.js` and the API client are fetch wrappers.
* `claude-login.js`, list metadata, exec, prompts and file transfer into an
  instance: pass-through to Docker with a timeout.
* `config.js`, logging, migrations: constants and input/output.
* The cache of Docker clients in `hosts.js`, replaced by its signature check
  (`Reachable`); the SSH key is cached by its reference, not re-read.
* The scripts inside the containers, squid, LiteLLM and Docker beyond the
  effects the manager relies on.

## What is left

1. An access request from filing to its effect, as one module over the steps of
   `Lifecycle` and `ProxyAcl`: an approval that overlaps a removal.
2. Theorems with overlap: a file of `ProxyAcl` is exact right after it is written
   unless what the task read has changed, and a rotation of `Lifecycle` beside
   starts and stops.
3. `InstanceSpec` for two instances that share a legacy key.
