# Sentinel Command Center: a TLA+ verification project

SourceBox Sentinel Command Center is the hosted side of a camera system: a Rust
service (`src/backend-rs`) that CameraNodes push video and events to, that
people watch through a React front end (`src/frontend`), and that runs an AI
agent ("Sentinel") over notable events. This directory holds TLA+ models of its
concurrent core, TLC configurations that check them, and TLAPS proofs of the
main safety properties. Every definition is translated from the source; the
`map` of `PROJECT.json` says which lines it stands for.

Paths below are relative to `src/backend-rs/src` unless they start with `src/`.

## 1. The system

### Components, their state, their operations

| Component | State | Operations |
|---|---|---|
| Run dispatch (`sentinel_dispatch.rs`, `api/sentinel_config.rs`) | `sentinel_config`, `sentinel_runs`, per-org advisory lock | motion / scheduled / manual dispatch: fleet gate, master switch, plan, cap, cooldown, capped insert |
| Run lifecycle (`api/sentinel.rs`, reaper in `loops.rs`) | `sentinel_runs.outcome`, `incident_id`, `started_at` | list, start, complete, reap stranded, abandon old, re-fire wakeups |
| Agent (`agent/*.rs`) | one drain per process: slots, per-org counts, sets of seen ids, stop flag | wakeup, poll, drain, claim, investigate, report with retries, shutdown |
| HLS authorisation cache (`hls.rs`, `api/hls.rs`) | generation counter, three maps with TTL and a size bound | lookup, sample, query, tagged insert, invalidate |
| HLS segment and playlist store (`hls.rs`) | segments per camera, total bytes, playlists | push, evict per camera, evict globally, cleanup |
| Viewer accounting (`hls.rs`, `api/hls.rs`) | pending seconds, cached totals, `org_monthly_usage` | record, warm, cap check, flush, forget |
| Node sockets (`ws.rs`, `api/ws.rs`) | connection registry, pending commands, bounded channels, limiters | connect, disconnect, send command, resolve, time out |
| Email outbox (`email_worker.rs`, `email.rs`) | `email_outbox`, `email_log`, `email_suppression` | enqueue, reclaim, claim batch, send, finalise, log, bounce, unsubscribe |
| Notifications and streams (`notifications.rs`, `sse.rs`) | `notifications`, debounce map, subscriber queues | create, broadcast, subscribe, mark read |
| Recipients (`recipients.rs`) | per-org TTL cache of members | look up, invalidate |
| Background loops (`loops.rs`) | node and camera status, digests, disk debounce | offline sweep, cleanup, digest, plan reconcile |
| Plans (`plans.rs`, `api/clerk_webhook.rs`) | org plan, past-due grace, `disabled_by_plan` | webhook, resolve, enforce camera cap, reconcile |
| Licence and mirror (`license.rs`, `sync.rs`, `bin/restore_from_cloud.rs`) | licence settings, sync cursors, the mirror | check in, gate, push a table, restore |
| Nodes (`api/node_register.rs`, `api/node_writes.rs`, `api/nodes.rs`) | `camera_nodes`, `cameras`, key hashes | register, heartbeat, rotate key, delete, decommission |
| Incidents (`api/incidents.rs`) | `incidents`, evidence | file, attach, transition |
| MCP (`mcp/*.rs`, `api/keys.rs`) | keys, pre-auth limiter, activity ring | authenticate, scope, call tool, record |
| Authentication (`auth*.rs`) | JWKS cache, local sessions | verify, refresh keys, log in |
| Rate limiter (`ratelimit.rs`) | windows per key, in memory or in Redis | check, sweep |
| Recording (`api/recording.rs`, `mcp/tools.rs`) | policy columns of a camera | button, patch, tool, should-record-now |
| Health (`health_probes.rs`, `api/health.rs`) | readiness cache, worker stamp | probe, poll, detailed report |
| Erasure and export (`api/gdpr.rs`, `api/account.rs`) | all org rows and caches | erase, export |
| The rest | | routes over single rows, health, install, docs, CSV, Python ports, HTTP shell, front end, scripts |

`PROJECT.json` lists all of them under `components`, with what is modelled of
each and why the others are not.

### How they interact

* A motion event, a schedule or a click reaches **dispatch**, which inserts a
  `pending` row and posts a wakeup to the **agent**. The wakeup may be lost.
* The agent's single **drain** lists pending rows, oldest first and at most
  `max_runs`, claims each with `/start`, investigates through **MCP** tools
  (which send commands down **node sockets** and file **incidents**), and
  reports with `/complete`, retried. The **reaper** re-fires wakeups for rows
  that wait, ends rows whose agent is gone, and abandons rows nobody takes.
* A CameraNode's pushes and a viewer's requests are authorised from the
  **authorisation cache**; key rotations, deletions and plan changes commit and
  then bump its generation.
* Every segment served adds to the org's **viewer seconds**, which a loop
  flushes; the cap check reads a cached total plus what is pending.
* Notifications enqueue **outbox** rows, which a worker sends; the provider's
  webhook reports bounces; erasure deletes rows under the worker's feet.
* A heartbeat, the socket and the **offline sweep** all write a node's status
  and announce what changed, to the **inbox**, the **streams** and, by the
  **recipient** cache, to people's mail.
* Clerk's webhooks, late and repeated, move an org's **plan**, its members and
  its existence; readers and a loop ask Clerk again and write back what it says.
* A self-hosted install checks its **licence** in with a service, and pushes its
  tables to a **mirror** it can be restored from.

### What is hard

Handlers run as tasks on several threads and await the database, the network
and each other, so nearly every read is followed by an await before the write
that uses it. The code answers with conditional `UPDATE`s, one advisory lock, a
generation counter, guards dropped on cancellation and loops that repair. The
hazards this leaves are listed, each at its line, under `hazards`: the forty that
matter most, nearly all with the property that would catch them. Smaller ones are
in section 6 and with the statements outside the runs in section 3.

## 2. Modules

| Module | Models | State and steps |
|---|---|---|
| `RunLifecycle` | what a `sentinel_runs` row promises: absent, pending, running, terminal, and that it settles | one variable, `outcome` |
| `RunQueue` | `post_run_start`, `post_run_complete`, the reaper's statements, one agent worker per claim, requests in flight | read and write of a handler are two steps, so anything may come between; requests are lost, resent, and handled late; worker and row clocks in ticks |
| `RunDispatch` | `maybe_dispatch_for_notification`, manual runs, their gates in order, `insert_run` with its lock, recount and rollback; config and plan changes; the month | one step per query; stamps are read where the code reads them |
| `AgentDrain` | `serve`, `poll_loop`, `drain_once`, `process_pending_runs`, shutdown, crash and restart | one step per await; a run's future moves independently of the drain |
| `AuthCache` | the three authorisation maps, their lookups, and the writers that invalidate them | a fact is a cached answer; reader: look, sample, query, put; writer: commits, then invalidates or fails before it does |
| `NodeSocket` | the registry, the receive loops, `send_command` and its pending guard | every registry access is one step (it holds the mutex); sends wait for room |
| `EmailOutbox` | producer, worker tick, provider, webhook, unsubscribe, erasure | one step per statement; the tick may die between any two |
| `ViewerUsage` | recording, warming, the cap check, the flusher, erasure, restart, month change | one step per lock or query |
| `Investigation` | `run_agent`, the transcript and its pruning, `run_with_timeout`, the retried report | one step per model turn and tool call; a call may time out although it was carried out |
| `OrgPlan` | the stored plan: Clerk's events, the webhook, `resolve_org_plan`, the reconcile loop | a task is the sequence of statements it has left, one step each |
| `CameraCap` | registrations, billing events and `enforce_camera_cap` | each statement commits by itself |
| `NodeRegistry` | create under the node limit, validate, register, rotate, delete | transactions are one step where the code opens one |
| `NodeSettings` | the storage-cap command and the codec reports | messages on the socket are lost or answered late |
| `Presence` | heartbeats, socket events, the offline sweep, debounced announcements | row reads, row writes and announcements are separate steps |
| `MotionAlerts` | the cooldown anchor, silenced events, the digest tick | one step per statement |
| `DiskAlerts` | the operator's disk alert and a node's disk-low alert | stamp in memory, stamp in a row |
| `Broadcaster` | subscribe, notify, receive, end | under the mutex, one step each |
| `Inbox` | the lazily made read state, list and badge | one step per statement |
| `Recipients` | the directory cache, the fetch, the invalidation | look, fetch, insert |
| `Recording` | the four writers of a camera's policy, the schedule window | read and write apart |
| `Incidents` | people's and agents' writes, evidence, the daily cap, what starts a run | one step per statement |
| `McpAccess` | the scope gate, the resolver, the sliding limits, the activity tracker | one step per await |
| `ServiceKeys` | agent, MCP and integration keys: mint, list, revoke, present, erase | one step per statement |
| `RateLimiter` | the limiter's two stores and the socket limiter, emptied at every socket's end | memory check under the lock; INCR and EXPIRE apart |
| `SigningKeys` | the JWKS cache, forced refresh, the fetch lock, the first stamp on a host that has just booted | one step per await; a fetch dies with its request |
| `LocalSession` | login, refresh, validity | one step per request |
| `ClerkClaims` | the three claim layouts, their decoding, the gates | a pure algorithm, checked against the membership it encodes |
| `AccountErasure` | account deletion and the webhooks that report the same things | step by step through Clerk and the database |
| `DataExport` | the archive and the full reset | one step per statement |
| `Retention` | the daily clean-up; the check, effects and marker of a webhook's deliveries | one step per DELETE; deliveries overlap and fail between their steps |
| `Licence` | check-in and gate | one step per Setting write |
| `CloudMirror` | pushing one table | page, post, two cursor writes |
| `MirrorRestore` | the restore tool | one step per row |
| `LiveCache` | segments and playlists, eviction, sweep, clean-up | a push is one step (it holds the lock) |
| `Readiness` | the readiness report, its cache, the detailed report | probes are sampled when they run, stored later |

`MC*` modules give the constants that a configuration cannot write, and
symmetry sets; `RunQueue` and `EmailOutbox` need neither and are checked as they
are. `*Proofs` modules hold the theorems.

**Refinement.** `RunLifecycle` is the abstract specification of a run's row.
`RunQueue` instantiates it, `Lifecycle == INSTANCE RunLifecycle WITH Runs <- Runs,
outcome <- outcome`, and is shown to implement it: `ImplementsLifecycle` is the
abstract specification with its fairness, checked by TLC, and `LifecycleSteps`
its safety part, also proved.

**Sums of components.** `MCFleet`, `MCTenancy` and `MCPlatform` each instantiate
several components that share no variable in the models. A variable `focus`
picks the component that moves in a behaviour, and the others stay in an
initial state, so a run explores the sum of its components' state spaces, not
their product; a property of one component is checked in all the states of that
component. Where components do interact, the interaction is inside a module:
`Incidents` has the dispatch rule, `CameraCap` registration and billing,
`McpAccess` keys, limits, Sentinel's switch and the activity tracker,
`EmailOutbox` and `ViewerUsage` erasure.

Data is abstracted to what the properties tell apart: an answer, a run, a
message or a viewer is a model value; texts, severities and payloads are left
out; a gate's schedule arithmetic is a nondeterministic verdict; ages are ticks
capped at the bound the code compares them with.

## 3. Runs

Passing runs:

| Run | Instance | Shows |
|---|---|---|
| `run_queue_safety` | 1 run, 2 workers, 1 attempt each | one claimant per run; an acknowledged result stays stored; a row links an incident exactly when its outcome says so; the reaper spares live work; every step is a `RunLifecycle` step |
| `run_queue_liveness` | 1 run, 1 worker, 2 attempts | the queue implements `RunLifecycle` with its fairness: every run settles |
| `run_dispatch` | 1 org, 2 dispatchers, 2 plans, 1 month change | the rows of a month stay within the resolved cap; off means off; every call ends |
| `agent_drain` | 3 runs of 2 orgs, 2 slots, 1 per org, listing window 1, 1 stop | slot and per-org bounds, exact counts, one attempt per drain, every run taken |
| `email_outbox` | 2 rows, batch of 2, 2 attempts, 2 ticks that die | one log line per settled row; every row settles |
| `fleet` | 1 node, 2 sockets, 2 commands, a queue of 1; 2 plans, 1 webhook task and 1 pass, 2 events, 1 fault; 2 clients and 1 free id slot under a limit of 1 node; 2 admins and 2 codec reports | `NodeSocket`: a command's entry lives on a live socket, a live socket is registered, every command and every replaced socket's loop ends; `OrgPlan`: the stored plan becomes the one Clerk has; `NodeRegistry`: no camera outlives its node |
| `tenancy` | 2 actors per component, limits and lifetimes of 0 to 3 ticks (`Tenancy.cfg`) | `AuthCache`, `RateLimiter`, `Recipients`, `Incidents`, `McpAccess`, `ServiceKeys`, `AccountErasure`, `SigningKeys`; it also explores `Inbox`, `LocalSession`, `ClerkClaims`, `DataExport`, `Retention` |
| `platform` | 2 actors per component, 2 viewers, 2 cameras, 3 streams, windows of 1 to 3 ticks, 1 fault, stop or restart; for the camera cap 2 nodes with 1 and 2 cameras, 2 billing changes (`Platform.cfg`) | `ViewerUsage`, `Presence`, `Broadcaster`, `MotionAlerts`, `CameraCap`, `Licence`, `CloudMirror`, `Investigation`, `Readiness`; it also explores `LiveCache`, `Recording`, `DiskAlerts`, `MirrorRestore` |

What the properties of the last two say:

* **Caches and limiters.** Nothing revoked and announced is cached or served
  (`CacheFresh`, `AnswersLegit`); a membership webhook that meets no fetch takes
  effect at once (`InvalidationHolds`); of the requests a fixed limit
  counts and lets through, twice the limit and one more span at least a window, on the
  sockets' sliding one, between two of a node's socket ends, the limit and one more
  (`BurstBounded`; what a failing Redis lets through is outside); a sign-in is refused for want of keys only after a fetch
  failed or was abandoned, or on a host that has just booted (`RefusalHasACause`); an outage is answered as ready for
  at most a cache life and a probe (`OutageSurfaces`). The probe time includes
  Clerk's 5 s and the wait for a connection, so the "half a minute" of
  `api/health.rs` is the cache's life plus that.
* **Access.** A tool never runs for a call that arrived after its key was revoked
  (`RevokedStaysOut`); a key acts for the org and the surface it was minted for,
  and not after its end was answered (`KeysActForTheirOrg`).
* **What people are told.** The last word on a node or camera is true
  (`LastWordTrue`); a stream is complete or let go (`NoSilentGap`); the events a
  window silenced, and whose stamps lie in it, are in the digest it was closed with,
  if that was mailed and the cooldown read as it is (`ClosedWindowDigested`).
* **Rows.** Resolution follows status (`ResolutionMatchesStatus`); cameras stay
  within the plan once the requests have ended, unless the last enforcement failed,
  misread the plan, or had it change or a row come in under it (`CapHolds`); every
  second watched is in one place, and nobody is refused below the cap
  (`EverySecondOnce`, `RefusedOnlyAtCap`); nothing of an org or account stays
  after its deletion, wherever that failed (`NothingLeftBehind`).
* **Self-hosting.** The licence gate is open only within the grace of a valid
  answer (`GraceBounded`); nothing is missed by the mirror while the cursor's
  halves are stored together and read together (`NothingMissed`).
* **One investigation.** A run that ended by itself reports the incident it knows
  of (`OwnEndingReports`).

Several of these say under what circumstances they hold (no overlap, no failed
statement, no change under way). The exceptions are the code's, found by TLC;
where a comment promises more, section 6 says so.

Runs that show a disagreement between a comment and the code are in section 6.

**Statements outside the runs.** The runs check the forty properties that take the
most to violate, and each has a mutant. The modules state more, and these are not
part of any run. TLC found no violation of them when they were last added, by
hand, to the configuration of their run; a reader can repeat that by adding
the name. They have no mutant, so no run shows that they could fail. Those in
bold are theorems of section 5:

| Module | Statements |
|---|---|
| `RunQueue`, `RunDispatch`, `AgentDrain`, `AuthCache` | **`TypeOK`** |
| `NodeSocket`, `EmailOutbox`, `ViewerUsage` | `TypeOK` (`UsageTypeOK`); `OrderMatchesRegistry`; **`SettledStays`** |
| `OrgPlan`, `NodeRegistry`, `NodeSettings` | **`PlanFromClerk`**, `EventsProcessed`; **`NodesWithinPlan`**, **`NoteOnlyBeforeFirstContact`**; **`RowCapWasReal`**, `CodecSettles` |
| `RateLimiter`, `Recipients`, `Inbox` | **`RefusedOnlyAtLimit`**; **`StalenessBounded`**; **`FirstLoadsAgree`**, **`BadgeMatchesList`** |
| `Incidents` | **`NoOrphanEvidence`**, `OfferedClipsPlay`, **`CapOvershootBounded`**, **`OnlyPeopleStartRuns`** |
| `McpAccess`, `ServiceKeys` | **`ScopeHolds`**, **`CallsWithinLimits`**, **`EveryCallCounted`**; `WhatWorksIsListed` |
| `SigningKeys`, `LocalSession`, `ClerkClaims` | **`NewKeySoonKnown`**, **`OnlyClerkRetiresKeys`**; **`SessionsLapse`**; `GrantsGoRound`, `BillingShownToAdmins` |
| `AccountErasure`, `DataExport`, `Retention` | **`OthersKeepTheirOrgs`**, **`NoAbandonedOrg`**; **`ArchiveClosed`**; **`PaidHistoryKept`**, **`PassClearsAll`**, **`HookAppliedOnce`** |
| `Presence`, `Broadcaster`, `MotionAlerts`, `DiskAlerts` | `NoRepetition`; **`SlotsHeldByOpenStreams`**; **`FreshWindowKept`**; **`OperatorAlertsSpaced`**, **`NodeAlertsSpaced`** |
| `LiveCache`, `Recording` | `TotalExact`, `CacheBounded`, `LiveEdgeKept`; **`ScheduleGoesRound`**, **`ScheduleNeverEmpty`**, **`ModesExclude`** |
| `Licence`, `MirrorRestore` | **`InvalidClosesAtOnce`**; **`LocalRowsKept`**, `RefusedForCause`, `CleanMeansComplete` |
| `Investigation`, `Readiness` | **`FramesSeenOnce`**, **`ResultsFollowCalls`**; **`RecoveryShows`** |

The modules of this table that no run's property is about (`NodeSettings`, `Inbox`,
`LocalSession`, `ClerkClaims`, `DataExport`, `Retention`, `DiskAlerts`, `LiveCache`,
`Recording`, `MirrorRestore`) are explored by their run, every action included.

**Why the bounds are enough.** The protocols are per run, per org, per node and
per fact; two actors on one object show every conflict between them, and the
proofs of section 5 remove the bound for the properties of thirty-two modules.
A behaviour's length is bounded by the counters below, large enough for the
longest race described under `hazards`: three requests, a fault and a clock that
passes every lifetime once.
The limits are set so that they bind: a cache of one entry evicts, a listing
window of one hides a run, a channel of one frame blocks, two dispatchers meet
a cap of one, two attempts exhaust. `StrandedRunAge` is kept greater than
`RunTimeout + CompleteBudget`, as 20 minutes are to 270 s and 96 s. The
counters that would run for ever (`MaxStops`, `MaxCrashes`, `MaxRestarts`,
`MaxMonth`, `MaxTime`, `MaxServed`, `MaxSockets`, `MaxCommits`, `MaxNow`, `MaxAsked`,
`MaxChanges`, `MaxFiled`, `MaxJobs`, `MaxMoves`, `MaxDay`, `MaxEdits`, `MaxBilling`,
`MaxSent`, `MaxFaults`, `MaxKeys`, `MaxSettings` and the other `Max...` constants of
clocks and faults) are bounds of the instance. In `platform`, readiness is checked
with only the mail worker configured, and the digest with two events, two stamps a node may
give them and one other cooldown that a failed read falls back to.

Deadlock is checked except where the system may stop for good: an agent whose
runs are all done, and the sums, whose components come to rest when their
requests are answered and their clocks have run out.

**Fairness.** `RunQueue`: timers fire, a client's own timeout ends every wait,
and the reaper's loop comes round with passes that get through; nothing is
assumed of agents, the model or the network. `RunDispatch`: a call is polled
until it ends. `AgentDrain`: the reaper re-fires, a crashed process is started
again, and what is tried again and again gets through once; the poll loop is
*not* assumed fair, so the result covers push mode. `NodeSocket`: a command's
task is polled and its timer fires, and a write to a socket ends or fails.
`EmailOutbox`: the worker's loop comes round and time passes; crashes are finite.
`OrgPlan`: a task that has begun is polled to its end, Svix goes on delivering what
was not acknowledged, and the hourly pass and the resolving reads come round
though tasks compete for them (strong fairness: they are retried, not waiting).

## 4. Mutants

For every property of a passing run `PROJECT.json` names a mutant, a definition
changed as a plausible bug would change it (a dropped `AND outcome = 'pending'`,
a count left behind, an invalidation tag ignored), under which TLC finds the
property violated.

## 5. Proofs

Each `*Proofs` module proves `Spec => []IInv` for an inductive `IInv` and derives
the properties; all constants are arbitrary up to the named assumptions.
`PROJECT.json` lists the principal theorems; every one of them is named below.

* **`RunQueueProofs`** — `TypeCorrect`, `ClaimedOnce`, `AckIsFinal`,
  `RowsConsistent`, `ReaperIsSafe`, `StepsImplementLifecycle`. The properties
  are not inductive by themselves because a request in flight may write later.
  `IInv` adds what a worker's place says about its requests (`Sends`) and its
  run (`Knows`), what a request in flight says about its sender (`Honest`: a
  real result is only in requests of the claimant), that a stored result is its
  claimant's (`Stored`), and the clock argument (`Timed`: a claimed row is never
  older than its worker's clock; `Reaped`: what the reaper selected has no live
  worker). Assumption: `StrandedRunAge > RunTimeout + CompleteBudget`.
* **`RunDispatchProofs`** — `TypeCorrect`, `MonthlyCap`, `MasterSwitchHolds`. `IInv`
  adds that a dispatcher past the lock holds it (`LockHeld`), that no stamp is later
  than the clock (`StampsPast`), that a row's dispatcher has ended (`RunsDone`) and
  that what a dispatcher counted still fits when it commits (`CommitFits`). The
  switch's property rests on `Barred`, which no call leaves while the switch is off:
  it has not begun, was refused, or has the gate that reads the config still to pass.
* **`AgentDrainProofs`** — `TypeCorrect`, `SlotsBounded`, `PerOrgCounts`,
  `TriedOnce`. The last rests on an argument about the listing window: the sets
  of finished and failed ids are pruned at every listing, which is safe only
  as long as a pending row does not fall out of the window of the oldest
  `ListLimit` (`Windows`, `Remembered`). A row that is stamped before another and
  written after it can push it out; `tried` forgets the runs this happens to.
* **`AccessProofs`**, who is let in:
  * `AuthCache` — `TypeCorrect`, `CacheStaysFresh`, `EveryAnswerLegit`. `IInv` adds
    that an answer on its way into the cache is fresh unless its tag is out of
    date (`PutFresh`), and that what is current stays legitimate for every request
    under way (`CurrentLegit`, `PutLegit`).
  * `ServiceKeys` — `KeysActForTheirOrgAlways`. A row may be revoked or erased
    between its lookup and its use, so `LookedUpHolds` says that the request came
    before any end of the key was answered and that a row which is still there is of
    the org and kind that were looked up. It rests on what is ended staying ended
    (`EndedKeysEnded`, `PresentedMinted`) and on a revocation reaching only rows of
    its own org (`RevokesOwn`).
  * `McpAccess` — `RevokedStaysOutAlways`, `ScopeHoldsAlways`. `CallsHold` says, for
    each place of a call, what its two reads of the key have shown: after the scope
    gate the tool is in the scope or the key is revoked by now, and after `resolve`
    the call did not arrive too late, so that the first read was of a live key.
    `EveryCallCountedAlways`: a call in flight is the one not yet counted
    (`FlightMoves`). `WithinLimitsAlways`: a window holds the last admissions of its
    bucket, and those before them have aged (`BucketHolds`), also after a prune.
    Assumed (`McpAssumption`): a minute is no longer than a day.
  * `SigningKeys` — `RefusalHasACauseAlways`, `NewKeySoonKnownAlways`, and the
    action property `OnlyClerkRetiresKeysAlways`. `AttemptAccounted` relates the
    stamp of the last fetch to what became of it: it is in flight, went wrong, or
    brought the set the cache holds; `FlightTimed` bounds how long it flies, and
    `KeysServed` dates the keys that a held set or a reply lacks. Assumed
    of the durations (`KeysAssumption`): `FetchTimeout <= MinForced <= RefreshAfter`,
    5 s, 10 s and 300 s in the code. Both starts are among the initial states: a stamp
    one rate limit ago, and, where the host is too young for that, the start itself.
  * `RateLimiter` — `BurstsBounded`, `RefusalsAtLimit`. The bound is on what was
    counted: a request that Redis's failure lets through is not, and a socket's end
    empties its node's window and what was admitted under it. `Epoch` splits what an asker
    was let through: the last part belongs to the window that is open, the one
    before it had at most `Limit` and has ended, and all the rest had aged by its
    start. The memory store, Redis (whose key may never expire) and the sockets'
    sliding window (`Slides`) each keep it in their way; a refusal has spent the
    count of an open window (`Spent`). Assumed (`LimiterAssumption`): windows are
    positive and no longer than the sweep's horizon.
  * `LocalSession` — `SessionsLapseAlways`. `TokensIssued`: a token was signed under
    its own secret and after a login under it; `LetIn`: whoever is let in holds a
    token that is valid now. Assumed (`LocalAssumption`): the durations are naturals.
* **`TenancyProofs`**, an org's own data:
  * `EmailOutbox` — `LogOnceAlways`, `AttemptsBoundedAlways`, and the action
    property `SettledStaysAlways`. `BatchAhead`: nothing but an erasure takes a row from the
    tick that has it in its batch, and it has no log line yet. `AtHand`: the row that
    was finalized, by another statement than the one that logs it, is where its
    outcome put it, was erased, or was found sent by a bounce.
  * `Recipients` — `InvalidationHoldsAlways`, `StalenessBoundedAlways`.
    `EntryHolds` and `LookupHolds` follow a list from the request over the fetch
    into the cache and bound its age; `FetchedSince`: after an invalidation that met
    no fetched answer, none fetched before it waits to be stored. Assumed
    (`DurationAssumption`): the two durations are naturals.
  * `ViewerUsage` — `EverySecondOnceAlways`, `RefusedOnlyAtCapAlways`. The seconds
    served are conserved over the stored row, the pending map, what the flusher has
    drained (`FlusherHolds`) and what a failure dropped; within the month, no total
    that is cached, or was read and waits to be cached, exceeds what was stored or
    dropped (`TotalsReal`).
  * `AccountErasure` — `NothingLeftBehindAlways`, `NoAbandonedOrgAlways`,
    `OthersKeepTheirOrgsAlways`. `HooksDue`: an org or account that is gone
    at Clerk and has rows here has its webhook to come; `EmptyHookDue`: so has an org
    that everybody left. `PlanStands`: what a deletion classified is still so, or a
    membership moved meanwhile.
  * `Incidents` — `ResolutionMatchesStatusAlways`, `NoOrphanEvidenceAlways`,
    `CapOvershootBoundedAlways`, `OnlyPeopleStartRunsAlways`. An agent's update
    stamps the resolver before the status, so `Undisturbed` lets the two disagree
    exactly while one request has the second write to do; the cap's argument counts
    the agents that have counted and not yet filed (`FilingIInv`), and survives the
    deletion of a row of the day, which makes room. Assumed: finitely
    many requests, a cap above zero.
  * `DataExport` — `ArchiveClosedAlways`. `ArchiveGrows`: evidence is listed for
    listed incidents only, what is still to be written belongs to incidents the
    archive has, and a file that was written has left the list, so that each adds
    one to the manifest's count.
  * `OrgPlan` — `PlanFromClerkAlways`, by `PlansReal`: what a task or the resolver's
    cache carries from one statement to the next is already a plan of that kind. `told`
    and `defaulted` only grow, so a plan stays real however late it is written.
  * `Inbox` — `FirstLoadsAgreeAlways`, `BadgeMatchesListAlways`. `RowMade`: a request
    past its insertion finds a row, whoever made it, and no mark is later than the
    clock; `OneWriter`: while writes have not raced, one request at most has a write to
    do, with a time past both marks, so what is cleared is never past what was seen.
    The badge has no window: it goes on counting unread rows older than the list's
    (`Recent`), so the two agree within that window only.
  * `Retention` — `PassClearsAllAlways`, `PaidHistoryKeptAlways`,
    `HookAppliedOnceAlways`. `ClearedSoFar`: the tables before the pass's place hold no
    row below its cutoff but what came since, which only a node's stamp can make so old,
    or the settling of a mail; the next pass takes it. `MarkerHeld`: a webhook that was
    answered has its marker, or can no longer be redelivered. Until it is answered its
    effects may be applied again, by a delivery after one that failed before its marker
    or by two that overlap; the theorem says nothing of those. Assumed
    (`RetentionAssumption`): a marker is kept for longer than Svix retries.
* **`PlatformProofs`**, the nodes, what is told of them, the licence and a run:
  * `NodeSocket` — `PendingOnLiveSocketAlways`, `LiveSocketRegisteredAlways`. Ids are
    handed out in order (`SocketsAccepted`) and a command under way has a target.
  * `NodeRegistry` — `NodesWithinPlanAlways`, `NoOrphanCameraAlways`,
    `NoteOnlyBeforeFirstContactAlways`. `CountedStands`: a create that has counted
    and not yet inserted holds the org's lock, and there is still room. Assumed
    (`RegistryAssumption`): at least one attempt at an id.
  * `Presence` — `LastWordTrueAlways`. `WordHolds` follows one heartbeat or one
    sweep, alone while nothing is disturbed (`OneAtATime`), from what it read to
    what it has still to tell. Assumed: a heartbeat reports one of the statuses.
  * `CameraCap` — `CapHoldsAlways`. The rows are ordered by creation (`RowsKept`), so
    at most as many as the cap have fewer than that before them, which is the
    counting lemma of the section. `RestCovered`: a camera past the cap is flagged,
    or a request under way has still to look or to write that it is, unless one
    failed (`behind`), the plan changed under one or was misread (`mixed`) or a row came
    in under one (`late`), which the next undisturbed enforcement mends; `NoneRelit`: no decided flip lights such a camera again;
    `FlipsHeld`: flips were decided under the plan as it is.
  * `MotionAlerts` — `ClosedWindowDigestedAlways`, and the action property
    `FreshWindowKeptAlways`. `EventsSettled` follows an event from its row to the anchor
    that silenced it; `TickCounts`: the window a tick counts has closed, so what it
    counts, and then mails, is all that the window silenced; `ClosedLongAgo` keeps that
    of the windows it has removed. Node stamps are arbitrary, so the claim is for the
    events whose row lies in the window (`SilencedIn`), and while the cooldown is read
    as it is set (`misread`).
  * `Licence` — `GraceBoundedAlways`, `InvalidClosesAtOnceAlways`. `NothingLost` says
    for each place among a check-in's writes what the settings tell. Assumed: the
    interval of check-ins is shorter than the grace (15 minutes and 72 hours in the code).
  * `Investigation` — `OwnEndingReportsAlways`, by `IncidentKnown` and `EndedOnce`;
    `FramesSeenOnceAlways`, `ResultsFollowCallsAlways`. `CallsAtEnd`: while a turn's
    calls run, its own messages end the transcript; `SentBefore`: what the model was
    sent is older than the frames it is sent next, and only that is pruned. `TurnEnds`
    is the lemma on what pruning and appending do to the sequence.
  * `CloudMirror` — `MirrorMissesNothing`. `Settled`: a write still open is stamped
    too late for any push under way and any stored cursor, so nothing appears behind
    them; `PageFaithful`: a row read for the page under way is as it was read or was
    written since; `CursorHeld`: what the cursor a push goes by has passed the mirror
    holds, and a confirmed page adds its own rows. A push that could not read the first
    half starts over (`AppliedKeeps`); one that read the first half alone skips the rows
    of that stamp (`SkipsTies`), which sets `torn`.
  * `Broadcaster` — `StreamHasNoSilentGap`, `PlacesHeldByOpenStreams`. What a stream
    was given and has queued is what was published since it joined; `Unopened`: a
    stream that was never opened has neither. Assumed: a queue has at least one place.
  * `Readiness` — `OutagesSurface`, `RecoveriesShow`. What a poll under way has asked
    is dated by the poll's age, and what it has not is still to ask (`PollSees`,
    `PollSaw`); the stored report is dated by its own and one poll's (`CacheSees`); the
    mail worker's heartbeat tells of its end only after a while, which `WorkerSilent`
    bounds. Assumed (`HealthAssumption`): a worker writes no less often than it is
    called stale, and its first time within the grace.
  * `DiskAlerts` — `OperatorAlertsSpacedAlways`, `NodeAlertsSpacedAlways`. No alert is
    later than the stamp the next one looks at (`LoopRemembers`), or its own handler is
    about to write that stamp (`RowRemembers`).
  * `NodeSettings` — `RowCapWasRealAlways`. `CapsReal`: every cap on its way to the row,
    in a heartbeat or a success still to be written, is one the node has had.
  * `MirrorRestore` — `LocalRowsKeptAlways`.
  * `Recording` — `ScheduleNeverEmptyAlways`, `ModesExcludeAlways`: a writer that is
    alone has read the row it writes (`EditsAlone`), so what was validated is what is
    stored. `ScheduleGoesRoundAlways`: the window's ends are minutes of the day
    (`InDay`), and the rest is arithmetic modulo its length (`Ahead`, `Behind`). Assumed
    (`DayAssumption`): a day has more than one minute.

The other constants are arbitrary: any sets of nodes, requests, people or
cameras, any caps and clocks. The histories that the properties look at
(`overlapped`, `disturbed`, `late`, ...) are the models' own and are never
assumed of an execution.

Only model-checked:

* the liveness properties and the refinement with fairness (`ImplementsLifecycle`,
  `CallsEnd`, `EveryRunTaken`, `CommandsEnd`, `ReplacedSocketEnds`,
  `EveryRowSettles`, `PlanConverges`): the prover reaches neither liveness under
  fairness nor `ENABLED`;
* what rests on a recursive definition, which would need an induction over data:
  `TotalExact`, `CacheBounded` and `LiveEdgeKept` add up the bytes of a set of
  segments, `RefusedForCause` and `CleanMeansComplete` depend on what a sort returns,
  `OrderMatchesRegistry` on what removing from a sequence leaves, `GrantsGoRound`
  and `BillingShownToAdmins` on the decoding of a list of bit masks;
* `EventsProcessed` (liveness), and the other statements of section 3 that are not in
  bold (`CodecSettles`, `NoRepetition`, `OfferedClipsPlay`, `WhatWorksIsListed`, three
  `TypeOK`s). These say little more than the actions
  they are about, or only type variables, and no proof of them has been written.

Every other property of a passing run, invariants and action properties alike, is
a theorem.

## 6. Disagreements between comments and code

Four are runs, each with a finding in `PROJECT.json`:

* `run_dispatch_rollover`: a dispatch that waits for the lock over midnight of
  the 1st is stamped in the old month and recounted in the new one.
* `investigation_cut_short`: the wall clock drops an attempt with the incident it
  filed and reports `error`, against `agent/run.rs:15`.
* `cloud_mirror_cursor`: the mirror's cursor is two settings whose write errors
  are dropped; a failure between them skips rows for good, against `sync.rs:373`.
* `licence_revoked`: a licence answered "invalid" opens again, within the grace
  of an earlier "valid", when the next check-in fails, against `license.rs:14-21`.

Stated in a module next to the properties that hold, and refuted by TLC under
the same constants (`SilencedSummarised` with a third event):

* `AuthCache.StaleOnlyDuringWrite` (`hls.rs:145`): a decommission whose second
  `DELETE` fails returns without invalidating what the first one committed.
* `EmailOutbox.SuppressedNotMailed` (`api/notifications.rs:524`): a suppression
  lookup that fails counts as "not suppressed".
* `ViewerUsage.ErasedStaysErased` (`hls.rs:586`): a flush that drained an org's
  seconds before the erasure recreates its usage row after it.
* `OrgPlan.ReconcilerRestores` (`loops.rs`, "Corrects in BOTH directions"): the
  pass selects paid rows only, so a plan defaulted to free is not looked at; the
  next `resolve_org_plan` mends it, as `PlanConverges` shows.
* `MotionAlerts.SilencedSummarised` (`create_notification`): an event that finds
  an expired anchor re-arms it before the tick, and the events the old window
  silenced are in no digest.
* `Presence.AllClearFollows` (`notifications.rs:50`): a camera that comes back
  through `starting` is not announced.
* `CameraCap.RestFlagged` (`plans.rs:513`, "keep the oldest `max_cameras`, flag the
  rest."): an enforcement decides to switch a camera on again, and before its
  `UPDATE` (`plans.rs:583`) a registration that began earlier, with an earlier
  `created_at`, commits. The new row is among the oldest and finds room; the
  decided camera is lit all the same and is one too many until the next
  enforcement. It takes three cameras on two nodes and two billing changes;
  `CapHolds` says so with `late`.
* `Recording.NeverBothModes` (`update_recording_policy`): the record button sets
  its column unvalidated.
* `McpAccess.OneEventPerCall` (`mcp/activity.rs`): a call the scope gate turns away
  is logged nowhere; a failed authentication is logged under no org.
* `AccountErasure.SameEndState` (`api/clerk_webhook.rs:525`): a membership webhook
  after the erasure writes a notification for the org that is gone.
* `Incidents.FirstReportStands` (`finalize_incident`): two agents' first reports
  both pass the check.
* `RateLimiter.EveryKeyExpires` (`ratelimit.rs:129`): the count is 1 only once.
* `Recipients.WebhookTakesEffect` (`recipients.rs:58`): a fetch in flight stores the
  old members after the invalidation.
* `NodeSettings.FirstCodecInherited` (`report_camera_codec`): the codec is read
  outside the transaction that writes it.

Others were seen with the models while they were written and are recorded here:

* `src/frontend/src/pages/SentinelPage.jsx:899` "Cooldown keeps Sentinel from
  running over and over for the same camera within the window": the read in
  `sentinel_dispatch.rs:223` is outside the lock, so two events in flight both
  pass it.
* `sentinel_dispatch.rs:270` "an operator can bound aggregate model spend": the
  fleet count is outside any lock and not repeated.
* `agent/server.rs:351` "It starts nothing new once `stopping` is set": the flag
  is read before the listing is awaited (`agent/processor.rs:176`).
* `src/docs/SENTINEL_AGENT.md:94` "At shutdown the drain starts nothing new": in
  poll mode `serve` waits for the poll loop before it sets the flag
  (`agent/server.rs:348`), and the loop's drain goes on listing.
* `agent/processor.rs:17`, the per-org cap "keeps one busy customer from taking
  every slot while another customer's runs wait": a backlog of one org can fill
  the listing (`api/sentinel.rs:192`) and hide the other's runs beside a free
  slot; `EveryRunTaken` shows that they are taken in the end.
* `agent/processor.rs:179` "A run that is no longer pending cannot come back, so
  only ids still listed need remembering": a row's stamp is taken before the lock
  (`sentinel_dispatch.rs:492`, `api/sentinel_config.rs:688`), so an older row can come
  in later, push a failed run that is still pending out of the listing, and the same
  drain tries it again. `OneAttemptPerDrain` excepts it.
* `ws.rs:165` "Its future is cancelled rather than left to time out": a command
  that waits for room in a full queue is not woken by the reconnect.
* `email.rs:130` "the worker gives up at once": `finalize_row` retries a missing
  key like any failure.
* `api/gdpr.rs:740` "then every row it owns": a row claimed before the erasure is
  logged after it (`email_worker.rs:312`).
* `api/hls.rs:426` "Live playback will resume on the 1st of next month":
  `warm_viewer_seconds` asks for the month three times (`hls.rs:605`, `614`,
  `633`) and can store the old month's total under the new one.
* `api/gdpr.rs:662` "A surviving agent key would still authenticate after the org
  is gone": one whose mint is under way is inserted after the erasure.
* `loops.rs:768`: the digest's anchor is deleted whether or not its notification was
  inserted; when the insert fails, `create_notification` returns before the mail
  (`notifications.rs:449`) and what the window silenced is in no digest.
* `auth/jwks.rs:94`, the stamp is set back so that "the first forced refresh is never
  rate-limited": on a host that booted less than that ago the start itself is the
  stamp (`unwrap_or_else(Instant::now)`), and the first refresh is refused.
* `plans.rs:414`, `plans.rs:423`: a failed read of either past-due setting counts as
  "not past due", so one enforcement can light what the grace's end suspended.
* `sync.rs:227-240`: a failed read of the cursor's second half is dropped, and the
  strict comparison on the stamp then passes over the rows that share it, for good.
* `ws.rs:98`, `api/ws.rs:639`: the end of any socket empties its node's message
  window, so a node that reconnects starts a fresh 180.
* `api/notifications.rs:266`: the badge counts unread rows that are older than the
  hours the list shows.
* `mcp/auth.rs:144`: a scope lookup that fails lets the call through to
  `resolve`, which decides on the key and not on its scope.

## 7. Not modelled

See `components`. In short: parsers, formatters and templates (no state, tested
by tables against the Python original), prompts and model answers beyond what a
turn does, signature and password primitives, static and read-only routes, camera
groups and naming (one check and one write each), the seat limit pushed to Clerk
(`set_org_member_limit`), the front end and scripts.

## 8. Plan

1. **Proofs**: the temporal half of `ImplementsLifecycle` and the seven liveness
   properties once a prover reaches fairness; the sums and sorts of section 5 once
   one reaches an induction theorem with an operator parameter.
2. **Compositions**: `Presence` with `NodeSocket` (a socket that is replaced while
   its heartbeat is being handled), `OrgPlan` with `CameraCap` and `AuthCache`,
   `Investigation` inside `RunQueue`.
3. **Algorithms**: schedule windows across time zones, version comparison, month
   arithmetic and paging, each against a reference definition.
