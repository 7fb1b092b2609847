# Uptime Phoenix: a TLA+ model of the monitoring core

Uptime Phoenix watches monitors (web sites, ports, databases, pushed signals)
and pages people when they fail. A hub runs several workers over one database;
probes in other regions check the same monitors, page on their own when the hub
is out of reach, and replay what they saw to the hub. This directory models the
part that decides whether a failure is noticed, recorded once, paged once and
told to the right side: leases, recording, incidents, delivery, escalation,
folders, replay, history, probe sessions, credentials, the watchdog and the
cutover between regional and aggregate paging.

Paths below are relative to `src/internal/` unless they start with `docs/`.
`PROJECT.json` lists the components, the runs, the source lines of every
definition, a mutant for every property, the hazards of the code with the
properties that watch over them, the findings and the theorems.

| module | what it models | proofs | run |
|---|---|---|---|
| `WorkerLease` | sharded scheduler, leases in the `monitors` table, the fence of a check | `WorkerProofs` | `workers` |
| `PushDeadline` | local scheduler and the deadline of a pushed signal | `WorkerProofs` | `workers`, `push_pause` |
| `RegionalHealth` | the retry rule, pure operators | | `recording` |
| `LocalHeartbeat` | recording a check: read, evaluate, compare-and-set, while configuration and assignment change | `LocalHeartbeatProofs` | `recording` |
| `AlertOutbox` | incident, alert and delivery intents of a recorded status; the consumers that send them | `AlertOutboxProofs` | `paging` |
| `NotificationDispatcher` | paging without the outbox | `DirectPagingProofs` | `direct_paging` |
| `ReplayedStream` | abstract specification: every event of an edge is settled once, or declared lost | | `replay` |
| `ProbeReplay` | edge queue, retention, pump, hub ingest, snapshots, restored edges; implements `ReplayedStream` | `ProbeReplayProofs` | `replay` |
| `Escalation` | the ladder of an alert, claimed by several runners, both delivery modes | `WorkerProofs` | `workers` |
| `GroupRollup`, `FolderStatus`, `GroupAlert` | status of a folder, and its alert recomputed by several workers | `DirectPagingProofs` | `direct_paging` |
| `MonitorGroups` | edits of the folder tree, policy resolution along it | `DirectPagingProofs` | `direct_paging` |
| `OverallHealth`, `HealthProjection` | ANY and ALL over regions, the stored snapshot | `LocalHeartbeatProofs` | `history` |
| `HistoryRecompute` | the recomputation queue of minutes, hours and days | `LocalHeartbeatProofs` | `history`, `history_repair` |
| `ProbeConnector` | runtime owners, connector sessions, connection generations | `ProbeSessionProofs` | `probe_session` |
| `CredentialRotation` | two-phase rotation of a probe's credential | `ProbeSessionProofs` | `probe_session` |
| `Watchdog` | health samples, timer, proposals and fenced commits | `WatchdogProofs` | `watchdog` |
| `DeliveryCutover` | the barrier between regional and aggregate paging | `DeliveryCutoverProofs` | `cutover`, `cutover_reset` |
| `MC*` | instances for TLC: model values, scenarios, symmetry, input sets | | |

The map covers about 9 % of the repository's 140,000 lines. Most of the rest is
request handling, storage of plain records, the web client, host
installation, checkers and notifiers. The models concentrate on the code whose
correctness depends on order: transactions, leases, sessions, queues and timers.

## 1. Inventory

For each component: state, operations, neighbours, what is hard and what makes
it correct.

**Sharded scheduler and leases** - `adapters/scheduler/sharded.go`,
`check_slots.go`, `adapters/repository/mariadb/repo.go`. State: `worker_id`,
`leased_at`, `lease_epoch` per monitor; per worker the `lastCheck` map, check
goroutines and slots. Operations: `ClaimBatch`, `RefreshLease`,
`ReleaseLeases`, `tick`, `runCheck`. It calls recording with the lease fence
captured at the tick. Hard: clocks of different hosts, leases that lapse while
a claim waits for row locks, checks that outlive their lease, crashes. Correct:
no result is recorded under authority that was lost, and a dead worker's
monitors are taken over.

**Local scheduler and push deadline** - `adapters/scheduler/local.go`,
`core/services/push_deadline.go`. State: due and arming times, running checks.
Hard: a push that races its deadline, arming after a restart or a pause.
Correct: a silent pusher is reported, a punctual one only if one of its pushes was
refused.

**Heartbeat recording** - `core/services/heartbeat_service.go`,
`regional_health.go`, `adapters/repository/local_heartbeat.go`. State: one
regional state row per monitor, the observations, the sequence allocator.
Operations: `Record`, `persistCheck` (16 optimistic attempts),
`CommitLocalHeartbeat`. Called by schedulers and by the push endpoint; commits
the lifecycle part of the outbox in the same transaction. Hard: overlapping
checks, two separate reads before the commit, configuration and assignment
changes in between, aborted transactions. Correct: the recorded history is what
a serial execution of the retry rule gives, gap-free, and nothing superseded
enters it.

**Alert lifecycle and delivery outbox** - `adapters/repository/delivery_outbox.go`,
`incident.go`, `alert_store.go`, `operative_local_grant.go`,
`operative_source_authority.go`, `core/services/delivery_consumer.go`. State:
incidents, alerts, throttle cursors, delivery intents with leases. Operations:
`commitLifecycleAndDeliveriesTx`, acknowledgement, `ClaimDeliveries`,
`ReconcileBeforeSend`, `AuthorizeLocalDelivery`, send, `FinishDelivery`. Hard:
several consumers, leases that expire under a sender, provider answers that are
lost, acknowledgement or recovery between claim and send. Correct: incident and
alert agree and follow the status, heartbeats are never refused, duplicates
only after faults, acknowledged outages are silent, messages come to rest.

**Notification dispatcher** - `core/services/notification_dispatcher.go`,
`alert_service.go`, `adapters/repository/notification_throttle.go`. The same
task without the outbox, in separate transactions after the commit. Hard: a
crash between any two of them, concurrent recorders that open the same outage.
Correct: one open alert that both recorders page for, its first page is not lost, pages are spaced, acknowledgement silences.

**Edge recording and replay** - `adapters/repository/edge/{record,replay,retention,current_snapshot}.go`,
`adapters/repository/probe_replay*.go`, `core/services/probe_replay_service.go`.
State: the edge's outbox with its byte budget, gap records, the hub's cursor and
the events it holds. Operations: append, retention, pump, acknowledgement,
ingest, snapshot, restore. Hard: lost, repeated and resumed batches, retention
that removes what was never sent, an edge restored from a backup. Correct: each
event is settled once or declared lost, and replay is never refused.

**Edge delivery and cutover** - `adapters/repository/operative_cutover*.go`,
`operative_source_authority.go`, `edge/delivery_cutover.go`. State: barrier rows and
phase, commands, member gates, provider attempts. Hard: commands that arrive
late, twice or never; a member that resets its stream; provider calls that are
in flight while the mode changes. Correct: no double paging, no hold that is
never released.

**Probe sessions and credentials** - `core/services/probe_connector*.go`,
`adapters/repository/probe_connector.go`, `probe_credential_*.go`,
`edge/credential_rotation.go`. State: runtime owner with epoch and lease, session with
generation, credential versions on both sides, receipts. Hard: processes that
stall beyond their lease, a database clock set back, sockets that break in every
phase of a rotation. Correct: one writer per probe, no lock-out, no retired
credential.

**Probe watchdog** - `core/services/probe_watchdog_*.go`,
`adapters/repository/probe_watchdog.go`, `edge/watchdog.go`. State: monotonic
timer, inbox, checkpoint row and incident. Hard: restarts, commits whose reply
is lost, settings that change between read and commit. Correct: every report is
earned, silence is reported.

**Escalation** - `core/services/escalation_service.go`,
`adapters/repository/escalation_outbox.go`. State: one row per alert with its
step, due time and claim. Hard: rounds longer than the claim, acknowledgements
between claim and send, edited policies. Correct: each rung once, none after an
acknowledgement, the ladder ends.

**Monitor groups and group alerts** - `core/services/monitor_group_service.go`,
`group_alert_service.go`, `core/domain/monitor_group.go`. State: the folder tree, a recorded
status per folder. Hard: two workers that recompute the same folder from reads
of different ages. Correct: pages alternate and tell the recorded status.

**Overall health and history** - `core/services/monitor_health.go`,
`overall_history.go`, `adapters/repository/health_projection.go`, `probe_history*.go`. State: regional
rows, the snapshot with its version, dirty markers and rollups. Hard: late
evidence, clocks that step back, gaps declared after the fact, overlapping
projections. Correct: once the queue is empty the rollups say what the evidence
says.

**Left out** (reasons in `PROJECT.json`): probe registry and activation beyond
what other modules see of them; stream reset beyond its effect on a cutover;
fleet operations; authentication; event bus and websocket hub; HTTP API, status
pages, backup, import and configuration as code; checkers and notifiers;
certificate and condition alerts; web client, charts and commands.

### How the parts interact

    scheduler tick --fence--> check --result--> Record
       | leases (WorkerLease)                     | read, evaluate, compare-and-set (LocalHeartbeat)
       | push deadline (PushDeadline)             | same transaction: incident, alert, intents (AlertOutbox)
       +-- fence judged inside the commit <-------+
                                                  v
             outbox mode: consumers claim, reconcile, obtain a grant, send, finish
             direct mode: OnHeartbeat in the recorder (NotificationDispatcher)
                                                  |
             alert opened: ladder (Escalation); folder recomputed (GroupAlert)

    probe: edge outbox --session--> hub ingest (ProbeReplay) --> regional rows
             |  session, credential (ProbeConnector,            --> snapshot (HealthProjection)
             |                       CredentialRotation)        --> rollups (HistoryRecompute)
             |  silence (Watchdog)
             +-- who pages: regional or aggregate (DeliveryCutover)

Each module takes its neighbour's result as an input: `LocalHeartbeat` lets a
fenced check be abandoned at any time instead of repeating the leases;
`AlertOutbox` and `NotificationDispatcher` let any status follow any other, as the
retry rule does once `max_retries` may be edited (PENDING after DOWN included); `Escalation` takes acknowledgement and resolution as steps of
its environment; `HistoryRecompute` and `HealthProjection` take replayed evidence.

## 2. Modules and code

Every action is one transaction or one step between two of them; a handler that
reads, leaves the database and writes is several actions. Times are ticks, with
the constants that matter for order (a lease, a grace, a budget) kept as
parameters. Faults are counted and bounded by `MaxFaults`, revisions,
generations and starts by constants of their own.

### WorkerLease

Variables are the lease columns (`active`, `worker`, `leasedAt`, `epoch`), each
worker's `clock`, place in the loop (`pc`), `admission` time of a claim and
`lastCheck`, the check goroutines (`checks`), and the history variables
`commits` and `lapsed`.

- Every worker has its own clock. The clocks never run backwards and are
  otherwise unrelated, which is weaker than what NTP gives.
- `ClaimBatch` is two steps, because the code samples one clock before it waits
  for row locks (`ClaimAdmit`) and another once it holds them (`ClaimBatch`).
- A tick reads its clock and its monitors in one step; the list is re-read on
  every tick. Admission time is reset when a claim ends.
- Two queued checks of a monitor under one fence are indistinguishable, so the
  set `checks` holds one queued and one running per fence.
- The commit keeps only the fence; what else it does is `LocalHeartbeat`.
- Left out: push monitors, proxies, worker readiness, the generation in the fence.

### PushDeadline

One pushed monitor under the local scheduler: tick, arming, the captured check,
`EvaluatePushDeadline`, `RecordMissed`, the push handler, windows, restarts and
configuration changes. A pause is a new revision that disables the monitor, and
the endpoint refuses a push to a disabled monitor (`Refuse`). The `punctual` part
has a pusher that keeps its interval, paused or not, with jitter 0; the `silent`
part one that stops. The scheduler disarms a monitor only on a tick that finds it
disabled, so a pause that begins and ends between two ticks leaves the arming as it
was; `refused` records that a push was turned away since the monitor was armed.

### RegionalHealth and LocalHeartbeat

`RegionalHealth` is `EvaluateObservation` and `EvaluateRetry` as operators, with
the machine's largest integer as the constant `MaxInt`.

A check (`check[c]`) goes through `Record`, `CheckRevision`, `ReadGeneration`,
`ReadState` and one of `CommitLocalHeartbeat`, `CommitRefused` (the assignment
or configuration is no longer the captured one), `CommitRetried` (stale
expectation or engine abort, one of `MaxAttempts`) or `GiveUp`. `Abandon` stands
for a lost lease or a cancelled context. `ReplaceAssignments` and `Activate`
change generations, set revisions and the active configuration.

Left out: saving without an assignment (generation 0) and seeding from legacy
heartbeats. The regional application row of the active configuration is taken
to exist. A raw MAINTENANCE result has the effect of the maintenance flag.

### AlertOutbox

One monitor. `OpenIncident`, `RenewIncident`, `ResolveIncident` and
`RecordQuietly` are the cases of `commitLifecycleAndDeliveriesTx` after
`persistCheck`. `Acknowledge`, `Activate`, `Reassign`, `ToggleMaintenance` and
`ToggleGate` are what operators do. A consumer runs `ClaimDeliveries`, then for
each intent `ReconcileBeforeSend`, `AuthorizeLocalDelivery`, `Send`,
`FinishDelivery`. `Expire` ends a lease.

- The fence of a claim is the holder: a consumer works through one batch at a
  time, so it never has two claims of one intent.
- The reads of `ReconcileBeforeSend` are one step. All of them but maintenance
  are repeated in the grant's transaction.
- `available_at` and backoff are abstracted: any subset of the due intents may
  be claimed. `attempt` stops at `MaxAttempts`.
- `Reassign` is removal, addition and activation in one step. A disabled
  channel counts as unlinked.
- Faults: a lease that expires under a working consumer, an abandoned batch
  (crash, or the 4 s context), a lost outcome, a provider that took a message
  and reported an error.
- PENDING and MAINTENANCE have the same effect on the lifecycle, so a run
  enables one of them (`Recorded`).

### NotificationDispatcher

One monitor and generation. A recorder is a goroutine in `Record`; `job[r].pc`
names the next transaction of `OnHeartbeat`. The maintenance read of `Record`
is part of the commit, the one of `OnHeartbeat` is its own step. `OpenOnDown`
is three: the look-up, the insert, which the unique `open_monitor_id` refuses when
another recorder's row is open by then, and the re-read of the winner's row. Resolving
is a read and a conditional update. A PENDING after DOWN (`max_retries` was raised
during the outage) counts as a lapse of the open alert (`lapses`): the UP after it
matches no branch of `OnHeartbeat` and leaves the alert open. `QueryFails` is a
failed lookup after which the code goes on, `Crash` a stopped process or a failed
write that ends `OnHeartbeat`. A provider error counts as an attempt: the code logs
it. The history variable `alone` says that recorders have only followed one another
and no window came.

### ReplayedStream and ProbeReplay

`ReplayedStream` is what replay promises: an event is appended, settled at the
hub or declared lost, and only then released by the edge. `ProbeReplay` is the
protocol: `edge` holds queue, gap and snapshot state, the session carries at
most one batch with its acknowledgement, the hub has a cursor and the settled
events. Retention, the pump, retries, snapshots, an edge restored from a copy of
its data directory and a failing hub store are actions. A row expires by the time of its observation,
which follows the sequence only while the edge's clock is steady, so a retention
pass may evict any rows, in any order, before it evicts for space. The refinement maps the
edge's rows and the hub's ledger to the abstract sets.

The events in `Ahead` are observations the hub accepts although they are dated after
its clock (up to 30 s): they become history and do not change the live state. A
snapshot's state may be ahead as well, and then only its receipt is written.

Abstracted: the reserve for leased outcomes, the 512-row limit of a retention
loop, the generation and lease fence (that is `ProbeConnector`), the event queue of
16, the gating by configuration revision.
A hub restored behind the edge is not modelled. `SteadyStateFollowsHistory` speaks
of an edge that still owns every event ever created (`ids = Created(edge)`): it may
have been restored, but not to a copy that lacks an event.

### Escalation

One alert with its ladder row. Runners (`work[w]`) claim the due row, re-read
the alert, send or queue, and advance or finish with the claim token. Policy
edits, acknowledgement, resolution, failing writes and rounds that are cut off
are steps of the environment. With `Outbox` the step is queued in the
transaction that checks alert and token; without it the provider is called
first. Clock skew between workers and the assignment generation are not
modelled. In direct mode a round that outlives its lease may be repeated, so
`StepQueuedOnce` and `AckIsAuthoritative` speak of the outbox.

### GroupRollup, GroupAlert, MonitorGroups

`GroupRollup` is the rollup as operators on the children's statuses; `FolderStatus`
is a folder with settings that `validate` accepts, whose children come and change. In
`GroupAlert` a worker that recorded a beat walks up the folders: it reads the
children's statuses one at a time in any order (one whose read fails contributes
nothing), computes, compares with the
recorded status by a compare-and-set, pages if it won. `MonitorGroups` has the
tree edits as separate reads and a write, and the walk that finds the policy of
a monitor (nearest folder first, until a folder repeats). The history variable
`calm` says that requests that change the tree have not overlapped, `deep` that a
walk of `validateParent` used up its turns (`MaxWalk`, 64 in the code) with folders
left above, and the move was accepted all the same. The policy walk's
result is compared with `ByContract`, which names the policy through chains of
parents; while a walk is under way the tree does not change.

### OverallHealth, HealthProjection, HistoryRecompute

`OverallHealth` is ANY and ALL over regional statuses with freshness.
`HealthProjection` is the stored snapshot: evaluate, load, write, by overlapping
projectors, each of which may fail at any step (`ProjectionFails`) and leave the row
as it was. A snapshot is the status, the policy and the counts, since
`sameHealthSnapshot` compares them all (the reason follows from the other two); the
health policy is edited meanwhile (`PolicyChange`). `HistoryRecompute` has evidence with its time and sequence, dirty
markers with a revision token, selection by workers, a snapshot read, the
publication that clears a marker only under its revision, gap and clock repair
(`ranges`, `gaps`, expanded a minute at a time) and history clear; one stream per probe, fixed assignments, a day of minutes and
hours. The batch counter is abstracted. Assignment intervals, the pause policy
and the replacement of streams are not modelled.

### ProbeConnector and CredentialRotation

A loop (`pc[l]`) acquires the runtime row, renews it, acquires the connector
row, connects, obtains a generation the probe accepts, writes under it, and
releases both. Database time may be set back (`Back`). In the `prompt` scenario
loops renew before their lease ends, as the 15 s ticker does against a lease of
60 s. Left out: `RecordConnectorContact`, backoff, configuration rollover,
enrollment.

`CredentialRotation` has the hub's rotation row (prepare, commit, discard), the
probe's versions with the expiry of the old one, sessions, and the commands and
results on the wire. Each side has its clock; the probe's may be set back.
Receipts live 365 days and are kept; the mutual exclusion with certificate
rotation, several connectors and rotations before the latest are left out.

### Watchdog

`inbox` and `pending` are the owner's queue, `src` the source's timer and the
checkpoint it last saw, `op` a proposal between its read and its commit, `row`
the stored checkpoint and incident. Sessions and settings change between read
and commit; the process restarts; a commit's reply is lost. Not modelled: the
delivery authorisation of watchdog pages, the settings API, acknowledgements,
the loop on a stale proposal and the progress deadline.

### DeliveryCutover

A coordinator pass is one action per phase of the barrier, since it is one
transaction under a stored lease. Commands (`rows`) are claimed on a session,
travel in order, are executed by the member against its `gate` with a receipt,
and completed. Provider attempts (`send`, `aggregate`) have a budget and a
settling time. A resume may expire at any time (24 h in the code). Acknowledging
a configuration and its preparation round are one step. One provider attempt per
source is in flight at a time. Not modelled: withdrawal of the capability,
blocks by corrupt evidence, the aggregate incidents and intents themselves.

## 3. Runs

States are distinct states as TLC reports them. No run replaces a definition. A
module with several questions of different size is run in scenarios: an
unchanging variable (`scenario`, `part`) chooses which actions and limits apply,
and the table names them.

| run | scenarios | bounds | states |
|---|---|---|---|
| `workers` | lease, punctual, silent, ladder | 2 workers, 1 monitor, TTL 1, clocks to 2, 2 starts, 2 checks; push interval 2, grace 2, 2 check goroutines, 2 changes, 2 pushes; 2 runners, both delivery modes, 2 steps, claim 3, 2 edits, 2 faults | 520,450 |
| `push_pause` | punctual | the same | violated |
| `recording` | - | 1 monitor, 2 overlapping checks, 3 inputs, retries 1, 2 attempts, 2 numbers, 2 revisions, 3 set revisions, symmetry in the checks | 1,634,886 |
| `paging` | lifecycle, races, rollout, windows | 1 channel, 2 consumers, 2 incidents, 2 or 3 intents, 2 attempts, 2 revisions, 1 fault | 136,857 |
| `direct_paging` | owner, shared, window, folders, rollup, edit, resolve | 2 recorders, 2 alerts, 1 interval, 1 lapse per alert, 6 pages, 2 faults; 2 workers, 2 monitors, 2 nested folders; folders of up to 3 children, thresholds 0, 1, 2, 34, 50, 100, 101; 3 folders and 2 policies in the tree, walks of 2 turns | 516,381 |
| `replay` | steady, restored | 3 events, the first ahead of the hub's clock, the third unauthorized, batches of 2, 6 bytes with a reserve of 2, 1 gap, 1 fault | 709,173 |
| `history` | steps, loss, clear, stored | 2 probes, 2 workers, 1 tick per minute, 2 minutes per hour, 2 hours, 2 events, 1 gap (with 1 event, in either order and under any clock), 1 clear; 2 projectors, 3 beats or edits | 177,588 |
| `history_repair` | the same | the same | violated |
| `probe_session` | loops, prompt, rotation, settling | 3 loops of 2 processes, lease 2, clock set back by 1, 2 generations (5 in prompt); 3 versions, overlap 2, skew 2, 2 drops | 481,989 |
| `watchdog` | faults, settings, silence | thresholds 2 and 3, recovery 1, resend 2, inbox 1, time 4 to 5, 1 session, 2 revisions, 1 fault | 1,432,195 |
| `cutover` | paging, local, cycles, calm | 1 remote member (and the hub-local one), deadline 2 or 1, 1 or 2 barriers, 2 tries, 2 revisions, 1 fault | 694,544 |
| `cutover_reset` | - | the same with a stream reset, under fairness | violated |

What each run checks and why its bounds are enough:

- **workers.** `LapsedLeaseNeverCommits`, `CommitsInLeaseOrder`: a stale
  commit needs one worker whose clock is behind or who waits for locks, one that
  takes over, and a check queued before; two clock units with TTL 1 let a lease be
  taken, lapse and be taken again, and the proofs go beyond.
  `AbandonedMonitorTakenOver`: after crashes and stops in any order a remaining
  worker holds the monitor, as far as clocks reach (`Horizon`).
  `DeadlineTellsSilence`: in the punctual part a DOWN is recorded only if a push
  was refused since the monitor was armed, in the silent part one is recorded. Two
  goroutines are needed for a check that waits for a slot.
  `StepQueuedOnce`, `AckIsAuthoritative`, `LadderEnds`: a round may outlive its
  claim, which the other runner then takes.
- **push_pause.** `PauseNeverDown`, what a comment says of pauses; see the findings.
- **recording.** `SerialHistory`, `SequenceGapFree`, `SupersededNeverRecords`,
  `ConfirmedByConsecutiveFailures`, `ContentionMeansProgress`. Two checks are
  enough for a lost race; 2 attempts stand for 16, as losing every race is the
  case of interest; `MaxInt` 2 makes the down count saturate. All five are also
  proved without these bounds.
- **paging.** `LifecycleIsSound` = `AlertMirrorsIncident` (incident and alert
  are open together and name each other), `HeartbeatNeverBlocked` (no recording
  is refused by the lifecycle), `AlertTracksStatus`. `MessagesAreExplained` =
  `DuplicatesNeedFaults`, `NoOrphanRecovery`. `AckStopsPaging` is an action
  property, `EveryMessageSettles` liveness. Two consumers and one expired lease
  are the shortest way to a duplicate; three intents are a page, a repetition and
  a recovery, or two outages.
- **direct_paging.** `OwnerIsFaithful` = `AlertFollowsStatus`, `PagesAreSpaced`,
  `AckBoundsPaging`, while recorders follow one another outside windows (`alone`),
  the setting the code's comments describe; an alert whose outage lapsed into
  PENDING is the exception. `OpenRaceRecovered` (one open alert, and whoever lost
  the race to insert it pages for the winner's unless it was resolved meanwhile) and
  `InitialPageSent` hold with two recorders and windows.
  `PagesTellStatus` = `PagesAlternate`, `RecordedDownWasPaged`,
  `LossNeedsFault`; `RollupIsSound` = `MaintenanceIsInvisible`,
  `UnknownNeverLooksHealthy`, `DeadFolderIsDown` over every folder of up to three
  children and the thresholds around each boundary; `TreeIsSound`
  says that requests which do not overlap leave no cycle (`Acyclic`) unless a walk
  ran out of turns, which three folders and two turns reach, and that the policy walk
  finds the policy of the contract (`ResolvesByContract`), from every table of
  parents, cyclic ones included; `FolderSettles`.
- **replay.** `EveryEventAccounted` (queued, settled once, or in a declared gap),
  `ReplayNeverRefused` (no batch, gap or acknowledgement on the wire is one the
  other side must refuse, which would repeat on every reconnect; an outdated snapshot
  and a retry that comes when nothing is in flight do end a session, and are not part
  of it), `SteadyStateFollowsHistory` (the hub's current state is at least as new as
  every observation it accepted that was not ahead of its clock), `SteadyImplementsStream` (the refinement, with its fairness).
  Three events of two sizes fill the byte budget, so retention, gap and batch
  limit all happen.
- **history.** `HistoryIsExact` = `ClearedStaysCleared`, `MinutesAreExact`,
  `ParentsAreExact` (once nothing is left to do, every closed bucket says what the
  evidence says, except one with a minute beyond a gap's repair, `BeyondRepair`);
  `SnapshotIsSound` = `StaleHasACause` (the stored snapshot is stale only after
  overlapping projections or a failed one), `VersionsAreChanges` (without overlap a
  version names one snapshot and its successor another); `HistorySettles`. Two minutes per
  hour and two hours are the smallest calendar in which evidence of one bucket
  dirties another one's coverage.
- **history_repair.** `NoFabricatedCoverage`: the same without the exception, as a
  document has it; see the findings.
- **probe_session.** `SessionsAreFenced` = `SessionWithinRuntime`,
  `NewestSessionWrites`; `AuthorityIsNotTaken`; `RotationIsSafe` =
  `NeverLockedOut`, `SupersededSessionsEnd`, `ReceiptsAreRecorded`;
  `RetiredOpensNothing`; liveness `ProbeIsReached`, `RotationSettles`. Two loops
  of one process and one of another cover a restart inside a process and a
  takeover; three versions are a rotation on top of an unfinished one.
- **watchdog.** `ReportsAreEarned` = `NeverWedged`, `OpensAfterLoss`,
  `RecoversAfterStreak`, `OnePagePerTransition`; `SilenceIsReported`.
- **cutover.** `CutoverIsSafe` = `NoDoublePaging`, `ActiveIsApplied`,
  `LiveGateIsCurrent`, `BlockedIsRecoverable`; `HoldsAreEnded`. Every race of
  the protocol is between the hub and one member; a second member matters for the
  hub-local one, whose gate is written inside the pass, and a second barrier for
  commands of the first that arrive late.

### Fairness

- `WorkerLease`: clocks advance; the select loop of a running worker refreshes
  and claims on every poll (weak fairness); claims may fail from time to time but
  not for ever (strong fairness on `ClaimBatch`). No worker has to start, stop or
  exit and no check has to run. `PushDeadline`: clock, scheduler and checks run.
- `AlertOutbox`: a consumer finishes what it claimed (its batch context ends it
  otherwise), leases run out, and an intent that keeps becoming due is claimed,
  since claims are ordered by `available_at` and polled every second.
  `EveryMessageSettles` further assumes that the gate is eventually open for good.
- `NotificationDispatcher`: the scheduler keeps checking and a recorder gets
  through `OnHeartbeat` unless it crashes, at most `MaxFailures` times.
- `ProbeReplay`: connecting, noticing a lost session, and every step of pump and
  hub are taken when they stay enabled; faults are finitely many.
- `Escalation`: clock, start, poll and rounds go on; nobody has to acknowledge.
- `GroupAlert`: a worker finishes its evaluation; strong fairness on each
  monitor's beat, because monitors go on being checked.
- `HistoryRecompute`: the minute loop, selection and expansion are polled; reads
  and publications repeated after a conflict get through in the end (strong).
- `ProbeConnector`: in `prompt` the loops and the clock run. `CredentialRotation`:
  as above, with strong fairness on `RecordCommandResult`, because the probe
  waits 12 s before it cuts the session and the hub's commit is bounded by 10 s.
- `Watchdog`: the owner's loop and the clock run. `DeliveryCutover`: coordinator,
  clock, command loop and provider calls go on, and a member comes back after
  each of the finitely many faults.

### Findings

`cutover_reset`: the comment at `adapters/repository/operative_cutover_store.go:52`
says that past the activation deadline a barrier "drains through the ordinary
resume path", so that no member stays unpaged. After a stream reset of a quiesced
or applied member the resume names the barrier's retired stream; `ClaimCommand`
(`probe_command.go:257`) sends only commands of the session's stream, and
`ActivateStreamReset` (`probe_stream_reset.go:366`) cancels the unconfirmed ones,
which the coordinator goes on reading as pending. The edge keeps its gate, and the
hold does not end.

`push_pause`: `core/services/push_deadline.go:38` says that "a restart or a pause never
becomes a DOWN on its own: the pusher always gets one interval after the scheduler is
watching again". A pause and a resume between two ticks of the scheduler leave the old
arming. The push the endpoint refused meanwhile is recorded nowhere, and the next check
finds both the latest push and the arming too long ago (`scheduler/local.go:231`).

`history_repair`: `docs/multi-region/M3_HISTORY_ACCEPTANCE.md:53` says that "gap
boundaries, zero-time gaps and forward-skewed older sequences cannot fabricate
coverage". A sample made under a clock that ran ahead is rolled up in its minute; a gap
through a later sequence, observed at the corrected time, is declared. The gap hides the
sample, but `expandHistoryGap` (`probe_history.go:569`) re-marks minutes only to the
gap's end plus the freshness window, and the later minute keeps its coverage.

### Observations without a run

Disagreements between a comment or a document and the code that were met while
modelling and that the properties above therefore state more carefully:

- `delivery_outbox.go:408` against `docs/multi-region/ARCHITECTURE.md:444`: the
  resend cursor is stamped when a page is queued; a window that opens before the
  send supersedes the page and leaves the cursor.
- `notification_dispatcher.go:284` against line 60: only UP directly after DOWN
  outside a window resolves, so a recovery inside a window leaves the alert open, and
  so does one that comes after a PENDING (`max_retries` raised during the outage).
- `notification_dispatcher.go:268` against `heartbeat_service.go:273`: with
  pushes recorded by HTTP handlers, a delayed DOWN may open an alert after the
  following UP found nothing to resolve.
- `monitor_group_service.go:208` against line 299: two overlapping edits can
  close a cycle of parents; `TreeIsSound` speaks of requests that do not overlap.
  `validateParent` also accepts what it has not refused after 64 turns (line 199),
  so a cycle can be closed through a chain of more folders than that; `TreeIsSound`
  excepts trees in which a walk ran out of turns.
- `escalation_service.go:665` against `bootstrap/run.go:1343` and line 570:
  without the outbox a round longer than its claim may send a step twice, and an
  acknowledgement after the re-read is paged over.
- `push_deadline.go:66` against line 67: a push between evaluation and
  `RecordMissed` is followed by a DOWN.
- `monitor_health.go:88` against `docs/multi-region/PROTOCOL.md:681`: overlapping
  projections can reuse a version; what `SnapshotIsSound` says of versions it says of
  projections that do not overlap.
- `probe_watchdog_source.go:105`: a healthy sample whose commit reply was lost is
  not noticed by the source, and loss is measured from the one before it. The line
  compares checkpoints, not versions: after a disabling and an arming whose replies
  were both lost the source goes on with the timer it had, and may open sooner than
  the loss interval after the arming.
- `operative_cutover_store.go:550` against line 532: a monitor switched between
  `aggregate` and `both` stays released after the drain.

## 4. Proofs

TLAPS checks every theorem for all values of the constants, and each safety
property that a run checks is stated by one. The assumptions are the named ones on
the constants: `LeaseAssumption`, `RecordingAssumption`, `MaxIntAssumption`,
`OutboxAssumption`, `HolderAssumption`, `DispatcherAssumption`,
`EscalationAssumption`, `GroupAlertAssumption`, `FolderAssumption`,
`TreeAssumption`, `HealthAssumption`, `ProjectionAssumption`, `HistoryAssumption`,
`ConnectorAssumption`, `WatchdogAssumption`, `CutoverAssumption`,
`ReplayAssumption`. They say that counts are naturals, that the value for "nobody"
is not a worker, and that a lease is long enough to be renewed; TLC evaluates them
on the runs' values. The theorems on `CredentialRotation` carry `Parameters` as a
hypothesis, and `MCProbeSession`, which has the module twice, assumes it of both
(`RotationParameters`). The bounds (`MaxClock`, `MaxFaults`, ...) are constants
too, so nothing depends on them being small. One theorem has a hypothesis besides,
`PunctualNeverMissed`; `ImplementsStream` is about edges that are not restored. Invariants were checked by TLC, where
their form allows it, before they were proved, and each theorem follows the same plan: `Init` implies the invariant, every
action keeps it (a lemma per action or family of actions), it implies the property.

**WorkerProofs.** `LeaseInv` adds four facts to the types and to
`FenceNamesOneWorker`. That a lapsed instance whose row still names its worker is
expired on that worker's clock (`LapsedStaysExpired`) is why `RefreshLease` and
`ClaimBatch` cannot revive it: both test expiry on the clock of the worker they
act for. `LapsedIsPast` keeps a new epoch out of `lapsed`. `ChecksCarryFences` and
`CommitsCarryFences` say that what is queued or recorded belongs to the present or
an earlier instance, and that the present one has a single holder. From these:
`TypeCorrect`, `EpochNamesWorker`, `LapsedNeverCommits`, `CommitOrder`. No relation
between the clocks is used.
On the ladder, `EscalationInv` is `LadderTypes`, `PlansFit` (a round that
is not at its last step has a step after it), `OutboxNeverSends`, `NoRowBeforeAlert` and
`QueuedBelow`: every queued rung lies below the row's next one, and a row that went
backwards would queue again. With the outbox: `QueuedOnce`, `AckEndsPaging`.
The last part is about `PushDeadline`, taken by `INSTANCE`. `PushInv` says that a
check of the present revision carries the present arming and is about to record a miss
only after a refusal (`CheckFits`); that while the monitor is armed the last attempt to
push or the arming lies at most interval plus jitter back (`PushedInTime`); and that
without a refusal no attempt was lost (`NoneLost`). Times are cut to seconds once,
so a jitter shorter than the grace (`GraceIsEnough`, the theorem's hypothesis) is
enough: `PunctualNeverMissed`, the safety half of `DeadlineTellsSilence`.

**LocalHeartbeatProofs.** `RecordingInv` joins `SerialHistory` and
`SupersededNeverRecords` with `StateMirrorsLog` (the state row is the last
observation, so a matching expectation says something about the history),
`LogIsPast` and `ExpectationsArePast` (numbers, generations and revisions never run
ahead, so a number that matches was not reused) and `ReadsAreCurrent` (while a
check's expectation equals the stored number, what it evaluates from is the stored
state). The compare-and-set on the sequence number is thereby all the locking
`persistCheck` needs: `HistoryIsSerial`, `SupersededNeverReturns`. `HistoryInv`
adds `NumbersGivenOnce` (each number up to `lastSeq` is held by exactly one
monitor's log), `FailuresCounted` (each entry's down count is the length of the run
of failures ending there, capped at `MaxInt`) and `AttemptsAreExplained` (every
used attempt has a commit of another check or an abort behind it): `NumbersAreDense`,
`FailuresAreConfirmed`, `ContentionIsProgress`. `TypeCorrect` comes first.

The same module has what becomes of recorded statuses. For the stored snapshot,
`ProjectionInv` says that as long as projections have not overlapped the versions
are counted, each names one snapshot, and what a projector at work has read is still
so or the evidence moved; a projection that fails leaves `failed` behind:
`SnapshotSound`.

`HistoryExact` says that once nothing is left to do, every closed minute, hour and
day is what all the evidence says of it, for any calendar, probes, workers, samples
and clears. `HistoryIInv` is about minutes and about the overall row. `Accounted`: a
minute is marked, or exact, or its recomputation is due, because a repair range or a
pending gap has yet to reach it, or because an earlier minute of the region is marked,
or will be by a gap (`OwedByBoth`), whose sample carries over into it; or it lies beyond
a gap's repair. `ReadsAreAccounted` says the same of what a worker
has read under a marker that is still current, and `CarriesAreKnown` that such a
worker knows what its minute carries over: a sample that came after its read has
given the marker a new revision. So a publication under an unchanged revision
loses nothing, and one under a changed revision does nothing. `ParentInv` is about
hours and days: a parent of a marked bucket is marked; an unmarked parent is the merge
of its children's rows, or nothing was ever projected below it; a worker with a
current marker holds that merge, and nothing below is marked. When the queue is empty
the minutes are exact, and `MergeIsTruth` carries that to hours and then to days: the
children of a bucket partition its ticks, and a sum of cardinalities over disjoint
sets is the cardinality of their union (`SumIsJoined`, by induction on a finite set).
Clock steps and gaps may come together. What a gap's repair does not reach is a minute
in which an older sample, made under a clock further ahead, is fresh (`BeyondRepair`);
such a minute and the hours and days over it (`Forgettable`) are left out of the
statement, and what a child may forget its parent may (`ForgettableChild`). `FenceInv`
gives `ClearedSound`, that nothing an operator cleared comes back.

**AlertOutboxProofs.** `LifecycleInv` is the shape of the rows (`Rows`),
`AlertMirrorsIncident`, `AlertTracksStatus`, `OneOpen` and `IncidentsArePast`: only
the newest incident is open, and none is of a generation to come, so a recording
finds at most one incident to renew or resolve and it is the alert's own. This
gives `LifecycleSound` and the action property `ResolvedStaysResolved`.
`DeliveryInv` is about intents and consumers: `References` (what an intent or a
consumer names exists), `SentWasTaken` and `FinishedWasTaken` (a sent intent, or a
consumer about to say so, has a message the provider took), `NoOrphanRecovery`.
`NoOrphan` follows for any number of consumers and faults, and `AckStops` is proved
from the grant's own reads. `RepetitionsPaid` counts: every further time a message
may be taken (acceptances after the first, senders under way, one more if it may
be claimed again) is charged to a fault that already happened. It needs the shape
of a consumer at each step and that at most one consumer holds an intent under a
live claim, and gives `Explained` (`MessagesAreExplained`).

**DirectPagingProofs.** `PagesInv` is `Shapes`, `PagesAlternate`, `DownIsOdd` (a
folder is recorded DOWN exactly while its pages are odd in number) and `LossNeedsFault`, which counts
workers between winning and sending. Whatever stale statuses the workers read, the
compare-and-set makes the pages alternate: `PagesTell`. How a folder's status is
computed plays no part, so the theorem holds for every rollup rule. `RollupSound`
is about that rule: for folders of any size and any threshold, negative or beyond
the folder, maintenance is invisible, an unknown child never looks healthy and a
dead folder is DOWN; `FolderStatusSound` says so of every state of `FolderStatus`.

On `NotificationDispatcher`, `RowsInv` is types and one open row: look-up and insert of
`OpenOnDown` are two transactions, and the unique key refuses the second insert.
`AnswersInv` adds that a recorder that was refused has rows to read, and that one that
sends without an alert has a fault or a resolved alert behind it: `OneAlert`
(`OpenRaceRecovered`), for any recorders.
`OwnerFaithful` is about the time in which recorders follow one another outside
windows. `OwnerInv` says that then one recorder keeps an account and nobody else is
at work. The account says where each step of `OnHeartbeat` stands with respect to
status, throttle and open alert (`Place`, `Follows`) and counts pages: `Paid` charges
to intervals, lapses and faults not only the pages sent but those that may follow without
another one - an announcement or resend that is due, one past the throttle, a first
page never marked - and `Late` does the same for pages past the check of an
acknowledgement. A recorder at rest hands the account to the next (`HandedOver`).

On `MonitorGroups`, `TreeInv` has a part on requests and one on the resolver. While
requests have not overlapped (`CalmEdits`), the folders that `validateParent` has
passed miss the folder to be moved and are as many as the turns of its loop; an
accepted parent therefore lies in a set closed under parents without that folder,
and the move closes no cycle. The loop accepts what it has not refused after its last
turn; then `deep` is set, and `TreeSound` says nothing of cycles from there on. The
`Resolver` part says that the folders a walk has passed form a chain above the
monitor without assignments; a walk that meets one of them again has seen all there
are: `PolicyByContract`, on every tree, cyclic ones included.

**ProbeSessionProofs.** `ConnectorInv` is `TypeInv`, `EpochsAreUnique` and
`GenerationsAreUnique` (no two loops hold the same epoch or generation),
`AcceptedIsPast` (the probe never accepted a generation nobody was given),
`SessionUnderRuntime` and `GrantedUnderEpoch`: `TypeCorrect`, `SessionsFenced` and
the action property `NothingTaken`, with the database clock set back at any time.

The second half is about the credential. `RotationInv` is the types, `HubShape` (which
commands go with which state of the rotation row), `OneOutstanding` (at most one
command or result is on the wire, and it is of the command the hub waits for), `ReceiptsFit` (what the probe answered fits the row
the hub keeps), `InForce` (the credential in force at the probe is one the hub
tries), `RowFits`, `RetiredStays` and `SupersededSessionsEnd`: `RotationSafe` and
`RetiredStaysClosed`. The proof needed the value for "never" to lie before any time
a set-back clock can show.

**ProbeReplayProofs.** `ReplayInv` has four parts. `Stores`: rows and gaps of the
edge partition what it owes, receipts and gaps of the hub partition what it
settled, and what the edge pruned is known at the hub or was reported. `Wire`:
every frame starts no later than right behind the hub's cursor. `Pumping`: the
batch in flight starts at the cursor and tells what the queue holds. `Answered`: a
frame or an acknowledgement under way belongs to the batch completed last or to
the one in flight, and none of the older kind follows one of the newer, which is
what makes a late duplicate harmless. It gives `EventsAccounted` and
`StreamNeverRefused` (`ReplayNeverRefused`), restores and failures included, for any budget, batch size,
limit on gaps and length of the wire.
`Mirror` says that the hub, its current state and every frame show the edge's own
record. A restored edge may give a sequence out again to another event, and then the
hub has another record; `KeptInv` says that the copy is never ahead of the edge
(`BackupIsPast`) and that `Mirror` holds while no event was lost to a restored copy.
From it follows `StateKeepsUp`, that the current state is no older than any accepted
observation that was not ahead of the hub's clock, though snapshots overtake replay (`SteadyStateFollowsHistory`). Without
restores (`~ Restores`), `ImplementsStream`: every step appends, settles or releases
in `ReplayedStream`, or changes nothing of it, which is `SteadyImplementsStream`
without its liveness.
Retention is a recursive function over the evictions of one pass. That the
function exists and what every value keeps (`RetainComputes`, `Retain`) is proved by
induction on a set: a subset of `Nat` that holds 0 and the successor of each of its
members is `Nat` (`NatSet`), because its complement has no least element (`LeastNat`).

**WatchdogProofs.** The invariant `IInv` (`WatchdogInvariant`) follows a sample
from its reception to the row. `Types`, `Asleep`, `SourceIsSound` and `RowIsSound`
are shapes: a stopped owner holds nothing, a timer is one that `Restore` and the
events can make. `InboxIsCurrent`: what waits is of the present session, and an event
of an older one has the interruption behind it. `Ordered`: timer, event at hand,
interruption and queue are in the order of their times, so no event is refused for
its time and the owner is never stuck on one. `KnownIsGrounded`: a stored loss is no older than the silence
since the last sample that counts, over restarts and changed intervals, which is why
a report needs the whole interval. `RunsAreUnbroken`: a run of healthy samples is the
same at every stage, from the timer back to its reception, so a recovery has a
streak behind it. `ProposalIsFresh`: unless the settings changed, a proposal is the
one the owner would make now, and if they did the commit refuses it.
`PagesAreCounted`: pages of an open incident lie a resend interval apart. Together:
`EveryReportIsEarned`, for any inbox, intervals, sessions, settings and faults.

**DeliveryCutoverProofs.** `CutoverInv` has four parts. `Types`. `Commands`: command
rows are of barriers begun (`RowsArePast`), tries are in order, what is on the wire
fits its row, a recorded answer is what the gate said and still says, and none is
refused. `Holds`: gates follow the barrier (`GatesFollow`, `NoGateAhead`,
`HeldGates`), are released by resumes alone, resumes come after the commands of
their barrier, those of past barriers are released, and a hub that may page and a
member that may page exclude each other (`HoldsExclude`). `PhasesFit`: what each
phase of the barrier presupposes. The argument is that a gate only moves forward,
so a recorded answer stays true however late it is read, and that a resume is asked
for only when the hub's own attempt is over. `CutoverSafe` holds for any members,
barriers, tries, faults and timings.

### Only model-checked

Only what the prover cannot state is left to TLC alone:

- Liveness under fairness: `AbandonedMonitorTakenOver`, `EveryMessageSettles`,
  `InitialPageSent`, `LadderEnds`, `FolderSettles`, `HistorySettles`,
  `ProbeIsReached`, `RotationSettles`, `SilenceIsReported`, `HoldsAreEnded`.
- The liveness halves of `DeadlineTellsSilence` (a silent pusher is noticed) and of
  `SteadyImplementsStream`.

`cutover_reset` is refuted by TLC, under fairness; `push_pause` and `history_repair` are
refuted as invariants.

## 5. Not modelled

Beyond the components listed above and what section 2 names per module: the remote
half of the grant, disabled and deleted monitors in the outbox; folder alerts and
status pages in the dispatcher; message text; SQLite, where its locking differs
from MariaDB's; and the components with status `not_modelled` in `PROJECT.json`.
One hazard has no property: a process that stops between the commit of a
heartbeat and the dispatcher (`core/services/heartbeat_service.go:275`) announces
the failure only with the resend, if resends are on.

## 6. Plan

1. Models before proofs: the safety of what is modelled is proved, and each addition
   below brings its own invariant.
2. A composition of `LocalHeartbeat` and `NotificationDispatcher` that bounds the
   delay of a failure lost between them; `LocalHeartbeat` with the shutdown of
   `WorkerLease`.
3. Certificate rotation, which repeats the credential protocol with a key made at
   the edge; stream reset as a protocol of its own; preparation rounds of a
   configuration; the aggregate incidents of an active cutover.
4. Starvation of claims with the batch limit; login throttle; install journal;
   condition and certificate alerts.
