# AniMemo host updates: a TLA+ verification project

AniMemo is a self-hosted journal application. Most of its hard code is not in the
web pages but around them: the Update Agent that replaces the application while it
runs, the commands that change its configuration and back it up under the same
lock, the media store that many requests write into at once, and the publication
of a release to remote services that fail half-way. This project models that
machinery, checks it with TLC and proves part of it with TLAPS.

Paths below are relative to the repository. Line numbers of every definition are
in `PROJECT.json` (`map`).

## 1. Inventory

### 1.1 Components

| Component | State | Operations | What is hard | What makes it correct |
|---|---|---|---|---|
| Update executor `updater/executor.py` | none of its own; drives all below | `apply`, `rollback`, `reconcile`, `_rollback_after_switch`, `_resolve_uncertain_contracts` | ~30 durable or external steps in a row, each of which may fail before or after its effect; a handler for every failure, and failures in the handlers | uncertain contracts are marked pending before they become uncertain; a settled operation leaves a host in which CURRENT, locator, runtime contracts, schema and containers agree; a writer never runs on a schema it does not accept |
| Operation journal `updater/state.py` | one JSON record per operation: status, recovery binding, pending contract transitions | `create`, `transition`, `bind_recovery_target`, `mark_/resolve_contract_transition`, `require_recovery_clear`, `recover_incomplete` | read again after a crash as the only evidence | no status skips the machine; after a restart nothing stays incomplete; a blocked apply carries the receipt reconcile needs |
| Update lock `updater/state.py` | a `flock` and an in-process owner table | enter, exit, reentrant enter | handed from the RPC thread to a worker thread, shared with the host command line | one holder; always freed |
| Release slots `updater/slots.py` | CURRENT, PREVIOUS, history | `promote`, `restore_previous`, `import_current` | the commit point of an update | CURRENT is what runs once nothing is open |
| Runtime contracts `updater/runtime_state.py` | live database and configuration contract, enabled plugin APIs | `read`, `write`, `update` | read-modify-write shared by worker and RPC thread | they describe the live schema unless marked pending |
| Locator `updater/binding.py` | the instance record that names the release | `replace_release` | written after the slots | coherent with CURRENT |
| Deployment `updater/deployment.py`, `commands.py` | containers, schema, files on the host | preflight, pull, backup, quiesce, migrate, bootstrap, switch, health, inspections | commands time out while their container goes on | a failed command leaves any part of its effect |
| Compatibility `updater/compatibility.py`, `release/contract.py` | none | `plan_switch`, manifest validation | decides every switch and rollback | never allows an application a live contract rejects |
| Update agent `updater/agent.py` | in-memory caches; the thread's position | `plan_update`, `apply_update`, `rollback_previous`, `recover`, worker targets | check, lock, consume, create, hand over, each may fail | one open operation, no start behind the barrier, no plan twice |
| Plan store `updater/plans.py` | plan records | create, get, consume | expiry, reuse | at most one operation per plan |
| Worker manager `updater/background.py` | active and completed ids, admissions, closing flag | `mutation_start`, `start`, `wait`, `close` | start races close | a returned close is final; a lease is released once |
| RPC server `updater/server.py`, `runtime.py` | socket | recover, then serve | recovery waits for another process's lock | comes back to serving |
| Configuration transaction `updater/configuration.py` | its own operation record; locator, managed config, env files | show, validate, apply, rollback | multi-file write with compensation; nothing reads its journal again | a reported result is true of all files; what is left half done is on record and frozen |
| Instance registry, managed configuration `durability/instance.py`, `managed_config.py`, `ownership.py` | locator, config, derived env | register, load, replace by expected predecessor | several owners write one file | a replacement never overwrites a file it did not read |
| Initial adoption `updater/runtime.py:401-689` | slots, contracts, locator, operation | adopt, reconcile | first publication, resumable | adopted once, resumed from any crash |
| Release sources and trust `updater/source.py`, `transport.py`, `oci.py`, `offline.py`, `local_bundle.py`, `trust_lifecycle.py` | caches, trust receipts | fetch, verify | cryptographic and I/O heavy | only verified bytes are used |
| Backup `durability/backup_production.py`, `backup.py` | bundle, its one-time key, what ran | plan, execute, verify | plan and lock are far apart; stops writers and must restart exactly those, from every error | a bundle is of one moment; the report is true of the writers, the bundle and the key |
| Restore, migration bundles `durability/restore.py`, `migration.py`, `installer/restore_production.py` | protected archives, recovery evidence | plan, restore | irreversible in the middle | all or recoverable |
| Installer `installer/` | phase journal, restore journal | fresh install, restore, adoption | rollback from every phase | phases advance in order, irreversible ones demand recovery |
| Release publication `release/publication_transaction.py`, `publication_remote.py` | an append-only ledger, remote keys (tags, attestations, assets, the release) | plan, resume, preflight, begin, reconcile, finalize | answers get lost, requests land late, jobs overlap, others change the remote side | public only over what it stands on; no request twice for one record; a conflict freezes it |
| Media storage and references `backend/site_config/media_storage/`, `backend/journal/media_*.py` | receipts, objects, reference rows, fields, files | upload, save, unwind, clean up, reclaim, inventory | files and rows cannot commit together; cleanup races reuse; two commands and all requests share the rows | what a field names is there; no byte outside the accounting; limits and quotas hold |
| Doctor `durability/doctor.py` | - | read-only checks | - | - |
| Backend application `backend/` (the rest) | PostgreSQL | REST handlers, plugin host, external sync | row locks, lease takeover | per feature |
| Web client, plugins, bridges, sites, scripts | browser state | UI | - | - |

### 1.2 Interactions

An RPC (`plan_update`, `apply_update`, `rollback_previous`) runs on the only RPC
thread. It reads the recovery barrier and the plan, takes the update lock, reads
the barrier again, consumes the plan, writes the operation record and hands lock
and operation to a worker thread of the background manager. The worker runs the
executor; the executor writes the journal, slots, contracts and locator (each an
atomic file replacement) and calls Docker through the deployment. When the
process dies the kernel drops the lock; systemd restarts the agent
(`Restart=on-failure`), `serve_forever` takes the lock and turns every incomplete
operation into `failed_pre_switch` or `manual_recovery_required`; the latter is
the recovery barrier. It is lifted by `reconcile` on the host command line, which
takes the same lock from another process. Meanwhile the staff of the running
application may enable and disable plugins: the executor reads that set, and
nothing locks it.

Three more commands share `update.lock` and the files: `config` rewrites the managed
configuration, the environment derived from it and the locator, and recreates the
application; `backup` stops the API, copies database and media and starts it again;
adoption writes the first slots and contracts. A plan is always drawn without the
lock and compared again under it. The agent binds the same three files
(`CanonicalRuntimeBinding`) before every step, and fails closed when they disagree.

The media store is shared by web requests and two management commands, each on a
database connection of its own. A file is written before the transaction that
refers to it commits and deleted after the one that gave it up: receipts and object
lifecycles bridge the gap, and the cleanup commands work from those.

The publication controller runs in workflow jobs. It keeps its state in a ledger in
the repository's refs, appended by comparing the parent, and speaks to services
whose answers may be lost; a job may die at any point and be run again.

## 2. Plan

Modules are written so that they can be proved about: parameters are CONSTANTS
with named assumptions, one action per step of the code, no RECURSIVE operator.

| Step | Module | Composes | Status |
|---|---|---|---|
| 1 | `ReleaseCompatibility` plan, schema and contract vocabulary | - | done |
| 2 | `OperationStore` the journal's record and status machine | - | done |
| 3 | `UpdateExecutor` | 1, 2 | done: checked; types, all safety and action properties and the refinement proved |
| 4 | `HostMutation` the abstract promise | - | done; implemented by 3 and 6 (checked and proved) |
| 5 | `BackgroundOperations` | - | done: checked; safety proved |
| 6 | `UpdateAgent` | 4 | done: checked; types, plan reuse, ownership and the refinement proved |
| 7 | `ConfigurationChange` (`updater/configuration.py`, `durability/managed_config.py`, `updater/binding.py`) | - | done: checked; types and four safety properties proved |
| 8 | `BackupBarrier` (`durability/backup_production.py`, `backup.py`) | 7 | done: checked; safety proved, also that of 7 with backups beside it |
| 9 | `MediaLifecycle` (`backend/site_config/media_storage/`, `backend/journal/media_*.py`) | - | done: checked; types and all safety properties proved |
| 10 | `ReleasePublication` (`release/publication_transaction.py`, `publication_remote.py`) | - | done: checked; types and all four safety properties proved |
| 11 | `InitialAdoption` (`updater/runtime.py`) with `import_current` and `initialize_from_manifest` | 1, 2 | done: checked; types and both safety properties proved |
| 12 | `FreshInstall` and `RestoreJournal` (`installer/operations.py`, `installer/restore_production.py`) | - | left |
| 13 | `UpdateLock` with reentrancy and the in-process owner table | 5 | left |
| 14 | integration receipts, external sync, token rotation of the backend | - | left |

Theorems worth proving, in order: type correctness of the executor; the manager's
safety; `UpdateAgent` implements `HostMutation`; `BlockedApplyHasReceipt`,
`PreSwitchChangesNothing`, `RollbackKeepsContracts` and `BarrierHolds`;
`UpdateExecutor` implements `HostMutation`; the safety of the configuration
transaction, of the backup beside it, of the media store, of the publication and of the
adoption. These are done (section 5), and so are the properties of the executor that are about what
releases, contracts and containers are worth after failures: `CurrentIsRunning`,
`UncertainContractIsPending`, `SettledOrBlocked`, `ReconcileIsSound` and
`NoIncompatibleWriter`, and `OpenIsOwned` of the agent. Every invariant and
action property of a passing run has a theorem now; left are the modules of rows 12 to 14.

## 3. What is modelled

### 3.1 `ReleaseCompatibility`

A manifest is reduced to what decisions read: the database contract, the set it
accepts, its migration policy and migrations, the configuration contract and
accepted set, the supported plugin APIs. `PlanAllowed` and `PlanDecision` are
`plan_switch`. The schema is the set of applied migrations; `Describes(c, m)` says
that `m` is what contract `c` stands for, `Tolerates(r, m)` that release `r` can run
on it. `DatabaseTransitionOutcome` is `inspect_database_transition`, which
classifies an uncertain schema as current, target or indeterminate. `ContractsExtend` is
the discipline behind the policy `additive-backward-compatible`
(`docs/update-agent-v1.md:74`): a release's migrations are those of its contract, and a
contract extends the ones it replaces. `validate_manifest` cannot see it, so it is no
assumption of the module but a hypothesis of the theorems that need it; the instance of
`MCUpdateExecutor` satisfies it. That `plan_switch` raises on an updater version it cannot
parse is left to the steps that call it, which may fail anyway.

### 3.2 `OperationStore`

`TRANSITIONS`, `TERMINAL_STATES`, `PRE_SWITCH_RECOVERY`, the record with its binding
and its two pending transitions, and the status that `recover_incomplete` gives an
incomplete operation. Events and timestamps are left out.

### 3.3 `UpdateExecutor`

State: the operation records (`operations`), `slots`, `runtime`, `locator` (files);
`applied` (the schema), `configured` (settings, `Partial` when a bootstrap died in
the middle), `app` (what each service runs), `enabled` (plugin APIs), `job` (the
migrations a container still applies after its client was killed); `pc`, `active`,
`base` (the process: the next step, its operation, the CURRENT it read at its
start), `agent` and a `budget` of faults and crashes.

One action per step of `apply`, `rollback`, `_rollback_after_switch`, `reconcile`,
the worker wrappers and recovery. A durable write succeeds, fails without effect,
or fails after its effect (`_atomic_text` may raise after `os.replace`): the last
two use the fault budget. A container command may always fail, with any part of
its effect; it uses no budget. A crash may come between any two steps. Two
operations suffice for an update followed by a rollback, a downgrade or an update
after reconcile.

The executor is not the only one that records the enabled plugin APIs: the RPC thread
refreshes them while it builds the context of a request (`updater/agent.py:418-425`). It is
left out: the refresh is an atomic read-modify-write under `runtime.lock` that changes this
one field, no contract, and no property is about what the field holds between the steps of
an operation.

`JobsOutliveClient` says whether a killed docker client leaves its container
running. Docker does not promise that it stops, so the interesting value is TRUE;
`executor_crash` uses it. What a lingering container breaks - reconcile's verdict on
the schema, and with it `NoIncompatibleWriter` and `ReconcileIsSound` - is checked with
FALSE in `executor_fault`, and the run `orphan_v` shows the counterexample.

### 3.4 `HostMutation`

What the updater promises: one holder of the lock; an operation is prepared, then
committed (its first step that changes a contract or a service), then finished or
blocked; an operation that aborts has changed nothing; only the holder of a
committed or blocked operation changes the host; and none begins while one is
blocked. `UpdateExecutor!AbstractPhase`, `HostWorld` and the substitution in
`Abstract` are the refinement mapping: `prepared` is an operation without a pending
or executed contract change before `switching`; the world is slots, contracts,
locator, schema, settings and containers together.

### 3.5 `UpdateAgent`

The RPC thread (`rpc`), the stored plans, which plan each operation came from, who
holds the lock (RPC thread, worker or host command line) and HostMutation's own
state, on which worker and reconcile take HostMutation's steps. Requests, their
early returns, a lost client (its exception ends `serve_forever`, close waits for
the worker, which is not a daemon thread), kills, restart and recovery are
actions. `world` stands for the planning context: CURRENT, contracts, plugin APIs.

### 3.6 `BackgroundOperations`

Each critical section of the condition variable is one step; callers, workers and
the closing thread interleave. `Direct` are callers outside `mutation_start`, which
the class permits; two callers may bring the same id.

### 3.7 `ConfigurationChange`

`host` is what a change rewrites: the managed config, the environment derived from
it, the running application (the revision it was started with, or `Down`) and the
locator with its revision and release. A revision number stands for a digest of the
configuration; each plan draws a new one. `Validate` is `_current` and the plan,
`Begin` is `_assert_fresh` under the lock, `Forward` and `Backward` list what `apply`
and `_rollback` do, and `Do` is one of those steps: it compares what it has to
compare (`Permitted`), acts (`Effect`) and records (`Written`), or fails with nothing,
all or - for a `compose up` - half of it done. `Classify`, `MarkApplyFailed` and
`MarkRecoveryRequired` are the handler and the marks whose own failure the code
swallows. A killed command line leaves everything as it is. `Transitions` is the
table of `LocalConfigurationOperationJournal`. The agent is reduced to what it does to
these files: refresh, start, switch, publish, fail, reconcile.

Nothing in the code ever reads the journal of a configuration change again. So what
it is good for is evidence: `HalfDoneIsOnRecord` says a host left half-way always has
an open record, `MisalignedIsFrozen` that the comparisons alone keep everybody off a
host whose config and locator disagree. Unlike a backup, a configuration command does not
look at the recovery barrier (`configuration.py:787`): it may change and restart an
application whose update waits for recovery, and so it does in the model.

### 3.8 `BackupBarrier`

EXTENDS `ConfigurationChange`: the backup is one more holder of `update.lock` (`Guest`)
beside the command lines and the agent, over the same host. `media` counts uploads
in the files and in the database; the API writes the file first and commits the row
later. `BackupSteps` are the steps of `execute` between admission and return;
`BackupError` sends an error of any of them to `Restore`, which starts the API again
exactly if it ran, and `VerifyHealth` and `ReturnBackup` decide what is reported. The
envelope and the reference protection of the bundle are one key file.

Abstractions to know: only the last bundle is watched; `UploadCommits` may commit
at any time the API runs; a `compose up` that lands after its command was killed is
not modelled. A backup that is killed behind the barrier leaves the API stopped and
nothing that says it ran: the next backup takes the stopped API for its prior state.
No text promises otherwise, so no property forbids it, but it is a step of the
model. A failed directory sync after the rename together with a failed removal
publishes a bundle whose key is then discarded; the report of that command asks
for recovery, which `BackupReportIsTrue` allows.

### 3.9 `MediaLifecycle`

Receipts (`MediaWriteReservation`), objects (`MediaObject` and its lifecycle), the
completeness flag of the inventory, reference rows, the fields of entries and the
avatar, and the bytes at each backend and key. A worker is a database connection;
its `stage` is the place in the request between two commits, and its transaction
becomes visible in `Commit`. Row locks are guards: the owner row (`OwnerFree`), media
rows, receipt rows. Actions are reserve, write, finalize, the business transaction,
its unwinding (`Unwind`, `MarkReady`, `Discard`, `Abandon`), the retry command, the two
transactions of `cleanup_media` with the file deletion between them (`Claim`, `Erase`,
`RemoveRow`), entry deletion, kills, and the inventory command step by step
(`CloseGate`, `BackfillEntry`, `OpenGate`).

Abstractions: one owner; every upload has size 1 and sizes are known; local
backends (R2 is an external service and only its failure modes would differ); the
temporary `.upload-` file belongs to its write; enabling backends and account
budgets are left out; the media rows of a transaction are locked in one step, in
the order the code sorts them; URLs that are only links are `Nothing`. An entry's turn of the
inventory (`BackfillEntry`) is one step, although the command holds the owner row while it
waits for the entry's media rows: whoever holds media rows, or waits for them, either has
the owner row already or never asks for it, so this wait closes no circle. A receipt
whose commit was lost stays pending by design. An on-commit cleanup lost in a crash
leaves an active object nobody refers to, which no retry command picks up
(`media_references.py:380`): the bytes stay accounted for, so it is not a violation.

### 3.10 `ReleasePublication`

The remote keys of one release in order, what lies under each (`ABSENT`, `SAME`,
`DIFFERENT`), requests that were sent but have not landed (`inflight`), the head of the
ledger with one state per step, and the controllers. A controller runs one of the
commands of `scripts/release_publication.py`, a list of calls (`resume_pending`,
`preflight_all`, `begin_external`, the request, `reconcile_external`, `finalize`); each
call reads the ledger, looks at the remote side through a page that may be up to 60
seconds old, proposes a snapshot and appends it if the parent is still the head
(`Persist`). `ValidateLedger` is what every snapshot must satisfy. A request's answer
may be lost, and its effect come at any later time or never (`Act`, `Land`; the
services are external); others may change a key (`Meddle`).

Abstractions: observations, response codes and `recoveryStatus` are not part of a
snapshot, so proposals that differ only in them count as identical; reading the
ledger and looking at the remote side is one step, since a ledger that moved on is
refused at the append; the release is immutable once public; registry and tag
steps are in the module but not in the checked plan, where the controller's own
request behaves like theirs. What the model shows about overlapping jobs: two
controllers that propose the same snapshot both succeed (an append that finds its
own identity at the head returns it, lines 682 and 893), so both may send; and
`begin_external` and `preflight_all` read the ledger again after `resume_pending`
without looking at `finalState` (1134, 1263), so a freeze by another job can be passed
over. Only the workflows' concurrency groups (`.github/workflows/release.yml:50`,
`promote-release.yml:16`) exclude both, which is why `RequestsOnRecord` and half of
`FreezeHolds` suppose commands kept apart, and the other properties do not.

### 3.11 `InitialAdoption`

The first publication of a host: `adopt_initial_release` checks that the release it is
given is the one that runs (`Verified`), walks its operation through the journal and then
publishes CURRENT, the contract record and, last, the locator (`ImportCurrent`,
`InitializeFromManifest`, `PublishInstanceLocator`, `Close`); `Handle` is its error
handler. `reconcile` for an adoption reads the record before it takes the lock
(`ReconcileStart`, `ReconcileLock`), looks again (`Recheck`), and goes through the same
four steps, each of which passes over what is already there. A step is one durable write,
which may fail with or without its effect; a command line and the agent may be killed
between any two. The agent recovers incomplete operations and, once up, updates and rolls
back the adopted host, so that a reconciliation may find one that has moved on; staff
toggle plugins at any time.

`NeedsLocator` says what a host runtime is built from: TRUE is `production_runtime`, which
reads the published locator, FALSE a runtime put together beside it, as the tests do. With
TRUE a failed adoption that did not come to its locator can be reconciled by nobody, which
the run `adoption_v` shows; so what reconcile does is checked with FALSE, and the theorems
hold for both.

Abstractions: an update or rollback by the agent is one step without failure (`Switch`; its
own steps are `UpdateExecutor`); the host's managed configuration and the request file of
the installer are compared in the code and left out here; a command is given any release,
and everything else about it is right.

## 4. What the runs check

| Run | Instance | Checks |
|---|---|---|
| `executor_crash` | fair; 2 operations, 4 releases, 1 plugin API, 2 crashes, no fault, container jobs outlive their client | `CurrentIsRunning`, `RollbackKeepsContracts`, `WorkerSettles` |
| `executor_fault` | fair; 2 operations, 4 releases, no plugin API, 1 fault, 1 crash, jobs end with their client | `ReconcileIsSound`, `UncertainContractIsPending`, `SettledOrBlocked`, `NoIncompatibleWriter`, `BarrierHolds`, `WorkerSettlesPastSwitch`, `ImplementsHostMutation` |
| `agent` | fair; 2 operations, 1 plan, 2 worlds, 1 fault, 2 crashes | `PlanRunsOnce`, `OpenIsOwned`, `LockReturns`, `ServesAgain`, `ImplementsHostMutation` |
| `background` | fair; 3 callers (1 direct), 2 ids | `ClosedMeansQuiet`, `LeaseReleasedOnce`, `CompletionFollowsCleanup`, `CloseReturns` |
| `backup` | fair; 2 command lines, 2 revisions, 1 new release, 1 upload, 2 faults | `ResultIsTrue`, `HalfDoneIsOnRecord`, `BundleIsOfOneMoment`, `BackupReportIsTrue`, `MisalignedIsFrozen`, `PlanFitsHost`, `LockComesBack` |
| `media` | 1 legacy object, 1 entry, 2 workers, 2 backends of 1 place, quota 1; either 2 uploads and 1 fault, or 1 upload, 2 faults and 1 inventory run | `ReferencedBytesExist`, `OpenGateKnowsHolders`, `SomeoneProceeds`, `BytesAccounted`, `WithinLimit`, `BytesLeaveUnused`, `GrowsWithinQuota` |
| `publication` | 2 controllers; attestation, draft, asset, publish; either overlapping jobs with 1 attempt, or jobs kept apart with 2 attempts and 1 change by others | `PublishedInOrder`, `RequestsOnRecord`, `FreezeHolds`, `CompleteIsReadBack` |
| `adoption` | 2 command lines, 2 operations, 3 releases, 1 plugin API, 1 fault, 2 kills; a runtime needs no locator | `WholeOrOnRecord`, `ClosedIsWhole` |

Invariants and action properties use the same runs as the liveness properties:
fairness does not change what is reachable. Symmetry is used only where no liveness
is checked. The largest runs are `publication` (about 1.5 million distinct states),
`media` (1.1 million) and `executor_crash` and `backup` (about 0.7 million each);
each takes one to two minutes with two workers.

The instance of `MCUpdateExecutor` has four releases: 1 and 2 know database
contract v1 only, 3 migrates to v2 and still accepts v1, 4 adds a migration within
v2; 2 introduces the second configuration contract. So there are safe updates,
additive migrations, migrations that the old writer does not accept, updates that
change only the configuration, legal and illegal downgrades, and a schema that is
half-way between two contracts. The initial CURRENT is 1 or 3.

Deadlock is not checked for the executor, the manager, the configuration and the
publication, which really stop: their operations, callers, revisions and attempts are
used up. The agent always has a host command left and the media store a request, so
there it is checked, and so it is for the adoption, where plugins can always be toggled;
`SomeoneProceeds` says more than the absence of deadlock, as it leaves idle workers out.
It is stated with `MayProceed`, the rows a connection waits for at each of its stages.

Bounds: the sets of the table, `MaxFaults`, `MaxCrashes`, `MaxRevision`, `MaxRelease`,
`MaxUploads`, `MaxBackfills`, `Bounds`, and one `IdLeft` guard (a request needs an unused
operation id; `IdLeft` and `MaxKills` of the adoption are the same for its commands). One
fault and one crash reach every handler and every handler's failure that a single cause
reaches; where a handler of a handler matters (configuration, backup, media with the
inventory) there are two. `SettledOrBlocked` of the executor is a claim about one fault:
with two failed writes in a row the last handler cannot record anything any more. Two
revisions let a plan become stale under another one; two backends of one place make an
upload fall back and a backend fill up; one upload after the first copy of a backup is
what could tear a bundle. Two kills, two command lines and two operations let an adoption
be cut off, the host be adopted by the next one, updated and rolled back, and only then
the first be recovered and reconciled. `ATTEMPT_LIMIT` is 10 in the code; two attempts
show a retry, its late answer and the limit. Overlap and retries with changes by others
are not combined in one behaviour, nor are two uploads with an inventory or a second fault
(`MCBound`, a state constraint of `media`): together they exceed what a run can hold.

`WorkerSettles` needs a journal that can be written: when the write in the last
handler fails, an operation of the pre-switch phase stays open until a restart.
Hence it is checked without faults, and `WorkerSettlesPastSwitch` with them.
`OpenIsOwned` speaks of behaviours in which no fault has happened yet for the same
reason.

### Fairness

`UpdateExecutor!Fairness` lets the worker, reconcile, recovery and restart take
steps that stay enabled: threads run, every command has a timeout, systemd
restarts the agent. Nothing makes a command succeed. `AgentFairSpec` is the same
for the RPC thread, the worker and a host command that runs; `ServesAgain`
supposes that the host command line eventually stays away, because recovery polls
a non-blocking lock and nothing orders the pollers. `BackgroundOperations!FairSpec`
is weak fairness of each thread and of the awakened close; nobody must call it.
`ConfigFairness` and `BackupFairness` let a command that has the lock, and an agent
that updates, go on: every call they make has a timeout. `MediaSpec`,
`PublicationSpec` and `AdoptionSpec` state no fairness; nothing makes a client, a cleanup command or a
workflow job come back.

### Violations found

| Run | Code | Says |
|---|---|---|
| `locator_v` | a promotion that raises after its effect is answered by restoring the old application, not CURRENT (`updater/executor.py:509-524`) | `updater/binding.py:18` |
| `orphan_v` | a timed-out migration container commits after reconcile restarted the old writer (`updater/deployment.py:1167`) | `docs/update-agent-v1.md:76` |
| `context_v` | the planning context is compared before the lock is taken (`updater/agent.py:616`) | `updater/agent.py:619` |
| `adoption_v` | `reconcile` is built from the locator that the failed adoption had not published (`updater/runtime.py:335`) | `docs/update-agent-v1.md:150` |

## 5. What is proved

Every theorem holds for every set of operations, releases, migrations, contracts,
plans, callers, command lines and revisions and for every bound on faults and
crashes, under the assumptions named in `ReleaseCompatibility`, `OperationStore`, `UpdateExecutor`,
`UpdateAgent`, `BackgroundOperations`, `ConfigurationChange`, `BackupBarrier`,
`MediaLifecycle`, `ReleasePublication` and `InitialAdoption`: manifests are well formed, the special
values (`None`, `Stopped`, `Partial`, `Nobody`) are none of the others, a release has
one draft and one publication, its last step. All invariants below were first
checked by TLC on the instances of section 4.

### The executor

`UpdateExecutor_proofs`: `TypeOKHolds`. `TypeOK` is not inductive alone: a step that
works on `operations[active]` needs `active` to be an operation whenever the label
is one of a worker or of reconcile, and `base` and the record's `target` to be
releases there; `TypeInv` adds that. The step is proved in groups that follow
`Next`, one lemma per group (`SharedStepType`, `ApplyStepType`, ...).

Its second half is about the journal. Nearly everything that matters
compares what the process does with what its journal says, and the code never
reads the status back before a step; so the invariant has to say it. `JournalInv`
gives each label the status its record has (`Fits`), limits apply's steps to
applies, and says from which status on an apply has its receipt (`RecordInv`). It
is needed because after a crash only the record is left. With it:

- `ReceiptIsKept` (`BlockedApplyHasReceipt`): the pre-switch statuses that come
  before the receipt are ones that recovery and the handlers never block. Like the next
  two it is proved for any number of faults and crashes.
- `NothingToUndo` (`PreSwitchChangesNothing`) and `RollbackIsApplicationOnly`
  (`RollbackKeepsContracts`): the lemmas `WorkerTouches` and `ReconcileTouches` list
  what each step may touch; `Fits` gives the status or kind it has then.
- `BarrierIsKept` (`BarrierHolds`): `BarrierInv` says that past the check in
  `Begin` no operation is blocked; only the holder of the lock writes records, and
  when it blocks its own it leaves those labels.
- `ExecutorImplementsHostMutation`: under `~ JobsOutliveClient` each step is one of
  six kinds with respect to the refinement mapping - it leaves phases and world
  alone, rewrites the holder's record or world, frees the lock, recovers, admits an
  operation, or takes the lock for reconcile - and each kind is a step of
  `HostMutation` or a stutter. The assumption is necessary: a container that outlives
  its client changes the world without holding the lock.

`UpdateExecutorWorld_proofs` proves `CurrentRuns` (`CurrentIsRunning` while no durable
write has failed, `Unfailed`), with crashes, failed commands and lingering containers in
any number. `RunInv` follows who answers for the containers. Between holders CURRENT runs
and the locator names it, or an operation past its pre-switch phase is on record
(`IdleInv`). Until a worker promotes, slots and locator are what it read; past the health
check its target runs; a restore that came to its end runs `base` (`WorkerInv`). reconcile
has rebuilt CURRENT by the time it records it (`RebuildInv`). The invariant needs
`Unfailed` where a handler decides from what raised: a promotion that raised after it took
effect is answered by restoring `base`, which is no longer CURRENT - the finding of
`locator_v`, where the same property is violated with one failed write.

The same module goes on to contracts and schema. Its theorems suppose that container jobs
end with their client (`~ JobsOutliveClient`; `orphan_v` shows why) and that migrations are
additive (`ContractsExtend`; without it the verdict that reconcile reads off the migration
names says nothing about the contract). They bound failed durable writes, never crashes,
failed commands, releases or operations. Four invariants build on each other:

- `OwnInv` (`OwnCorrect`): at most one operation is past its pre-switch phase or blocked.
  It is the one that holds the lock, and it is settled or blocked when the lock is freed.
  With a second failed write (`OneFailed` excludes it) the last handler may fail to record
  anything, and the claim is false.
- `DataInv`: the recorded contracts are fact, or the one that answers has the transition
  pending. `Pending` is what a half-done transition still guarantees: the recorded
  contract is one of its two ends, and the schema lies between both. `Floor` says that the
  schema covers what every release in a slot needs, which is what makes a later rollback or
  reconcile find its migrations. It gives `UncertaintyIsPending`
  (`UncertainContractIsPending`).
- `AcceptInv`: CURRENT accepts the recorded contracts, or somebody answers. `Allows` follows
  what a worker knows of CURRENT and of the release it began with, label by label: a
  migration may end in a contract the old release rejects, and then only the target may be
  started. It gives `SettledUnlessBlocked` (`SettledOrBlocked`).
- `RebuiltInv`: what reconcile has seen by the time it reaches a label. It holds whatever
  failed before, since reconcile looks again; that the contracts it recorded are fact needs
  `DataInv`, hence `MaxFaults <= 1` in `ReconcileSound` (`ReconcileIsSound`).

`WriterInv` carries `WriterTolerates`: while no write has failed, `NoIncompatibleWriter`. Only
six kinds of step start or stop the API or move the schema (`WritersMove`). The writer
barrier asks the manifest of CURRENT whether the old API may go on
(`updater/executor.py:417`), so the invariant needs that CURRENT is what runs when the
barrier is read, and that is `RunInv`. One failed write suffices to break it: after
the promotion of `locator_v` CURRENT names the target while the old release runs, and the
next migration asks the wrong manifest. With the two contracts of `executor_fault` no
migration is left that would do harm, so there the property holds with one failed write;
with a third contract that CURRENT accepts and the running release does not, TLC finds the
violation.

### The agent

`UpdateAgent_proofs`: `AgentTypeCorrect`, `AgentImplementsHostMutation`,
`PlanIsCarriedOutOnce` and `OpenOperationsAreOwned`. `LockInv` says at which stages the
RPC thread has the lock, `RequestInv` what a request has established when it reaches a
stage: past the second reading of the barrier none is up, which is why creating an
operation is a step of `HostMutation` although the barrier is not read again. `PlanInv`
says that the plan of an operation is consumed, that no two operations share one, and that
a request about to create an operation has consumed a plan nobody used. `OwnedInv`
(`OpenIsOwned`) names who carries an open operation: the request until its worker has the
lock, the worker until it has settled it, then recovery, which serves only when none is
open. It needs the budget of faults untouched, since a failed write in `NotStarted` or in
a worker's last handler leaves an operation open that nobody runs until the next restart.

### The worker manager

`BackgroundOperations_proofs`: `CloseIsFinal`, `LeaseIsReleasedOnce`,
`ManagerTypeCorrect` and `CompletionIsLast`, from an inductive invariant that counts
a registered worker from registration to retirement: an id is in `active` exactly
while one caller that registered it has not unregistered or retired, a caller
inside `start` is admitted or direct, and once close has returned no caller is
admitted. `CompletionInv` adds that a completed id has a retired worker.

### The configuration transaction

The first half of `BackupBarrier_proofs`: `ConfigTypeCorrect`, `ResultsAreTrue` (`ResultIsTrue`),
`MisalignedStaysFrozen` (`MisalignedIsFrozen`), `PlansFit` (`PlanFitsHost`) and
`RecordSaysHalfDone` (`HalfDoneIsOnRecord`). Two invariants carry them, and TLC agreed
to both before they were proved.

`IInv` says where the host is at each step. `LockInv`: a command past its admission is
the holder of the lock, so nobody else moves the host meanwhile. `RevisionInv`: a plan
goes to a revision of its own, above the one it comes from; without it "the config is
still the old one" (`NothingDone`) would not mean that nothing was written. `PlanInv`
ties what the command remembers to its plan. `Reached` lists, stage by stage, which of
config, env, application and locator already follow the plan on the way forward, and
which follow the old revision again on the way back; the results are its last line.

`RecordInv` does the same for the journal: which state a transaction's record has at
each stage (`Recorded`), and that a host nobody works on is uniform, without its
application, behind the barrier, or has an open record (`Excused`). The point is that a
command may fail without a trace - its marks are best effort - only when its host is
exactly the one it began with, and that one was excused by an older record which no
later command can touch, because a revision is never planned twice. `OwnRecord` is the
frame lemma; `DoRecord`, `HandlerRecord`, `EndRecord`, `AdmissionRecord` and `AgentRecord`
are the groups of `ConfigNext`.

### The backup

The second half of `BackupBarrier_proofs` reuses both invariants: a backup shares host and lock with the
configuration commands, so `IInv` and `RecordInv` are proved again over `BackupNext`,
with the old step lemmas for the old steps. That gives `ResultsStayTrue`,
`FrozenForBackups`, `PlansFitBesideBackups` and `RecordSaysHalfDoneBesideBackups` for the
composition. For the last one `GuestRecordInv` is needed: a host that a backup holds was
excused when it was taken, and is given back as one that still is, because the backup
restarts exactly the application it stopped.

`BackupInv` carries `BundlesAreOfOneMoment` (`BundleIsOfOneMoment`) and
`BackupReportsAreTrue` (`BackupReportIsTrue`). A backup past its admission is the holder
of the lock (`InFlight`), so the application moves only by its own hand: `WritersInv`
says it is down from the barrier to the restart, and afterwards what it was. Then nobody
uploads, and `MediaInv` keeps what the inventory saw true until the bundle is verified.
`BundleInv` follows bundle and key from step to step and through the error handlers;
a report is its last line. Neither of the two properties is inductive without it: a copy
of the files says nothing about the earlier copy of the rows unless nothing happened
between them.

### The media store

`MediaLifecycle_proofs` rests on one invariant, `MediaInv`, in five parts. The three
properties `NamedBytesExist` (`ReferencedBytesExist`), `GateKnowsHolders`
(`OpenGateKnowsHolders`) and `NoByteUnaccounted` (`BytesAccounted`) are conjuncts of it, and
need each other and the rest:

- `ReceiptInv`: a place belongs to one live receipt and a row exists only once its
  receipt is final; without it the bytes at a place could be another upload's.
- `HoldingInv` and `SeenInv`: a reference row names what its field names, and a field set
  while an inventory runs, after the entry was visited, got its row from the request. This
  is why opening the gate at the end is safe.
- `WorkerInv`, first half (`Fits`): what a connection has established at each stage - the
  status of its receipt, whether the bytes lie there, and, in an open business transaction,
  that everything it wants is active, stored and locked.
- `WorkerInv`, second half (`Apart`): there is one business transaction at a time, and no
  two connections work on one upload in stages that would undo each other.

`BytesLeaveOnlyUnused` (`BytesLeaveUnused`) follows from the same invariant, because each
of the two cleanups looks again under the lock it deletes under. `LimitKept`
(`WithinLimit`) counts: the uploads that occupy a place on a backend never exceed the limit
(`UsedInv`; only `Reserve` adds one, after comparing), and the stored places inject into
them, by `BytesAccounted` and `ReceiptInv`. Its hypothesis, that the uploads of the earlier
release fit, is the part the code cannot enforce. `OwnerKeepsQuota` (`GrowsWithinQuota`)
needs `QuotaInv`: what an admitted request will add fits beside the present usage, and
stays so because the owner row is kept until the commit.

`NobodyWaitsInACircle` (`SomeoneProceeds`) needs one invariant more, `RowsInv`: media rows
are locked by a business transaction, and only once it has been admitted. With it the
rows are ordered. A connection that holds a receipt row, or that has deleted bytes, waits
for nothing; one that works on a receipt waits for at most that row, whatever media rows
it holds; and a connection that waits for media rows - to be admitted, to claim or to
erase - has none itself. So the first kind goes on if there is one, then the second, and
when only the third kind is left no media row is locked. The owner row is taken before
all of them, by a request that holds nothing.

### The adoption

`InitialAdoption_proofs`: `AdoptionTypeCorrect`, `PublishedIsWholeOrOnRecord`
(`WholeOrOnRecord`) and `SettledAdoptionIsWhole` (`ClosedIsWhole`). Neither property is
inductive, because a command never looks twice: what it publishes is true only because its
lock has kept what its checks have found. `LockInv` says that a command past its admission
is the holder; `HostInv` lists, step by step, what it has found or written by then - the
running release and its contracts, the empty slots, then CURRENT, then the contract record.
`RecordInv` says the same of its operation: the target it carries out is the one on record,
from `adopting` on the manifest is bound, and a reconciliation works on an operation that
was blocked.

A reconciliation reads its record before it has the lock. Another may settle that operation
in between, so `RecordInv` can only promise a status in `Blocked`, reconciled included, and
then a CURRENT that this command publishes again would have no operation to answer for it.
`SettledInv` closes the gap: an adoption is settled only over a locator, and no step
removes one. In every other case the command's own operation still carries the bound
manifest (`Answering`).

### The publication

`ReleasePublication_proofs`: `PublicationTypes`, `RequestsAreOnRecord`
(`RequestsOnRecord`), `FreezesHold` (`FreezeHolds`), `ReleasesArePublishedInOrder`
(`PublishedInOrder`) and `CompletionsAreReadBack` (`CompleteIsReadBack`), for any number of
jobs, steps and assets.

`CoreInv` is about the calls and the ledger. `OrderInv` says how the calls of a command
follow each other (a request right after its begin and before its readback, `complete`
only after a survey). `LedgerInv` says what a job holds that read the present head: its
survey rests on it, its proposal keeps a freeze and, for `complete`, finds every step
committed (`Follows`). A job that read an older head needs no clause: its append is
refused. `ApartInv` is for the time jobs are kept apart: the only one that runs has the
present head, a step is in flight wherever it is about to send, and after a freeze it is
at the start of its command.

`HonestInv` is about the remote side: every commitment, on the ledger, in a proposal of
any job, overlapping ones included, and in a half done survey, is `Sound` -
true of the remote, and for the publication true of draft and assets together (`Whole`); a
page that shows the release public is the present one (`ReadingOK`); and a job about to
publish has everything `Fitted`. Old proposals and pages must be included, since a late
job may still append on a head that another job restored.

`BatchInv` is about a command that finalizes and since whose start nobody changed a key
(`Sure`); `HonestInv` does not serve here, because a key may have been changed earlier and
be committed on the ledger all the same. What the command's own survey saw is true; and
from the end of that survey to the append the draft is clean, and everything outside the
release that the ledger commits (`Recorded`) or that a job with the present head may yet
record (`Coming`) lies there (`Ready`). `Coming` is needed because another job may take
the head with the same snapshot and then go on: until then only what this job has not
recorded itself is claimed.

The proof attempt corrected the model in two places. `CompleteIsReadBack` named the
append by the change of the ledger alone; with three commands the change could be another
command's, and it now names the command that goes on. Some arms of the CASE expressions
overlapped, which TLC resolves in order and the language does not; they are disjoint now.

`TypeOK` of the executor, `AgentTypeOK`, `ConfigTypeOK`, `MediaTypeOK`, `PublicationTypeOK`,
`AdoptionTypeOK`, `BlockedApplyHasReceipt` and `PreSwitchChangesNothing` are proved and
therefore in no run.

### Only model-checked

Liveness (fairness and ENABLED are beyond the prover), and `NoIncompatibleWriter` with a
failed write, which depends on the instance as said above.

## 6. What is not modelled, and why

Bytes, formats, cryptography, HTTP, file modes and symlink checks; the text of
public errors; Docker beyond what its commands do to services, schema and
settings. Of the modelled components: `show` and the read-only halves of `validate`
and `verify`; fresh-install and restore records in the operation journal; the
reentrant lock count; release history; the administration of media backends, R2 and
usage that is not known; of the release code the check of "latest", the one-off
source-bound recovery (`release/recovery.py`), `MAX_LEDGER_REVISIONS`, candidate
assembly, the mirror and metadata freshness.

Components without a module are listed with the reason in `PROJECT.json`. Most of
the repository by lines - virtual-machine harnesses, platform installers, archive
formats, trust verification, the web client - is I/O, parsing or presentation
without state that several actors share. The installer's and the restore's journals and the
backend's leases are within reach and next in the plan.
