--------------------------- MODULE UpdateExecutor ---------------------------
(* The host Update Agent: apply_update and rollback_previous run by one      *)
(* background worker, the recovery of interrupted operations when the agent  *)
(* starts, and reconcile run by the host command line.  Every process takes  *)
(* the same update lock first; a step below is one durable write or one      *)
(* container command, so a crash or a failure can fall between any two.      *)
EXTENDS OperationStore

CONSTANTS
  Operation,         \* operation ids
  Adopted,           \* the releases an instance may have been adopted with
  Stopped,           \* a service without a running container
  Partial,           \* an application configuration left between two contracts
  MaxFaults,         \* bound: failed durable writes in a behaviour
  MaxCrashes,        \* bound: killed processes in a behaviour
  JobsOutliveClient  \* whether a migration container survives its docker client

ASSUME ExecutorAssumption ==
  /\ Adopted \subseteq Release /\ None \notin Release /\ Stopped \notin Release
  /\ None \notin Operation
  /\ Partial \notin ConfigurationContract
  /\ MaxFaults \in Nat /\ MaxCrashes \in Nat /\ JobsOutliveClient \in BOOLEAN

VARIABLES
  operations,   \* the journal: Operation -> Record
  slots,        \* CURRENT, PREVIOUS and the immutable history, one envelope
  runtime,      \* runtime.json: the live contracts
  locator,      \* the release identity in the canonical instance locator
  applied,      \* PostgreSQL: the applied migrations
  configured,   \* the configuration contract the last bootstrap established
  enabled,      \* Plugin SDK generations of the enabled plugins
  app,          \* the releases the api and web containers run
  job,          \* migrations a container without a client may still apply
  agent,        \* the agent process: "up", "starting" or "down"
  pc,           \* the next step of the holder of the update lock
  active,       \* the operation that holder works on
  base,         \* its local variable current: CURRENT when it began
  budget        \* remaining faults and crashes

durable == <<slots, runtime, locator>>
host    == <<applied, configured, enabled, app, job>>
process == <<agent, active, base>>
vars    == <<operations, durable, host, process, pc, budget>>

-----------------------------------------------------------------------------
(* Vocabulary.                                                               *)

Service == {"api", "web"}

ApplyLabel ==
  {"bind", "backup", "dump", "mark_database", "migrating", "quiesce", "migrate",
   "record_database", "resolve_database", "mark_configuration", "bootstrapping",
   "bootstrap", "record_configuration", "record_target_plugins",
   "resolve_configuration", "replan"}

SwitchLabel ==
  {"begin", "preflight", "check_host", "fetching", "fetch", "verifying", "verify",
   "inspect", "plan", "pulling", "pull", "switching", "switch", "verifying_health",
   "verify_health", "record_previous_plugins", "promote", "publish",
   "publish_error", "finish"}

HandlerLabel ==
  {"incompatible", "error", "rolling_back", "restore", "verify_restored",
   "record_restored", "restored", "restore_error", "worker_error", "release"}

WorkerLabel == ApplyLabel \cup SwitchLabel \cup HandlerLabel

ReconcileLabel ==
  {"reconcile", "resolve_uncertain_database", "clear_database",
   "resolve_uncertain_configuration", "record_uncertain_configuration",
   "clear_configuration", "reconcile_plan", "reconcile_switch", "reconcile_health",
   "reconcile_runtime", "reconcile_locator", "reconciled"}

Label == {"unlocked", "recovering"} \cup WorkerLabel \cup ReconcileLabel

op     == operations[active]
target == op.target

\* Mutant: an operation that reconcile can settle raises no barrier.
MutantRecoveryBlocked ==
  \E o \in Operation : /\ operations[o].status = "manual_recovery_required"
                       /\ ~ operations[o].bound

RecoveryBlocked ==
  \E o \in Operation : operations[o].status = "manual_recovery_required"

Budget == [faults : 0..MaxFaults, crashes : 0..MaxCrashes]

TypeOK ==
  /\ operations \in [Operation -> Record]
  /\ slots \in [current : Release, previous : Release \cup {None},
                history : SUBSET Release]
  /\ runtime \in RuntimeContracts
  /\ locator \in Release
  /\ applied \in SUBSET Migration
  /\ configured \in ConfigurationContract \cup {Partial}
  /\ enabled \in SUBSET PluginApi
  /\ app \in [Service -> Release \cup {Stopped}]
  /\ job \in SUBSET Migration
  /\ agent \in {"up", "starting", "down"}
  /\ pc \in Label
  /\ active \in Operation \cup {None}
  /\ base \in Release
  /\ budget \in Budget

Init ==
  /\ locator \in Adopted
  /\ operations = [o \in Operation |-> [NewRecord("apply_update", locator)
                                        EXCEPT !.status = "absent"]]
  /\ slots = [current |-> locator, previous |-> None, history |-> {locator}]
  /\ runtime = [database |-> Manifest[locator].database,
                configuration |-> Manifest[locator].configuration, plugins |-> {}]
  /\ applied = Manifest[locator].migrations
  /\ configured = Manifest[locator].configuration
  /\ enabled = {}
  /\ app = [s \in Service |-> locator]
  /\ job = {}
  /\ agent = "up"
  /\ pc = "unlocked"
  /\ active = None
  /\ base = locator
  /\ budget = [faults |-> MaxFaults, crashes |-> MaxCrashes]

-----------------------------------------------------------------------------
(* Durable writes.  _atomic_text raises before os.replace, leaving the file, *)
(* or after it, when chmod or the directory fsync fails: the write happened. *)

Fault ==
  /\ budget.faults > 0
  /\ budget' = [budget EXCEPT !.faults = @ - 1]

\* Rewrite the record of the active operation.
WriteRecord(record, next, failed) ==
  LET written == [operations EXCEPT ![active] = record]
  IN  \/ operations' = written /\ pc' = next /\ UNCHANGED budget
      \/ operations' \in {operations, written} /\ pc' = failed /\ Fault

\* OperationStore.transition raises when the automaton has no such edge.
Enter(status, next, failed) ==
  \/ CanEnter(op, status) /\ WriteRecord([op EXCEPT !.status = status], next, failed)
  \/ ~ CanEnter(op, status) /\ pc' = failed /\ UNCHANGED <<operations, budget>>

WriteRuntime(contracts, next, failed) ==
  \/ runtime' = contracts /\ pc' = next /\ UNCHANGED budget
  \/ runtime' \in {runtime, contracts} /\ pc' = failed /\ Fault

WriteLocator(release, next, failed) ==
  \/ locator' = release /\ pc' = next /\ UNCHANGED budget
  \/ locator' \in {locator, release} /\ pc' = failed /\ Fault

WriteSlots(envelope, next, failed) ==
  \/ slots' = envelope /\ pc' = next /\ UNCHANGED budget
  \/ slots' \in {slots, envelope} /\ pc' = failed /\ Fault


-----------------------------------------------------------------------------
(* Container commands.  They may fail at will, with any part of their effect. *)

\* A step that only reads, and leaves for one of the next labels.
Observe(label, next) ==
  /\ pc = label
  /\ pc' \in next
  /\ UNCHANGED <<operations, durable, host, process, budget>>

Running(release) == app = [s \in Service |-> release]

\* compose up --force-recreate --wait api web: when it succeeds each service was
\* healthy once, and may be down by the time it is observed.
Recreate(release, next, failed) ==
  \/ app' \in [Service -> {release, Stopped}] /\ pc' = next
  \/ /\ app' \in [Service -> {release, Stopped} \cup {app[s] : s \in Service}]
     /\ \A s \in Service : app'[s] \in {app[s], release, Stopped}
     /\ pc' = failed

\* The bootstrap job is idempotent: run again it completes a partial one.
RunBootstrap(release, next, failed) ==
  \/ configured' = Manifest[release].configuration /\ pc' = next
  \/ configured' \in {configured, Partial, Manifest[release].configuration} /\ pc' = failed

\* The staff of a running application enables or disables plugins at any time.
EnablePlugins ==
  /\ app["api"] # Stopped
  /\ enabled' \in SUBSET Manifest[app["api"]].supportedApis \ {enabled}
  /\ UNCHANGED <<operations, durable, applied, configured, app, job, process, pc, budget>>

\* A container whose docker client was killed goes on applying migrations.
JobApplies ==
  \E m \in job :
    /\ applied' = applied \cup {m}
    /\ job' = job \ {m}
    /\ UNCHANGED <<operations, durable, configured, enabled, app, process, pc, budget>>

-----------------------------------------------------------------------------
(* Admission: the agent creates the operation under the update lock and      *)
(* hands the lock to the worker.                                             *)

Admit(o, kind, release) ==
  /\ agent = "up" /\ pc = "unlocked"
  /\ operations[o].status = "absent"
  /\ ~ RecoveryBlocked
  /\ LET written == [operations EXCEPT ![o] = NewRecord(kind, release)]
     IN  \/ /\ operations' = written
            /\ active' = o /\ pc' = "begin"
            /\ UNCHANGED budget
         \/ /\ operations' = [written EXCEPT ![o].status = "failed_pre_switch"]
            /\ UNCHANGED <<active, pc, budget>>     \* the worker did not start
         \/ /\ operations' \in {operations, written}
            /\ Fault
            /\ UNCHANGED <<active, pc>>
  /\ UNCHANGED <<durable, host, agent, base>>

StartApply == \E o \in Operation, r \in Release : Admit(o, "apply_update", r)

StartRollback ==
  /\ slots.previous # None
  /\ PlanAllowed(runtime, slots.previous)
  /\ \E o \in Operation : Admit(o, "rollback_previous", slots.previous)

\* Before the try block of apply and rollback: refresh the binding, check the
\* barrier, read CURRENT.
Begin ==
  /\ pc = "begin"
  /\ pc' \in IF RecoveryBlocked THEN {"worker_error"} ELSE {"preflight", "worker_error"}
  /\ base' = slots.current
  /\ UNCHANGED <<operations, durable, host, agent, active, budget>>

-----------------------------------------------------------------------------
(* The steps apply and rollback share, up to the image pull.                 *)

Applying == op.kind = "apply_update"

\* transition(operation_id, status): the label of the step is the status.
EnterStatus(status, next) ==
  /\ pc = status
  /\ Enter(status, next, "error")
  /\ UNCHANGED <<durable, host, process>>

EnterPreflight == EnterStatus("preflight", "check_host")

CheckHost ==
  Observe("check_host",
    {"error"} \cup IF \A s \in Service : app[s] # Stopped THEN {"fetching"} ELSE {})

EnterFetching  == EnterStatus("fetching", "fetch")

Fetch          == Observe("fetch", {"verifying", "error", "incompatible"})

EnterVerifying == EnterStatus("verifying", "verify")

\* The refetched manifest must equal the planned one, on the same datastores.
VerifyRelease ==
  Observe("verify", {"incompatible", IF Applying THEN "bind" ELSE "inspect"})

BindRecoveryTarget ==
  /\ pc = "bind"
  /\ WriteRecord([op EXCEPT !.bound = TRUE], "inspect", "error")
  /\ UNCHANGED <<durable, host, process>>

\* Ask an image which Plugin SDK generations are enabled and record the answer.
RecordPlugins(label, next, failed) ==
  /\ pc = label
  /\ \/ WriteRuntime([runtime EXCEPT !.plugins = enabled], next, failed)
     \/ pc' = failed /\ UNCHANGED <<runtime, budget>>
  /\ UNCHANGED <<operations, slots, locator, host, process>>

InspectPlugins == RecordPlugins("inspect", "plan", "error")

\* plan_switch again, now behind the lock; without a migration a recent
\* verified backup must already exist.
Plan ==
  Observe("plan",
    IF ~ PlanAllowed(runtime, target) THEN {"incompatible"}
    ELSE IF Applying /\ MigrationRequired(target) THEN {"backup"}
    ELSE {"pulling", "error"})

EnterBackup    == EnterStatus("backup", "dump")

BackupDatabase == Observe("dump", {"pulling", "error"})

EnterPulling   == EnterStatus("pulling", "pull")

\* Mutant: a rollback runs the bootstrap of its target too.
MutantPull ==
  Observe("pull",
    {"error", "incompatible",
     IF MigrationRequired(target) THEN "mark_database" ELSE "mark_configuration"})

Pull ==
  Observe("pull",
    {"error", "incompatible",
     IF ~ Applying THEN "switching"
     ELSE IF MigrationRequired(target) THEN "mark_database" ELSE "mark_configuration"})

-----------------------------------------------------------------------------
(* Apply: migration and bootstrap.  Each contract change is recorded as      *)
(* pending before its command runs and resolved after the contract is live.  *)

\* Mutant: the migration starts without a pending transition.
MutantMarkDatabasePending ==
  /\ pc = "mark_database" /\ pc' = "migrating"
  /\ UNCHANGED <<operations, durable, host, process, budget>>

MarkDatabasePending ==
  /\ pc = "mark_database"
  /\ WriteRecord([op EXCEPT !.database = [before |-> runtime.database,
                                          after  |-> Manifest[target].database]],
                 "migrating", "error")
  /\ UNCHANGED <<durable, host, process>>

EnterMigrating == EnterStatus("migrating", "quiesce")

\* Mutant: the old writer goes on during the migration.
MutantQuiesceWriters ==
  /\ pc = "quiesce" /\ pc' = "migrate"
  /\ UNCHANGED <<operations, durable, host, process, budget>>

\* Stop the API of CURRENT when it would not accept the target contract.
QuiesceWriters ==
  /\ pc = "quiesce"
  /\ LET stopped == [app EXCEPT !["api"] = Stopped]
     IN  IF Manifest[target].database \in Manifest[base].databaseAccepts
           THEN pc' = "migrate" /\ UNCHANGED app
           ELSE \/ app' = stopped /\ pc' = "migrate"
                \/ app' \in {app, stopped} /\ pc' = "error"
  /\ UNCHANGED <<operations, durable, applied, configured, enabled, job, process, budget>>

Migrate ==
  /\ pc = "migrate"
  /\ LET missing == Manifest[target].migrations \ applied
     IN  \/ /\ applied' = applied \cup missing
            /\ pc' = "record_database"
            /\ UNCHANGED job
         \/ \E done \in SUBSET missing :
              /\ applied' = applied \cup done
              /\ job' \in {job} \cup IF JobsOutliveClient THEN {missing \ done} ELSE {}
              /\ pc' = "error"
  /\ UNCHANGED <<operations, durable, configured, enabled, app, process, budget>>

RecordDatabaseContract ==
  /\ pc = "record_database"
  /\ WriteRuntime([runtime EXCEPT !.database = Manifest[target].database],
                  "resolve_database", "error")
  /\ UNCHANGED <<operations, slots, locator, host, process>>

ResolveDatabase ==
  /\ pc = "resolve_database"
  /\ WriteRecord([op EXCEPT !.database = None], "mark_configuration", "error")
  /\ UNCHANGED <<durable, host, process>>

\* Mutant: the bootstrap runs before its status is entered.
MutantMarkConfigurationPending ==
  /\ pc = "mark_configuration"
  /\ WriteRecord([op EXCEPT !.configuration =
                    [before |-> runtime.configuration,
                     after  |-> Manifest[target].configuration]],
                 "bootstrap", "error")
  /\ UNCHANGED <<durable, host, process>>

MarkConfigurationPending ==
  /\ pc = "mark_configuration"
  /\ WriteRecord([op EXCEPT !.configuration =
                    [before |-> runtime.configuration,
                     after  |-> Manifest[target].configuration]],
                 "bootstrapping", "error")
  /\ UNCHANGED <<durable, host, process>>

EnterBootstrapping == EnterStatus("bootstrapping", "bootstrap")

Bootstrap ==
  /\ pc = "bootstrap"
  /\ RunBootstrap(target, "record_configuration", "error")
  /\ UNCHANGED <<operations, durable, applied, enabled, app, job, process, budget>>

RecordConfigurationContract ==
  /\ pc = "record_configuration"
  /\ WriteRuntime([runtime EXCEPT !.configuration = Manifest[target].configuration],
                  "record_target_plugins", "error")
  /\ UNCHANGED <<operations, slots, locator, host, process>>

RecordTargetPlugins ==
  RecordPlugins("record_target_plugins", "resolve_configuration", "error")

ResolveConfiguration ==
  /\ pc = "resolve_configuration"
  /\ WriteRecord([op EXCEPT !.configuration = None], "replan", "error")
  /\ UNCHANGED <<durable, host, process>>

Replan ==
  Observe("replan",
    IF PlanAllowed(runtime, target) THEN {"switching"} ELSE {"incompatible"})

-----------------------------------------------------------------------------
(* The switch, its health gate and the publication of the new CURRENT.       *)

EnterSwitching == EnterStatus("switching", "switch")

Switch ==
  /\ pc = "switch"
  /\ Recreate(target, "verifying_health", "error")
  /\ UNCHANGED <<operations, durable, applied, configured, enabled, job, process, budget>>

EnterVerifyingHealth == EnterStatus("verifying_health", "verify_health")

VerifyHealth ==
  Observe("verify_health",
    {"error"} \cup
    IF ~ Running(target) THEN {}
    ELSE {IF Applying THEN "promote" ELSE "record_previous_plugins"})

RecordPreviousPlugins == RecordPlugins("record_previous_plugins", "promote", "error")

\* ReleaseSlots.promote and ReleaseSlots.restore_previous.
Promote ==
  /\ pc = "promote"
  /\ LET next == IF Applying THEN target ELSE slots.previous
     IN  IF next \in {slots.current, None}
           THEN pc' = "error" /\ UNCHANGED <<slots, budget>>
           ELSE WriteSlots([current |-> next, previous |-> slots.current,
                            history |-> slots.history \cup {next}],
                           "publish", "error")
  /\ UNCHANGED <<operations, runtime, locator, host, process>>

PublishLocator ==
  /\ pc = "publish"
  /\ WriteLocator(target, "finish", "publish_error")
  /\ UNCHANGED <<operations, slots, runtime, host, process>>

PublishFailed ==
  /\ pc = "publish_error"
  /\ Enter("manual_recovery_required", "release", "error")
  /\ UNCHANGED <<durable, host, process>>

Finish ==
  /\ pc = "finish"
  /\ Enter(IF Applying THEN "succeeded" ELSE "rolled_back", "release", "error")
  /\ UNCHANGED <<durable, host, process>>

-----------------------------------------------------------------------------
(* The exception handlers of apply and rollback.                             *)

\* except CompatibilityError
Incompatible ==
  /\ pc = "incompatible"
  /\ Enter(IF Applying /\ op.status \notin PreSwitchRecovery
             THEN "manual_recovery_required" ELSE "failed_pre_switch",
           "release", "worker_error")
  /\ UNCHANGED <<durable, host, process>>

\* except Exception.  apply restores the previous application only if that
\* application accepts the live contracts.
ApplyFailed ==
  /\ pc = "error" /\ Applying
  /\ \/ /\ op.status \in {"migrating", "bootstrapping"}
        /\ Enter("manual_recovery_required", "release", "worker_error")
     \/ /\ op.status \in PreSwitchRecovery
        /\ Enter("failed_pre_switch", "release", "worker_error")
     \/ /\ op.status \notin PreSwitchRecovery \cup {"migrating", "bootstrapping"}
        /\ IF PlanAllowed(runtime, base)
             THEN pc' = "rolling_back" /\ UNCHANGED <<operations, budget>>
             ELSE Enter("manual_recovery_required", "release", "worker_error")
  /\ UNCHANGED <<durable, host, process>>

RollbackFailed ==
  /\ pc = "error" /\ ~ Applying
  /\ IF op.status \in {"switching", "verifying_health"}
       THEN pc' = "rolling_back" /\ UNCHANGED <<operations, budget>>
       ELSE Enter("failed_pre_switch", "release", "worker_error")
  /\ UNCHANGED <<durable, host, process>>

EnterRollingBack ==
  /\ pc = "rolling_back"
  /\ Enter("rolling_back", "restore", "restore_error")
  /\ UNCHANGED <<durable, host, process>>

Restore ==
  /\ pc = "restore"
  /\ Recreate(base, "verify_restored", "restore_error")
  /\ UNCHANGED <<operations, durable, applied, configured, enabled, job, process, budget>>

\* Mutant: the restored application is not observed.
MutantVerifyRestored == Observe("verify_restored", {"restore_error", "record_restored"})

VerifyRestored ==
  Observe("verify_restored",
    {"restore_error"} \cup IF Running(base) THEN {"record_restored"} ELSE {})

RecordRestoredPlugins == RecordPlugins("record_restored", "restored", "restore_error")

FinishRestore ==
  /\ pc = "restored"
  /\ Enter("rolled_back", "release", "restore_error")
  /\ UNCHANGED <<durable, host, process>>

\* Mutant: a failed restore is only logged.
MutantRestoreFailed ==
  /\ pc = "restore_error" /\ pc' = "release"
  /\ UNCHANGED <<operations, durable, host, process, budget>>

RestoreFailed ==
  /\ pc = "restore_error"
  /\ Enter("manual_recovery_required", "release", "worker_error")
  /\ UNCHANGED <<durable, host, process>>

\* Mutant: the worker swallows what escaped the executor.
MutantWorkerFailed ==
  /\ pc = "worker_error" /\ pc' = "release"
  /\ UNCHANGED <<operations, durable, host, process, budget>>

\* UpdateAgent._run_apply and _run_rollback journal what escaped the executor.
WorkerFailed ==
  /\ pc = "worker_error"
  /\ IF op.status \in TerminalStates
       THEN pc' = "release" /\ UNCHANGED <<operations, budget>>
       ELSE Enter(RecoveredStatus(op), "release", "release")
  /\ UNCHANGED <<durable, host, process>>

\* The worker's cleanup, or the end of the host command's with block.
ReleaseLock ==
  /\ pc = "release"
  /\ pc' = "unlocked" /\ active' = None
  /\ UNCHANGED <<operations, durable, host, agent, base, budget>>

-----------------------------------------------------------------------------
(* reconcile, a process of its own.  Whatever raises releases the lock and   *)
(* leaves the operation in manual_recovery_required.                         *)

StartReconcile ==
  /\ pc = "unlocked"
  /\ \E o \in Operation :
       /\ operations[o].status = "manual_recovery_required"
       /\ active' = o
  /\ base' = slots.current
  /\ pc' = "reconcile"
  /\ UNCHANGED <<operations, durable, host, agent, budget>>

Resolve == IF op.configuration # None THEN "resolve_uncertain_configuration"
           ELSE "reconcile_plan"

\* Read the recovery receipt; refetch and pull its target if one is needed.
ReconcileReceipt ==
  Observe("reconcile",
    {"release"} \cup
    IF Applying /\ ~ op.bound THEN {}
    ELSE IF op.database # None THEN {"resolve_uncertain_database"} ELSE {Resolve})

\* Trust the migrations both images report, never the label.
ResolveUncertainDatabase ==
  /\ pc = "resolve_uncertain_database"
  /\ LET outcome  == DatabaseTransitionOutcome(base, target, applied)
         resolved == IF outcome = "target" THEN op.database.after ELSE op.database.before
     IN  IF outcome # "indeterminate"
              /\ runtime.database \in {op.database.before, op.database.after}
           THEN WriteRuntime([runtime EXCEPT !.database = resolved],
                             "clear_database", "release")
           ELSE pc' = "release" /\ UNCHANGED <<runtime, budget>>
  /\ UNCHANGED <<operations, slots, locator, host, process>>

ClearDatabase ==
  /\ pc = "clear_database"
  /\ WriteRecord([op EXCEPT !.database = None], Resolve, "release")
  /\ UNCHANGED <<durable, host, process>>

ResolveUncertainConfiguration ==
  /\ pc = "resolve_uncertain_configuration"
  /\ IF /\ runtime.configuration \in {op.configuration.before, op.configuration.after}
        /\ PlanAllowed(runtime, target)
       THEN RunBootstrap(target, "record_uncertain_configuration", "release")
       ELSE pc' = "release" /\ UNCHANGED configured
  /\ UNCHANGED <<operations, durable, applied, enabled, app, job, process, budget>>

RecordUncertainConfiguration ==
  /\ pc = "record_uncertain_configuration"
  /\ WriteRuntime([runtime EXCEPT !.configuration = op.configuration.after,
                                  !.plugins = enabled],
                  "clear_configuration", "release")
  /\ UNCHANGED <<operations, slots, locator, host, process>>

ClearConfiguration ==
  /\ pc = "clear_configuration"
  /\ IF PlanAllowed(runtime, target)
       THEN WriteRecord([op EXCEPT !.configuration = None], "reconcile_plan", "release")
       ELSE pc' = "release" /\ UNCHANGED <<operations, budget>>
  /\ UNCHANGED <<durable, host, process>>

\* Mutant: reconcile does not ask whether CURRENT accepts the live contracts.
MutantCurrentUnchecked == TRUE

CurrentAccepted == PlanAllowed([runtime EXCEPT !.plugins = enabled], base)

ReconcilePlan ==
  Observe("reconcile_plan",
    {"release"} \cup IF CurrentAccepted THEN {"reconcile_switch"} ELSE {})

ReconcileSwitch ==
  /\ pc = "reconcile_switch"
  /\ Recreate(base, "reconcile_health", "release")
  /\ UNCHANGED <<operations, durable, applied, configured, enabled, job, process, budget>>

ReconcileHealth ==
  Observe("reconcile_health",
    {"release"} \cup IF Running(base) THEN {"reconcile_runtime"} ELSE {})

ReconcileRuntime ==
  /\ pc = "reconcile_runtime"
  /\ IF CurrentAccepted
       THEN WriteRuntime([runtime EXCEPT !.plugins = enabled], "reconcile_locator", "release")
       ELSE pc' = "release" /\ UNCHANGED <<runtime, budget>>
  /\ UNCHANGED <<operations, slots, locator, host, process>>

\* Mutant: reconcile leaves the locator to the failed operation.
MutantReconcileLocator ==
  /\ pc = "reconcile_locator"
  /\ pc' = "reconciled"
  /\ UNCHANGED <<operations, durable, host, process, budget>>

ReconcileLocator ==
  /\ pc = "reconcile_locator"
  /\ WriteLocator(base, "reconciled", "release")
  /\ UNCHANGED <<operations, slots, runtime, host, process>>

Reconciled ==
  /\ pc = "reconciled"
  /\ Enter("reconciled", "release", "release")
  /\ UNCHANGED <<durable, host, process>>

-----------------------------------------------------------------------------
(* Crashes and the recovery at start.  The kernel drops the lock of a dead   *)
(* process; what it had written stays.                                       *)

Crash ==
  /\ budget.crashes > 0
  /\ budget' = [budget EXCEPT !.crashes = @ - 1]
  /\ UNCHANGED <<operations, durable, host, base>>

KillAgent ==
  /\ agent \in {"up", "starting"}
  /\ agent' = "down"
  /\ IF pc \in WorkerLabel \cup {"recovering"}
       THEN pc' = "unlocked" /\ active' = None
       ELSE UNCHANGED <<pc, active>>
  /\ Crash

KillReconcile ==
  /\ pc \in ReconcileLabel
  /\ pc' = "unlocked" /\ active' = None
  /\ UNCHANGED agent
  /\ Crash

\* systemd restarts the agent, which recovers before it serves.
Restart ==
  /\ agent = "down" /\ pc = "unlocked"
  /\ agent' = "starting" /\ pc' = "recovering"
  /\ UNCHANGED <<operations, durable, host, active, base, budget>>

RecoverOperation ==
  /\ pc = "recovering"
  /\ \E o \in Operation :
       /\ Incomplete(operations[o])
       /\ CanEnter(operations[o], RecoveredStatus(operations[o]))
       /\ LET written == [operations EXCEPT ![o].status = RecoveredStatus(operations[o])]
          IN  \/ /\ operations' = written
                /\ UNCHANGED <<agent, pc, budget>>
             \/ /\ operations' \in {operations, written}
                /\ agent' = "down" /\ pc' = "unlocked"
                /\ Fault
  /\ UNCHANGED <<durable, host, active, base>>

Serve ==
  /\ pc = "recovering"
  /\ \A o \in Operation : ~ Incomplete(operations[o])
  /\ agent' = "up" /\ pc' = "unlocked"
  /\ UNCHANGED <<operations, durable, host, active, base, budget>>

-----------------------------------------------------------------------------

SharedStep ==
  \/ Begin \/ EnterPreflight \/ CheckHost \/ EnterFetching \/ Fetch
  \/ EnterVerifying \/ VerifyRelease \/ InspectPlugins \/ Plan
  \/ EnterPulling \/ Pull \/ EnterSwitching \/ Switch \/ EnterVerifyingHealth
  \/ VerifyHealth \/ RecordPreviousPlugins \/ Promote \/ PublishLocator
  \/ PublishFailed \/ Finish

ApplyStep ==
  \/ BindRecoveryTarget \/ EnterBackup \/ BackupDatabase
  \/ MarkDatabasePending \/ EnterMigrating \/ QuiesceWriters \/ Migrate
  \/ RecordDatabaseContract \/ ResolveDatabase
  \/ MarkConfigurationPending \/ EnterBootstrapping \/ Bootstrap
  \/ RecordConfigurationContract \/ RecordTargetPlugins
  \/ ResolveConfiguration \/ Replan

HandlerStep ==
  \/ Incompatible \/ ApplyFailed \/ RollbackFailed \/ EnterRollingBack \/ Restore
  \/ VerifyRestored \/ RecordRestoredPlugins \/ FinishRestore \/ RestoreFailed
  \/ WorkerFailed \/ ReleaseLock

ReconcileStep ==
  \/ ReconcileReceipt \/ ResolveUncertainDatabase \/ ClearDatabase
  \/ ResolveUncertainConfiguration \/ RecordUncertainConfiguration
  \/ ClearConfiguration \/ ReconcilePlan \/ ReconcileSwitch \/ ReconcileHealth
  \/ ReconcileRuntime \/ ReconcileLocator \/ Reconciled

RecoveryStep == Restart \/ RecoverOperation \/ Serve

Environment ==
  \/ StartApply \/ StartRollback \/ StartReconcile
  \/ KillAgent \/ KillReconcile \/ EnablePlugins \/ JobApplies

Next == SharedStep \/ ApplyStep \/ HandlerStep \/ ReconcileStep \/ RecoveryStep
        \/ Environment

Spec == Init /\ [][Next]_vars

\* A started process runs on: every command has a timeout, systemd restarts the
\* agent.  Nobody has to start an operation, or reconcile one.
Fairness ==
  /\ WF_vars(SharedStep \/ ApplyStep \/ HandlerStep)
  /\ WF_vars(ReconcileStep)
  /\ WF_vars(RecoveryStep)

FairSpec == Spec /\ Fairness

-----------------------------------------------------------------------------
(* Safety.                                                                   *)

\* The recorded live contracts are physical fact, unless an operation that is
\* under way or blocked has recorded exactly this transition as pending: no
\* crash or failure leaves a contract that changed without evidence.
UncertainContractIsPending ==
  /\ ~ Describes(runtime.database, applied) =>
       \E o \in Operation :
         /\ operations[o].status \in {"migrating", "manual_recovery_required"}
         /\ operations[o].database # None
         /\ runtime.database \in {operations[o].database.before,
                                  operations[o].database.after}
  /\ configured # runtime.configuration =>
       \E o \in Operation :
         /\ operations[o].status \in {"bootstrapping", "manual_recovery_required"}
         /\ operations[o].configuration # None
         /\ runtime.configuration \in {operations[o].configuration.before,
                                       operations[o].configuration.after}

\* Whenever the agent serves and nobody holds the lock, either the barrier is up
\* or the contracts are fact, CURRENT accepts them, and no operation is left
\* beyond its pre-switch phase.
SettledOrBlocked ==
  (pc = "unlocked" /\ agent = "up") =>
    \/ RecoveryBlocked
    \/ /\ Describes(runtime.database, applied) /\ configured = runtime.configuration
       /\ runtime.database \in Manifest[slots.current].databaseAccepts
       /\ runtime.configuration \in Manifest[slots.current].configurationAccepts
       /\ \A o \in Operation :
            Incomplete(operations[o]) => operations[o].status \in PreSwitchRecovery

\* An API that does not understand a database schema never runs on it: the old
\* writer is stopped before the migration and stays stopped.
NoIncompatibleWriter ==
  app["api"] # Stopped => Tolerates(app["api"], applied)

\* An apply that is blocked kept the receipt that reconcile cannot do without.
BlockedApplyHasReceipt ==
  \A o \in Operation :
    /\ operations[o].status = "manual_recovery_required"
    /\ operations[o].kind = "apply_update"
    => operations[o].bound

\* The binding keeps locator, deployment and CURRENT release coherent: an idle
\* unblocked agent runs exactly CURRENT, and the locator names it.
CurrentIsRunning ==
  (pc = "unlocked" /\ agent = "up" /\ ~ RecoveryBlocked) =>
    Running(slots.current) /\ locator = slots.current

-----------------------------------------------------------------------------
(* Action properties.                                                        *)

\* While an operation needs manual recovery CURRENT does not change, and no
\* other operation comes into being.
BarrierHolds ==
  [][(\E b \in Operation : operations[b].status = "manual_recovery_required") =>
       /\ UNCHANGED slots
       /\ \A o \in Operation :
            operations[o].status = "absent" => operations'[o].status = "absent"]_vars

\* The barrier is lifted only over a coherent instance: the contracts are fact,
\* CURRENT runs and accepts them, and the locator names it.
ReconcileIsSound ==
  [][\A o \in Operation :
       /\ operations[o].status = "manual_recovery_required"
       /\ operations'[o].status = "reconciled"
       => /\ Describes(runtime.database, applied)
          /\ configured = runtime.configuration
          /\ Running(slots.current) /\ locator = slots.current
          /\ PlanAllowed(runtime, slots.current)]_vars

\* Until its journal entry leaves the pre-switch phase an operation changes
\* nothing a failed_pre_switch verdict would have to undo.
PreSwitchChangesNothing ==
  [][(/\ active # None /\ active' = active
      /\ op.status \in PreSwitchRecovery
      /\ job' = job)
     => UNCHANGED <<slots, locator, app, applied, configured,
                    runtime.database, runtime.configuration>>]_vars

\* Application rollback replaces only the applications: no step of it changes a
\* live contract, the schema or the configuration.
RollbackKeepsContracts ==
  [][(active # None /\ ~ Applying /\ job' = job) =>
       UNCHANGED <<applied, configured, runtime.database, runtime.configuration>>]_vars

-----------------------------------------------------------------------------
(* Liveness.                                                                 *)

\* As long as the journal can be written an operation a worker began reaches a
\* terminal state, the recovery at start finishing what a crash interrupted.
WorkerSettles ==
  \A o \in Operation :
    (active = o /\ Incomplete(operations[o])) ~> ~ Incomplete(operations[o])

\* When one write fails an operation may remain open, but then only in its
\* pre-switch phase: past it, it settles or raises the barrier.
WorkerSettlesPastSwitch ==
  \A o \in Operation :
    (active = o /\ Incomplete(operations[o])) ~>
      (~ Incomplete(operations[o]) \/ operations[o].status \in PreSwitchRecovery)

-----------------------------------------------------------------------------
(* The executor implements HostMutation.                                     *)

AbstractPhase(status) ==
  CASE status = "absent"                      -> "new"
    [] status \in PreSwitchRecovery           -> "prepared"
    [] status = "failed_pre_switch"           -> "aborted"
    [] status = "manual_recovery_required"    -> "blocked"
    [] status \in TerminalStates \ {"failed_pre_switch", "manual_recovery_required"}
                                              -> "finished"
    [] OTHER                                  -> "committed"

HostWorld ==
  [current : Release, previous : Release \cup {None}, locator : Release,
   database : DatabaseContract, configuration : ConfigurationContract,
   applied : SUBSET Migration, configured : ConfigurationContract \cup {Partial},
   app : [Service -> Release \cup {Stopped}]]

Abstract == INSTANCE HostMutation WITH
  World  <- HostWorld,
  phase  <- [o \in Operation |-> AbstractPhase(operations[o].status)],
  holder <- active,
  world  <- [current |-> slots.current, previous |-> slots.previous,
             locator |-> locator, database |-> runtime.database,
             configuration |-> runtime.configuration, applied |-> applied,
             configured |-> configured, app |-> app]

\* Every behaviour of the executor, with its crashes and failed writes, is one of
\* HostMutation: what an operation did and who may act next can be read off its
\* journal entry alone.
ImplementsHostMutation == Abstract!Spec
=============================================================================
