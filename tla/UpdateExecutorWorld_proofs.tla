----------------------- MODULE UpdateExecutorWorld_proofs -----------------------
(* What the releases, containers and contracts of an instance are worth once   *)
(* operations have failed, been killed and been recovered: proofs about         *)
(* UpdateExecutor for every set of releases, manifests and operations.          *)
EXTENDS UpdateExecutor_proofs
-----------------------------------------------------------------------------
(* An unblocked agent runs CURRENT, as long as no durable write has failed.   *)

Unfailed == budget.faults = MaxFaults

\* The statuses past the pre-switch phase of an operation that is not over.
Committed ==
  {"migrating", "bootstrapping", "switching", "verifying_health", "rolling_back", "adopting"}

Coherent == Running(slots.current) /\ locator = slots.current

Excused ==
  \E o \in Operation : operations[o].status \in Committed \cup {"manual_recovery_required"}

Working  == WorkerLabel \ {"release"}
Promoted == {"publish", "publish_error", "finish"}

\* Between holders the instance is coherent or somebody past his pre-switch phase
\* answers for it; while the agent serves only a blocked operation can.
IdleInv ==
  /\ pc \in {"unlocked", "recovering"} => Coherent \/ Excused
  /\ pc = "release" \/ (pc = "unlocked" /\ agent = "up") => Coherent \/ RecoveryBlocked

\* Until a worker promotes its target the slots and the locator are what it read
\* when it began; from there on everything is its target.
WorkerInv ==
  /\ pc \in Working => Coherent \/ op.status \in Committed
  /\ pc \in Working \ Promoted =>
       /\ locator = slots.current
       /\ pc # "begin" => base = slots.current
       /\ ~ Applying => target = slots.previous
  /\ pc \in {"record_previous_plugins", "promote", "publish", "finish"} => Running(target)
  /\ pc \in {"publish", "finish"} => slots.current = target
  /\ pc = "finish" => locator = target
  /\ pc # "publish_error"
  /\ pc \in {"record_restored", "restored"} => Running(base)

\* reconcile rebuilds CURRENT.
RebuildInv ==
  /\ pc \in ReconcileLabel => base = slots.current
  /\ pc \in {"reconcile_runtime", "reconcile_locator", "reconciled"} => Running(base)
  /\ pc = "reconciled" => locator = base

RunInv == IdleInv /\ WorkerInv /\ RebuildInv

\* What a step does when no write fails.
LEMMA Unfailing ==
  ASSUME Inv, budget'.faults = budget.faults
  PROVE  ~ Fault
BY DEF Fault, Inv, TypeInv, TypeOK, Budget

\* A transition is written, or the record forbids it: nothing else happens.
LEMMA EnterSure ==
  ASSUME Inv, ~ Fault, pc \in HeldLabel, NEW status \in Status, NEW next, NEW failed,
         Enter(status, next, failed), UNCHANGED active
  PROVE  \/ /\ CanEnter(op, status) /\ pc' = next
            /\ op'.status = status /\ op'.kind = op.kind /\ op'.target = op.target
            /\ operations'[active].status = status
         \/ ~ CanEnter(op, status) /\ pc' = failed /\ UNCHANGED <<operations, op>>
<1>1. active \in Operation /\ op \in Record
  BY ActiveFits
<1>2. CASE CanEnter(op, status) /\ WriteRecord([op EXCEPT !.status = status], next, failed)
  BY <1>1, <1>2 DEF WriteRecord, op, Inv, TypeInv, TypeOK, Record
<1>3. CASE ~ CanEnter(op, status) /\ pc' = failed /\ UNCHANGED <<operations, budget>>
  BY <1>3 DEF op
<1> QED BY <1>2, <1>3 DEF Enter

\* A worker step that leaves the world alone, before the promotion.
LEMMA MoveRun ==
  ASSUME Inv, RunInv, pc \in Working \ Promoted, pc' \in Working \ Promoted,
         UNCHANGED <<slots, locator, app>>, op'.kind = op.kind, op'.target = op.target,
         Coherent \/ op'.status \in Committed,
         IF pc = "begin" THEN base' = slots.current ELSE base' = base,
         pc' \in {"record_previous_plugins", "promote"} => Running(target),
         pc' \in {"record_restored", "restored"} => pc # "begin" /\ Running(base)
  PROVE  RunInv'
<1>1. /\ Coherent' = Coherent /\ target' = target /\ Applying' = Applying
      /\ Running(target)' = Running(target)
      /\ (pc # "begin" => Running(base)' = Running(base))
  BY DEF Coherent, Running, target, Applying
<1>2. WorkerInv
  BY DEF RunInv
<1>3. WorkerInv'
  BY <1>1, <1>2 DEF WorkerInv, Working, Promoted
<1>4. IdleInv' /\ RebuildInv'
  BY DEF IdleInv, RebuildInv, Working, Promoted, WorkerLabel,
         ApplyLabel, SwitchLabel, HandlerLabel, ReconcileLabel
<1> QED BY <1>3, <1>4 DEF RunInv

\* The containers are replaced by an operation that is past its pre-switch phase.
LEMMA ReplaceRun ==
  ASSUME Inv, RunInv, pc \in Working \ Promoted, pc # "begin", pc' \in Working \ Promoted,
         UNCHANGED <<slots, locator, op, base>>, op.status \in Committed,
         pc' \notin {"record_previous_plugins", "promote", "record_restored", "restored"}
  PROVE  RunInv'
<1>1. target' = target /\ Applying' = Applying
  BY DEF target, Applying
<1>2. WorkerInv
  BY DEF RunInv
<1>3. WorkerInv'
  BY <1>1, <1>2 DEF WorkerInv, Working, Promoted
<1>4. IdleInv' /\ RebuildInv'
  BY DEF IdleInv, RebuildInv, Working, Promoted, WorkerLabel,
         ApplyLabel, SwitchLabel, HandlerLabel, ReconcileLabel
<1> QED BY <1>3, <1>4 DEF RunInv

\* A worker ends: blocked, or coherent.
LEMMA EndRun ==
  ASSUME Inv, RunInv, pc' = "release", Coherent' \/ RecoveryBlocked'
  PROVE  RunInv'
BY DEF RunInv, IdleInv, WorkerInv, RebuildInv, Working, Promoted, WorkerLabel,
       ApplyLabel, SwitchLabel, HandlerLabel, ReconcileLabel

\* A transition on the way of a worker: before the pre-switch phase is left
\* nothing has changed.
LEMMA EnterRun ==
  ASSUME Inv, RunInv, ~ Fault, pc \in Working \ Promoted, pc # "begin",
         NEW status \in Status, NEW next \in Working \ Promoted,
         NEW failed \in Working \ Promoted,
         Enter(status, next, failed), UNCHANGED <<durable, host, process>>,
         status \in PreSwitchRecovery \cup Committed,
         {next, failed} \cap
           {"record_previous_plugins", "promote", "record_restored", "restored"} = {}
  PROVE  RunInv'
<1>1. pc \in HeldLabel /\ UNCHANGED <<slots, locator, app, base, active>>
  BY DEF durable, host, process, Working, HeldLabel, Label, WorkerLabel,
         ApplyLabel, SwitchLabel, HandlerLabel
<1>2. Coherent \/ op.status \in Committed
  BY DEF RunInv, WorkerInv
<1>3. CanEnter(op, status) /\ status \in PreSwitchRecovery => op.status \notin Committed
  BY DEF CanEnter, Status, Transitions, PreSwitchRecovery, Committed
<1> QED
  BY <1>1, <1>2, <1>3, EnterSure, MoveRun

\* Leaving for a verdict: only what has changed nothing may fail.
LEMMA VerdictRun ==
  ASSUME Inv, RunInv, ~ Fault, pc \in Working \ Promoted, pc # "begin",
         NEW status \in {"failed_pre_switch", "manual_recovery_required"},
         NEW failed \in {"worker_error", "release"},
         Enter(status, "release", failed), UNCHANGED <<durable, host, process>>,
         failed = "release" => CanEnter(op, status) \/ op.status \notin Committed
  PROVE  RunInv'
<1>1. pc \in HeldLabel /\ UNCHANGED <<slots, locator, app, base, active>>
  BY DEF durable, host, process, Working, HeldLabel, Label, WorkerLabel,
         ApplyLabel, SwitchLabel, HandlerLabel
<1>2. Coherent \/ op.status \in Committed
  BY DEF RunInv, WorkerInv
<1>3. status \in Status
  BY DEF Status, Transitions
<1>4. CASE ~ CanEnter(op, status)
  <2>1. pc' = failed /\ UNCHANGED <<operations, op>>
    BY <1>1, <1>3, <1>4, EnterSure
  <2>2. CASE failed = "worker_error"
    BY <1>1, <1>2, <2>1, <2>2, MoveRun DEF Working, Promoted, WorkerLabel, HandlerLabel
  <2>3. CASE failed = "release"
    <3>1. Coherent'
      BY <1>1, <1>2, <1>4, <2>3 DEF Coherent, Running
    <3> QED BY <2>1, <2>3, <3>1, EndRun
  <2> QED BY <2>2, <2>3
<1>5. CASE CanEnter(op, status)
  <2>1. pc' = "release" /\ operations'[active].status = status /\ active \in Operation
    BY <1>1, <1>3, <1>5, EnterSure, ActiveFits
  <2>2. status = "failed_pre_switch" => op.status \notin Committed
    BY <1>5 DEF CanEnter, Status, Transitions, Committed
  <2>3. Coherent' = Coherent
    BY <1>1 DEF Coherent, Running
  <2> QED BY <1>2, <2>1, <2>2, <2>3, EndRun DEF RecoveryBlocked
<1> QED BY <1>4, <1>5

\* The steps of a worker that apply and rollback share.
LEMMA SharedRun ==
  ASSUME Inv, RunInv, ~ Fault, SharedStep
  PROVE  RunInv'
<1> USE DEF Working, Promoted, WorkerLabel, ApplyLabel, SwitchLabel, HandlerLabel, Status,
            Transitions, PreSwitchRecovery, Committed
<1>0. Fits(pc, op) /\ WorkerInv
  BY ActiveFits DEF RunInv
<1>1. CASE Begin
  <2>1. op' = op
    BY <1>1 DEF Begin, op
  <2> QED BY <1>0, <1>1, <2>1, MoveRun DEF Begin, durable, host, WorkerInv
<1>2. CASE EnterPreflight \/ EnterFetching \/ EnterVerifying \/ EnterPulling
  BY <1>2, EnterRun
     DEF EnterPreflight, EnterFetching, EnterVerifying, EnterPulling, EnterStatus
<1>3. CASE EnterSwitching \/ EnterVerifyingHealth
  BY <1>3, EnterRun DEF EnterSwitching, EnterVerifyingHealth, EnterStatus
<1>4. CASE CheckHost \/ Fetch \/ VerifyRelease \/ Plan \/ Pull \/ VerifyHealth
  <2>1. op' = op /\ UNCHANGED <<slots, locator, app, base>>
    BY <1>4 DEF CheckHost, Fetch, VerifyRelease, Plan, Pull, VerifyHealth, Observe, op,
                durable, host, process
  <2>2. pc \in Working \ Promoted /\ pc # "begin" /\ pc' \in Working \ Promoted
        /\ pc' \notin {"record_restored", "restored"}
        /\ (pc' \in {"record_previous_plugins", "promote"} => Running(target))
    BY <1>4 DEF CheckHost, Fetch, VerifyRelease, Plan, Pull, VerifyHealth, Observe
  <2> QED BY <1>0, <2>1, <2>2, MoveRun DEF WorkerInv
<1>5. CASE InspectPlugins \/ RecordPreviousPlugins
  <2>1. op' = op /\ UNCHANGED <<slots, locator, app, base>>
    BY <1>5 DEF InspectPlugins, RecordPreviousPlugins, RecordPlugins, op, host, process
  <2>2. pc \in Working \ Promoted /\ pc # "begin" /\ pc' \in Working \ Promoted
        /\ pc' \notin {"record_restored", "restored"}
        /\ (pc' \in {"record_previous_plugins", "promote"} => Running(target))
    BY <1>0, <1>5 DEF InspectPlugins, RecordPreviousPlugins, RecordPlugins, WriteRuntime,
                      WorkerInv
  <2> QED BY <1>0, <2>1, <2>2, MoveRun DEF WorkerInv
<1>6. CASE Switch
  <2>1. op' = op /\ UNCHANGED <<slots, locator, base>>
    BY <1>6 DEF Switch, op, durable, process
  <2> QED BY <1>0, <1>6, <2>1, ReplaceRun DEF Switch, Recreate, Fits
<1>7. CASE Promote
  <2>1. op' = op /\ UNCHANGED <<locator, app, base>> /\ target' = target
        /\ Running(target)' = Running(target) /\ op.status = "verifying_health"
    BY <1>0, <1>7 DEF Promote, op, host, process, target, Running, Fits, HealthLabel
  <2>2. CASE pc' = "error" /\ UNCHANGED <<slots, budget>>
    BY <1>0, <1>7, <2>1, <2>2, MoveRun DEF Promote, WorkerInv
  <2>3. CASE pc' = "publish" /\ slots'.current = target
    <3>1. WorkerInv'
      BY <1>0, <1>7, <2>1, <2>3 DEF Promote, WorkerInv
    <3> QED BY <2>3, <3>1 DEF RunInv, IdleInv, RebuildInv, ReconcileLabel
  <2> QED BY <1>0, <1>7, <2>2, <2>3 DEF Promote, WriteSlots, WorkerInv
<1>8. CASE PublishLocator
  <2>1. op' = op /\ UNCHANGED <<slots, app, base>> /\ target' = target
        /\ Running(target)' = Running(target) /\ op.status = "verifying_health"
        /\ pc' = "finish" /\ locator' = target
    BY <1>0, <1>8 DEF PublishLocator, WriteLocator, op, host, process, target, Running, Fits,
                      HealthLabel
  <2>2. WorkerInv'
    BY <1>0, <1>8, <2>1 DEF PublishLocator, WorkerInv
  <2> QED BY <2>1, <2>2 DEF RunInv, IdleInv, RebuildInv, ReconcileLabel
<1>9. CASE PublishFailed
  BY <1>0, <1>9 DEF PublishFailed, WorkerInv
<1>10. CASE Finish
  <2>1. Running(target) /\ slots.current = target /\ locator = target /\ pc \in HeldLabel
        /\ op.status = "verifying_health"
    BY <1>0, <1>10 DEF Finish, WorkerInv, Fits, HealthLabel, HeldLabel, Label
  <2>2. Coherent'
    BY <1>10, <2>1 DEF Finish, Coherent, Running, durable, host
  <2>3. pc' = "release"
    BY <1>10, <2>1 DEF Finish, Enter, WriteRecord, CanEnter
  <2> QED BY <2>2, <2>3, EndRun
<1> QED BY <1>1, <1>2, <1>3, <1>4, <1>5, <1>6, <1>7, <1>8, <1>9, <1>10 DEF SharedStep

\* The steps of apply alone.
LEMMA ApplyRun ==
  ASSUME Inv, RunInv, ~ Fault, ApplyStep
  PROVE  RunInv'
<1> USE DEF Working, Promoted, WorkerLabel, ApplyLabel, SwitchLabel, HandlerLabel, Status,
            Transitions, PreSwitchRecovery, Committed
<1>0. Fits(pc, op) /\ WorkerInv
  BY ActiveFits DEF RunInv
<1>1. CASE EnterBackup \/ EnterMigrating \/ EnterBootstrapping
  BY <1>1, EnterRun DEF EnterBackup, EnterMigrating, EnterBootstrapping, EnterStatus
<1>2. CASE BindRecoveryTarget \/ MarkDatabasePending \/ ResolveDatabase
           \/ MarkConfigurationPending \/ ResolveConfiguration
  <2>1. pc \in HeldLabel /\ pc \in Working \ Promoted /\ pc # "begin"
        /\ pc' \in Working \ Promoted
        /\ pc' \notin {"record_previous_plugins", "promote", "record_restored", "restored"}
    BY <1>2 DEF BindRecoveryTarget, MarkDatabasePending, ResolveDatabase,
                MarkConfigurationPending, ResolveConfiguration, WriteRecord, HeldLabel, Label
  <2>2. active \in Operation /\ op \in Record
    BY <2>1, ActiveFits
  <2>3. op'.status = op.status /\ op'.kind = op.kind /\ op'.target = op.target
        /\ UNCHANGED <<slots, locator, app, base>>
    BY <1>2, <2>2
       DEF BindRecoveryTarget, MarkDatabasePending, ResolveDatabase,
           MarkConfigurationPending, ResolveConfiguration, WriteRecord, Record, op,
           durable, host, process, Inv, TypeInv, TypeOK
  <2> QED BY <1>0, <2>1, <2>3, MoveRun DEF WorkerInv
<1>3. CASE BackupDatabase \/ Migrate \/ RecordDatabaseContract \/ Bootstrap
           \/ RecordConfigurationContract \/ RecordTargetPlugins \/ Replan
  <2>1. op' = op /\ UNCHANGED <<slots, locator, app, base>>
    BY <1>3 DEF BackupDatabase, Migrate, RecordDatabaseContract, Bootstrap,
                RecordConfigurationContract, RecordTargetPlugins, Replan, Observe,
                RecordPlugins, op, durable, host, process
  <2>2. pc \in Working \ Promoted /\ pc # "begin" /\ pc' \in Working \ Promoted
        /\ pc' \notin {"record_previous_plugins", "promote", "record_restored", "restored"}
    BY <1>3 DEF BackupDatabase, Migrate, RecordDatabaseContract, Bootstrap,
                RecordConfigurationContract, RecordTargetPlugins, Replan, Observe,
                RecordPlugins, WriteRuntime, RunBootstrap
  <2> QED BY <1>0, <2>1, <2>2, MoveRun DEF WorkerInv
<1>4. CASE QuiesceWriters
  <2>1. op' = op /\ UNCHANGED <<slots, locator, base>>
    BY <1>4 DEF QuiesceWriters, op, durable, process
  <2> QED BY <1>0, <1>4, <2>1, ReplaceRun DEF QuiesceWriters, Fits, MigratingLabel
<1> QED BY <1>1, <1>2, <1>3, <1>4 DEF ApplyStep

\* The exception handlers and the end of a worker.
LEMMA HandlerRun ==
  ASSUME Inv, RunInv, ~ Fault, HandlerStep
  PROVE  RunInv'
<1> USE DEF Working, Promoted, WorkerLabel, ApplyLabel, SwitchLabel, HandlerLabel
<1>0. Fits(pc, op) /\ WorkerInv
  BY ActiveFits DEF RunInv
<1>1. CASE Incompatible \/ RestoreFailed
  BY <1>1, VerdictRun DEF Incompatible, RestoreFailed
<1>2. CASE ApplyFailed \/ RollbackFailed
  <2>1. CASE pc' = "rolling_back" /\ UNCHANGED operations
    <3>1. op' = op /\ UNCHANGED <<slots, locator, app, base>>
      BY <1>2, <2>1 DEF ApplyFailed, RollbackFailed, op, durable, host, process
    <3> QED BY <1>0, <1>2, <2>1, <3>1, MoveRun DEF ApplyFailed, RollbackFailed, WorkerInv
  <2>2. CASE ~ (pc' = "rolling_back" /\ UNCHANGED operations)
    BY <1>2, <2>2, VerdictRun DEF ApplyFailed, RollbackFailed
  <2> QED BY <2>1, <2>2
<1>3. CASE EnterRollingBack
  BY <1>3, EnterRun DEF EnterRollingBack, Status, Transitions, Committed
<1>4. CASE Restore
  <2>1. op' = op /\ UNCHANGED <<slots, locator, base>>
    BY <1>4 DEF Restore, op, durable, process
  <2> QED BY <1>0, <1>4, <2>1, ReplaceRun DEF Restore, Recreate, Fits, RestoreLabel, Committed
<1>5. CASE VerifyRestored \/ RecordRestoredPlugins
  <2>1. op' = op /\ UNCHANGED <<slots, locator, app, base>>
    BY <1>5 DEF VerifyRestored, RecordRestoredPlugins, RecordPlugins, Observe, op, durable,
                host, process
  <2>2. pc \in Working \ Promoted /\ pc # "begin" /\ pc' \in Working \ Promoted
        /\ pc' \notin {"record_previous_plugins", "promote"}
        /\ (pc' \in {"record_restored", "restored"} => Running(base))
    BY <1>0, <1>5 DEF VerifyRestored, RecordRestoredPlugins, RecordPlugins, WriteRuntime,
                      Observe, WorkerInv
  <2> QED BY <1>0, <2>1, <2>2, MoveRun DEF WorkerInv
<1>6. CASE FinishRestore
  <2>1. Running(base) /\ base = slots.current /\ locator = base /\ pc \in HeldLabel
        /\ op.status = "rolling_back"
    BY <1>0, <1>6 DEF FinishRestore, WorkerInv, Fits, RestoreLabel, HeldLabel, Label
  <2>2. Coherent'
    BY <1>6, <2>1 DEF FinishRestore, Coherent, Running, durable, host
  <2>3. pc' = "release"
    BY <1>6, <2>1 DEF FinishRestore, Enter, WriteRecord, CanEnter, Status, Transitions
  <2> QED BY <2>2, <2>3, EndRun
<1>7. CASE WorkerFailed
  <2>1. CASE op.status \in TerminalStates
    <3>1. Coherent
      BY <1>0, <1>7, <2>1 DEF WorkerFailed, WorkerInv, TerminalStates, Committed
    <3>2. Coherent' /\ pc' = "release"
      BY <1>7, <2>1, <3>1 DEF WorkerFailed, Coherent, Running, durable, host
    <3> QED BY <3>2, EndRun
  <2>2. CASE op.status \notin TerminalStates
    <3>1. op.status \in Committed => CanEnter(op, RecoveredStatus(op))
      BY DEF Committed, CanEnter, RecoveredStatus, PreSwitchRecovery, Status, Transitions
    <3>2. RecoveredStatus(op) \in {"failed_pre_switch", "manual_recovery_required"}
      BY DEF RecoveredStatus
    <3>3. Enter(RecoveredStatus(op), "release", "release")
          /\ UNCHANGED <<durable, host, process>> /\ pc \in Working \ Promoted /\ pc # "begin"
      BY <1>7, <2>2 DEF WorkerFailed
    <3> HIDE DEF Working, Promoted
    <3> QED BY <3>1, <3>2, <3>3, VerdictRun
  <2> QED BY <2>1, <2>2
<1>8. CASE ReleaseLock
  <2>1. Coherent' = Coherent /\ pc = "release" /\ pc' = "unlocked"
        /\ RecoveryBlocked' = RecoveryBlocked
    BY <1>8 DEF ReleaseLock, Coherent, Running, durable, host, RecoveryBlocked
  <2>2. RecoveryBlocked' => Excused'
    BY DEF RecoveryBlocked, Excused
  <2>3. Coherent \/ RecoveryBlocked
    BY <2>1 DEF RunInv, IdleInv
  <2> QED BY <2>1, <2>2, <2>3 DEF RunInv, IdleInv, WorkerInv, RebuildInv, ReconcileLabel
<1> QED BY <1>1, <1>2, <1>3, <1>4, <1>5, <1>6, <1>7, <1>8 DEF HandlerStep

\* A step of reconcile, whose operation stays blocked.
LEMMA RebuildRun ==
  ASSUME Inv, RunInv, pc \in ReconcileLabel, pc' \in ReconcileLabel \cup {"release"},
         UNCHANGED <<slots, base, active>>, operations'[active].status = op.status,
         pc' \in {"reconcile_runtime", "reconcile_locator", "reconciled"} => Running(base)',
         pc' = "reconciled" => locator' = base
  PROVE  RunInv'
<1>1. op.status = "manual_recovery_required" /\ active \in Operation
  BY ActiveFits DEF Fits, HeldLabel, Label, ReconcileLabel
<1>2. RecoveryBlocked'
  BY <1>1 DEF RecoveryBlocked
<1>3. base = slots.current
  BY DEF RunInv, RebuildInv
<1> QED
  BY <1>2, <1>3 DEF RunInv, IdleInv, WorkerInv, RebuildInv, Working, Promoted, WorkerLabel,
                    ApplyLabel, SwitchLabel, HandlerLabel, ReconcileLabel

\* The steps of reconcile.
LEMMA ReconcileRun ==
  ASSUME Inv, RunInv, ~ Fault, ReconcileStep
  PROVE  RunInv'
<1> USE DEF ReconcileLabel
<1>0. RebuildInv
  BY DEF RunInv
<1>1. CASE ReconcileReceipt \/ ResolveUncertainDatabase \/ ResolveUncertainConfiguration
           \/ RecordUncertainConfiguration \/ ReconcilePlan
  BY <1>1, RebuildRun
     DEF ReconcileReceipt, ResolveUncertainDatabase, ResolveUncertainConfiguration,
         RecordUncertainConfiguration, ReconcilePlan, Observe, WriteRuntime, RunBootstrap,
         Resolve, durable, process, op
<1>2. CASE ClearDatabase \/ ClearConfiguration
  <2>1. active \in Operation /\ op \in Record
    BY <1>2, ActiveFits DEF ClearDatabase, ClearConfiguration, HeldLabel, Label
  <2>2. operations'[active].status = op.status /\ UNCHANGED <<slots, base, active>>
    BY <1>2, <2>1
       DEF ClearDatabase, ClearConfiguration, WriteRecord, Record, op, durable, process,
           Inv, TypeInv, TypeOK
  <2>3. pc \in ReconcileLabel /\ pc' \in ReconcileLabel \cup {"release"}
        /\ pc' \notin {"reconcile_runtime", "reconcile_locator", "reconciled"}
    BY <1>2 DEF ClearDatabase, ClearConfiguration, WriteRecord, Resolve
  <2> QED BY <2>2, <2>3, RebuildRun
<1>3. CASE ReconcileSwitch
  BY <1>3, RebuildRun DEF ReconcileSwitch, Recreate, durable, process, op
<1>4. CASE ReconcileHealth
  <2>1. Running(base)' = Running(base)
    BY <1>4 DEF ReconcileHealth, Observe, Running, host, process
  <2> QED BY <1>4, <2>1, RebuildRun DEF ReconcileHealth, Observe, durable, process, op
<1>5. CASE ReconcileRuntime \/ ReconcileLocator
  <2>1. Running(base)' = Running(base) /\ Running(base)
    BY <1>0, <1>5 DEF ReconcileRuntime, ReconcileLocator, Running, host, process, RebuildInv
  <2> QED
    BY <1>5, <2>1, RebuildRun
       DEF ReconcileRuntime, ReconcileLocator, WriteRuntime, WriteLocator, process, op
<1>6. CASE Reconciled
  <2>1. Running(base) /\ base = slots.current /\ locator = base
    BY <1>0, <1>6 DEF Reconciled, RebuildInv
  <2>2. Coherent'
    BY <1>6, <2>1 DEF Reconciled, Coherent, Running, durable, host
  <2>3. pc' = "release"
    BY <1>6 DEF Reconciled, Enter, WriteRecord
  <2> QED BY <2>2, <2>3, EndRun
<1> QED BY <1>1, <1>2, <1>3, <1>4, <1>5, <1>6 DEF ReconcileStep

\* Nobody holds the lock, or the agent recovers.
LEMMA IdleRun ==
  ASSUME IdleInv', pc' \in {"unlocked", "recovering"}
  PROVE  RunInv'
BY DEF RunInv, WorkerInv, RebuildInv, Working, Promoted, WorkerLabel, ApplyLabel,
       SwitchLabel, HandlerLabel, ReconcileLabel

\* The restart: whoever was past his pre-switch phase is blocked before the agent
\* serves again.
LEMMA RecoveryRun ==
  ASSUME Inv, RunInv, ~ Fault, RecoveryStep
  PROVE  RunInv'
<1>0. Coherent' = Coherent
  BY DEF RecoveryStep, Restart, RecoverOperation, Serve, Coherent, Running, durable, host
<1>1. CASE Restart
  <2>1. Excused' = Excused
    BY <1>1 DEF Restart, Excused
  <2> QED BY <1>0, <1>1, <2>1, IdleRun DEF Restart, RunInv, IdleInv
<1>2. CASE RecoverOperation
  <2>1. PICK o \in Operation :
          /\ Incomplete(operations[o])
          /\ operations' = [operations EXCEPT ![o].status = RecoveredStatus(operations[o])]
          /\ pc = "recovering" /\ pc' = pc
    BY <1>2 DEF RecoverOperation
  <2>2. operations'[o].status = RecoveredStatus(operations[o])
        /\ \A x \in Operation \ {o} : operations'[x] = operations[x]
    BY <2>1 DEF Inv, TypeInv, TypeOK, Record
  <2>3. operations[o].status \in Committed =>
          operations'[o].status = "manual_recovery_required"
    BY <2>2 DEF RecoveredStatus, Committed, PreSwitchRecovery
  <2>4. operations[o].status # "manual_recovery_required"
    BY <2>1 DEF Incomplete, TerminalStates
  <2>5. Excused => Excused'
    BY <2>2, <2>3, <2>4 DEF Excused
  <2> QED BY <1>0, <2>1, <2>5, IdleRun DEF RunInv, IdleInv
<1>3. CASE Serve
  <2>1. \A o \in Operation : operations[o].status \notin Committed
    BY <1>3 DEF Serve, Incomplete, Committed, TerminalStates, Status, Transitions
  <2>2. Excused => RecoveryBlocked' /\ Excused'
    BY <1>3, <2>1 DEF Serve, Excused, RecoveryBlocked
  <2>3. Coherent \/ Excused
    BY <1>3 DEF Serve, RunInv, IdleInv
  <2>4. pc' = "unlocked"
    BY <1>3 DEF Serve
  <2> QED BY <1>0, <2>2, <2>3, <2>4, IdleRun DEF IdleInv
<1> QED BY <1>1, <1>2, <1>3 DEF RecoveryStep

\* A new operation begins over a coherent instance.
LEMMA AdmitRun ==
  ASSUME Inv, RunInv, ~ Fault, NEW o \in Operation, NEW kind \in Kind,
         NEW release \in Release, Admit(o, kind, release),
         kind = "rollback_previous" => release = slots.previous
  PROVE  RunInv'
<1>1. Coherent
  BY DEF Admit, RunInv, IdleInv
<1>2. Coherent' = Coherent /\ UNCHANGED <<slots, locator, app, base>>
  BY DEF Admit, Coherent, Running, durable, host
<1>3. CASE pc' = "begin" /\ active' = o
           /\ operations' = [operations EXCEPT ![o] = NewRecord(kind, release)]
  <2>1. op'.kind = kind /\ op'.target = release
    BY <1>3 DEF op, NewRecord, Inv, TypeInv, TypeOK
  <2>2. WorkerInv'
    BY <1>1, <1>2, <1>3, <2>1
       DEF WorkerInv, Promoted, Coherent, Applying, target, Kind
  <2> QED BY <1>3, <2>2 DEF RunInv, IdleInv, RebuildInv, ReconcileLabel
<1>4. CASE pc' = "unlocked"
  <2>1. IdleInv'
    BY <1>1, <1>2, <1>4 DEF IdleInv
  <2> QED BY <1>4, <2>1, IdleRun
<1> QED BY <1>3, <1>4 DEF Admit

\* Operations begin, processes die, the world moves.
LEMMA EnvironmentRun ==
  ASSUME Inv, RunInv, ~ Fault, Environment
  PROVE  RunInv'
<1>1. CASE StartApply
  BY <1>1, AdmitRun DEF StartApply, Kind
<1>2. CASE StartRollback
  <2>1. slots.previous \in Release
    BY <1>2 DEF StartRollback, Inv, TypeInv, TypeOK
  <2> QED BY <1>2, <2>1, AdmitRun DEF StartRollback, Kind
<1>3. CASE StartReconcile
  BY <1>3 DEF StartReconcile, RunInv, IdleInv, WorkerInv, RebuildInv, Working, Promoted,
              WorkerLabel, ApplyLabel, SwitchLabel, HandlerLabel, ReconcileLabel, durable
<1>4. CASE KillAgent \/ KillReconcile
  <2>1. /\ Coherent' = Coherent /\ Excused' = Excused /\ RecoveryBlocked' = RecoveryBlocked
        /\ UNCHANGED <<operations, slots, locator, app, base>>
    BY <1>4 DEF KillAgent, KillReconcile, Crash, Coherent, Running, Excused, RecoveryBlocked,
                durable, host
  <2>2. RecoveryBlocked => Excused
    BY DEF RecoveryBlocked, Excused
  <2>3. CASE KillAgent /\ UNCHANGED <<pc, active>>
    <3>1. op' = op /\ target' = target /\ Applying' = Applying
          /\ \A r : Running(r)' = Running(r)
      BY <2>1, <2>3 DEF op, target, Applying, Running
    <3>2. agent' = "down"
      BY <2>3 DEF KillAgent
    <3>3. IdleInv'
      BY <2>1, <2>3, <3>2 DEF RunInv, IdleInv
    <3> QED BY <2>1, <2>3, <3>1, <3>3 DEF RunInv, WorkerInv, RebuildInv
  <2>4. CASE KillAgent /\ pc \in WorkerLabel \cup {"recovering"} /\ pc' = "unlocked"
    <3>1. agent' = "down"
      BY <2>4 DEF KillAgent
    <3>2. pc \in Working => active \in Operation
      BY ActiveFits DEF Working, HeldLabel, Label, WorkerLabel, ApplyLabel, SwitchLabel,
                        HandlerLabel
    <3>3. pc \in Working => Coherent \/ Excused
      BY <3>2 DEF RunInv, WorkerInv, Excused, op
    <3>4. pc \notin Working => Coherent \/ Excused
      BY <2>2, <2>4 DEF RunInv, IdleInv, Working
    <3>5. IdleInv'
      BY <2>1, <2>4, <3>1, <3>3, <3>4 DEF IdleInv
    <3> QED BY <2>4, <3>5, IdleRun
  <2>5. CASE KillReconcile
    <3>1. RecoveryBlocked /\ pc' = "unlocked"
      BY <2>5, ActiveFits
         DEF KillReconcile, RecoveryBlocked, Fits, op, HeldLabel, Label, ReconcileLabel
    <3>2. IdleInv'
      BY <2>1, <2>2, <3>1 DEF IdleInv
    <3> QED BY <3>1, <3>2, IdleRun
  <2> QED BY <1>4, <2>3, <2>4, <2>5 DEF KillAgent
<1>5. CASE EnablePlugins \/ JobApplies
  <2>1. UNCHANGED <<operations, slots, locator, app, base, pc, active, agent>>
    BY <1>5 DEF EnablePlugins, JobApplies, durable, process
  <2> QED
    BY <2>1 DEF RunInv, IdleInv, WorkerInv, RebuildInv, op, target, Applying, Running,
                Coherent, Excused, RecoveryBlocked
<1> QED BY <1>1, <1>2, <1>3, <1>4, <1>5 DEF Environment

\* Only failed writes and deaths use up the budget.
LEMMA BudgetMoves == [Next]_vars => UNCHANGED budget \/ Fault \/ Crash
BY DEF vars, Next, SharedStep, ApplyStep, HandlerStep, ReconcileStep, RecoveryStep,
       Environment, Begin, EnterPreflight, CheckHost, EnterFetching, Fetch,
       EnterVerifying, VerifyRelease, InspectPlugins, Plan, EnterPulling, Pull,
       EnterSwitching, Switch, EnterVerifyingHealth, VerifyHealth, RecordPreviousPlugins,
       Promote, PublishLocator, PublishFailed, Finish, BindRecoveryTarget, EnterBackup,
       BackupDatabase, MarkDatabasePending, EnterMigrating, QuiesceWriters, Migrate,
       RecordDatabaseContract, ResolveDatabase, MarkConfigurationPending,
       EnterBootstrapping, Bootstrap, RecordConfigurationContract, RecordTargetPlugins,
       ResolveConfiguration, Replan, Incompatible, ApplyFailed, RollbackFailed,
       EnterRollingBack, Restore, VerifyRestored, RecordRestoredPlugins, FinishRestore,
       RestoreFailed, WorkerFailed, ReleaseLock, ReconcileReceipt,
       ResolveUncertainDatabase, ClearDatabase, ResolveUncertainConfiguration,
       RecordUncertainConfiguration, ClearConfiguration, ReconcilePlan, ReconcileSwitch,
       ReconcileHealth, ReconcileRuntime, ReconcileLocator, Reconciled, Restart,
       RecoverOperation, Serve, StartApply, StartRollback, Admit, StartReconcile,
       KillAgent, KillReconcile, EnablePlugins, JobApplies, EnterStatus, Observe,
       RecordPlugins, Enter, WriteRecord, WriteRuntime, WriteLocator, WriteSlots

\* A failed write is not undone: a step that ends with none had none.
LEMMA StillUnfailed ==
  ASSUME Inv, [Next]_vars, Unfailed'
  PROVE  Unfailed /\ ~ Fault
<1>1. budget \in Budget /\ MaxFaults \in Nat
  BY ExecutorAssumption DEF Inv, TypeInv, TypeOK
<1>2. ~ Fault
  BY <1>1 DEF Fault, Unfailed, Budget
<1>3. budget'.faults = budget.faults
  BY <1>1, <1>2, BudgetMoves DEF Crash, Budget
<1> QED BY <1>2, <1>3 DEF Unfailed

\* Every step keeps the invariant, as long as none before it failed to write.
LEMMA RunStep == Inv /\ (Unfailed => RunInv) /\ [Next]_vars => (Unfailed => RunInv)'
<1> SUFFICES ASSUME Inv, Unfailed => RunInv, [Next]_vars, Unfailed' PROVE RunInv'
  OBVIOUS
<1>1. RunInv /\ ~ Fault
  BY StillUnfailed
<1>2. CASE UNCHANGED vars
  BY <1>1, <1>2 DEF vars, durable, host, process, RunInv, IdleInv, WorkerInv, RebuildInv, op,
                    target, Applying, Running, Coherent, Excused, RecoveryBlocked
<1>3. CASE Next
  BY <1>1, <1>3, SharedRun, ApplyRun, HandlerRun, ReconcileRun, RecoveryRun, EnvironmentRun
     DEF Next
<1> QED BY <1>2, <1>3

\* As long as no durable write has failed, an idle agent that nothing blocks runs
\* exactly CURRENT and the locator names it, wherever processes were killed and
\* containers failed.
THEOREM CurrentRuns == Spec => [](Unfailed => CurrentIsRunning)
<1>1. Init => (Unfailed => RunInv)
  BY DEF Init, RunInv, IdleInv, WorkerInv, RebuildInv, Working, Promoted, WorkerLabel,
         ApplyLabel, SwitchLabel, HandlerLabel, ReconcileLabel, Coherent, Running
<1>2. RunInv => CurrentIsRunning
  BY DEF RunInv, IdleInv, Coherent, CurrentIsRunning
<1> QED BY <1>1, <1>2, RunStep, JournalCorrect, PTL DEF Spec

-----------------------------------------------------------------------------
(* Who answers for the host, when at most one durable write has failed.      *)

OneFailed == MaxFaults - budget.faults <= 1

\* The statuses of an operation that answers for a change of the host.
Answerable == Committed \cup {"manual_recovery_required"}

\* Labels before an apply enters "migrating", and a rollback "switching".
EarlyLabel ==
  {"begin", "preflight", "check_host", "fetching", "fetch", "verifying", "verify", "bind",
   "inspect", "plan", "backup", "dump", "pulling", "pull", "mark_database", "migrating"}

\* No operation is adopting here, and a rollback neither migrates nor bootstraps.
KindFits(record) ==
  /\ record.status # "adopting"
  /\ record.kind = "rollback_previous" => record.status \notin {"migrating", "bootstrapping"}

\* The status at the labels whose record Fits does not know.  A worker that lost
\* its handlers past the pre-switch phase lost a write.
Ends(label, record) ==
  /\ label \in EarlyLabel    => record.status \in PreSwitchRecovery
  /\ label = "incompatible" /\ record.kind = "rollback_previous"
                             => record.status \notin Committed
  /\ label \in ApplyLabel \cup SwitchLabel \cup {"error"} => record.status # "rolling_back"
  /\ label = "publish_error" => ~ Unfailed
  /\ label = "worker_error" /\ record.status \in Committed => ~ Unfailed

Settled == \A o \in Operation : operations[o].status \notin Committed

\* One operation at most answers, the holder of the lock once it has begun, and it
\* is done or blocked when the lock is free again.
OwnInv ==
  /\ \A o, p \in Operation :
       operations[o].status \in Answerable /\ operations[p].status \in Answerable => o = p
  /\ pc \in Working => \A o \in Operation \ {active} : operations[o].status \notin Answerable
  /\ pc = "release" \/ (pc = "unlocked" /\ agent = "up") => Settled
  /\ \A o \in Operation : KindFits(operations[o])
  /\ pc \in Working => Ends(pc, op)

\* One failed write more would be two.
LEMMA LastFault ==
  ASSUME Inv, Fault, OneFailed'
  PROVE  Unfailed /\ ~ Unfailed'
<1>1. budget \in Budget /\ MaxFaults \in Nat
  BY ExecutorAssumption DEF Inv, TypeInv, TypeOK
<1>2. budget.faults \in 0..MaxFaults /\ budget'.faults = budget.faults - 1
  BY <1>1 DEF Fault, Budget
<1> QED BY <1>1, <1>2 DEF OneFailed, Unfailed

\* No failed write is undone.
LEMMA StillOneFailed ==
  ASSUME Inv, [Next]_vars, OneFailed'
  PROVE  OneFailed
<1>1. budget \in Budget /\ MaxFaults \in Nat
  BY ExecutorAssumption DEF Inv, TypeInv, TypeOK
<1> QED BY <1>1, BudgetMoves DEF Fault, Crash, Budget, OneFailed

\* A transition rewrites the status of its operation alone.
LEMMA EnterMoves ==
  ASSUME Inv, pc \in HeldLabel, NEW status \in Status, NEW next, NEW failed,
         Enter(status, next, failed), UNCHANGED active
  PROVE  /\ op'.kind = op.kind /\ op'.target = op.target
         /\ op'.database = op.database /\ op'.configuration = op.configuration
         /\ \A o \in Operation \ {active} : operations'[o] = operations[o]
         /\ \/ CanEnter(op, status) /\ pc' = next /\ op'.status = status /\ UNCHANGED budget
            \/ /\ CanEnter(op, status) /\ pc' = failed /\ Fault
               /\ op'.status \in {op.status, status}
            \/ ~ CanEnter(op, status) /\ pc' = failed /\ UNCHANGED <<operations, budget, op>>
<1>1. active \in Operation /\ op \in Record /\ operations \in [Operation -> Record]
  BY ActiveFits DEF Inv, TypeInv, TypeOK
<1>2. CASE CanEnter(op, status) /\ WriteRecord([op EXCEPT !.status = status], next, failed)
  <2>1. \/ operations' = operations
        \/ operations' = [operations EXCEPT ![active] = [op EXCEPT !.status = status]]
    BY <1>2 DEF WriteRecord
  <2>2. CASE operations' = operations
    <3>1. op' = op
      BY <2>2 DEF op
    <3>2. \/ pc' = next /\ op.status = status /\ UNCHANGED budget
          \/ pc' = failed /\ Fault
      BY <1>1, <1>2, <2>2 DEF WriteRecord, op, Record
    <3> QED BY <1>2, <2>2, <3>1, <3>2
  <2>3. CASE operations' = [operations EXCEPT ![active] = [op EXCEPT !.status = status]]
    <3>1. op' = [op EXCEPT !.status = status]
          /\ \A o \in Operation \ {active} : operations'[o] = operations[o]
      BY <1>1, <2>3 DEF op
    <3>2. (pc' = next /\ UNCHANGED budget) \/ (pc' = failed /\ Fault)
      BY <1>2, Zenon DEF WriteRecord
    <3> QED BY <1>1, <1>2, <3>1, <3>2 DEF Record
  <2> QED BY <2>1, <2>2, <2>3
<1>3. CASE ~ CanEnter(op, status) /\ pc' = failed /\ UNCHANGED <<operations, budget>>
  BY <1>3 DEF op
<1> QED BY <1>2, <1>3 DEF Enter

\* A step of a worker, which is alone.
LEMMA WorkerOwn ==
  ASSUME Inv, OwnInv, pc \in Working, pc' \in WorkerLabel, UNCHANGED active,
         \A o \in Operation \ {active} : operations'[o] = operations[o],
         KindFits(op'), pc' \in Working => Ends(pc, op)', pc' = "release" => op'.status \notin Committed
  PROVE  OwnInv'
<1>1. active \in Operation /\ op' = operations'[active]
  BY ActiveFits DEF op, Working, HeldLabel, Label, WorkerLabel, ApplyLabel, SwitchLabel,
                    HandlerLabel
<1>2. \A o \in Operation \ {active} : operations'[o].status \notin Answerable
  BY DEF OwnInv
<1>3. pc' # "unlocked"
  BY DEF WorkerLabel, ApplyLabel, SwitchLabel, HandlerLabel
<1>4. \A o \in Operation : KindFits(operations'[o])
  BY <1>1 DEF OwnInv
<1>5. pc' = "release" => Settled'
  BY <1>1, <1>2 DEF Settled, Answerable
<1>6. \A o, p \in Operation :
        operations'[o].status \in Answerable /\ operations'[p].status \in Answerable => o = p
  BY <1>2
<1> QED BY <1>2, <1>3, <1>4, <1>5, <1>6 DEF OwnInv

\* A worker moves on without writing its record.
LEMMA MoveOwn ==
  ASSUME Inv, OwnInv, pc \in Working, pc' \in Working, UNCHANGED <<operations, active>>,
         Ends(pc, op)'
  PROVE  OwnInv'
<1>1. op' = op /\ active \in Operation
  BY ActiveFits DEF op, Working, HeldLabel, Label, WorkerLabel, ApplyLabel, SwitchLabel,
                    HandlerLabel
<1>2. KindFits(op)
  BY <1>1 DEF OwnInv, op
<1> QED BY <1>1, <1>2, WorkerOwn DEF Working

\* A record write touches the record of the holder alone.
LEMMA WriteMoves ==
  ASSUME Inv, pc \in HeldLabel, NEW r, NEW next, NEW failed, WriteRecord(r, next, failed),
         UNCHANGED active
  PROVE  /\ \A o \in Operation \ {active} : operations'[o] = operations[o]
         /\ \/ pc' = next /\ op' = r /\ UNCHANGED budget
            \/ pc' = failed /\ op' \in {op, r} /\ Fault
<1>1. active \in Operation /\ operations \in [Operation -> Record]
  BY ActiveFits DEF Inv, TypeInv, TypeOK
<1>2. \/ /\ operations' = [operations EXCEPT ![active] = r]
         /\ pc' = next /\ UNCHANGED budget
      \/ operations' = operations /\ pc' = failed /\ Fault
      \/ operations' = [operations EXCEPT ![active] = r] /\ pc' = failed /\ Fault
  BY DEF WriteRecord
<1>3. operations' = operations => op' = op
  BY DEF op
<1>4. operations' = [operations EXCEPT ![active] = r] =>
        op' = r /\ \A o \in Operation \ {active} : operations'[o] = operations[o]
  BY <1>1 DEF op
<1> QED BY <1>2, <1>3, <1>4

\* The holder writes its record, the status unchanged.
LEMMA RecordOwn ==
  ASSUME Inv, OwnInv, pc \in ApplyLabel, NEW r, NEW next \in ApplyLabel \cup {"inspect"},
         WriteRecord(r, next, "error"), UNCHANGED active,
         r.status = op.status, r.kind = op.kind,
         next \in EarlyLabel => pc \in EarlyLabel
  PROVE  OwnInv'
<1> USE DEF Working, WorkerLabel, ApplyLabel, SwitchLabel, HandlerLabel
<1>1. pc \in HeldLabel /\ pc \in Working /\ pc' \in Working /\ pc' \in {next, "error"}
  BY DEF HeldLabel, Label, WriteRecord
<1>2. op'.status = op.status /\ op'.kind = op.kind
      /\ \A o \in Operation \ {active} : operations'[o] = operations[o]
  BY <1>1, WriteMoves
<1>3. KindFits(op) /\ Ends(pc, op)
  BY <1>1, ActiveFits DEF OwnInv, op
<1>4. KindFits(op') /\ Ends(pc, op)'
  BY <1>1, <1>2, <1>3 DEF KindFits, Ends, EarlyLabel
<1> QED BY <1>1, <1>2, <1>4, WorkerOwn

\* A worker enters a status.
LEMMA EnterOwn ==
  ASSUME Inv, OwnInv, OneFailed', pc \in Working, NEW status \in Status \ {"adopting"},
         NEW next \in ApplyLabel \cup SwitchLabel \cup {"restore", "release"},
         NEW failed \in {"error", "restore_error"},
         Enter(status, next, failed), UNCHANGED active,
         next # "publish_error",
         next \in EarlyLabel => status \in PreSwitchRecovery,
         next = "release" => status \notin Committed,
         status = "rolling_back" => failed = "restore_error" /\ next = "restore",
         failed = "error" => op.status # "rolling_back",
         status \in {"migrating", "bootstrapping"} => Applying
  PROVE  OwnInv'
<1> USE DEF Working, WorkerLabel, ApplyLabel, SwitchLabel, HandlerLabel
<1>1. pc \in HeldLabel
  BY DEF HeldLabel, Label
<1>2. KindFits(op)
  BY <1>1, ActiveFits DEF OwnInv, op
<1>3. /\ op'.kind = op.kind /\ op'.status \in {op.status, status}
      /\ (pc' = next /\ op'.status = status) \/ pc' = failed
      /\ \A o \in Operation \ {active} : operations'[o] = operations[o]
  BY <1>1, EnterMoves
<1>4. KindFits(op')
  BY <1>2, <1>3 DEF KindFits, Applying
<1>5. pc' \in Working => Ends(pc, op)'
  BY <1>3 DEF Ends, EarlyLabel
<1>6. pc' \in WorkerLabel /\ (pc' = "release" => op'.status \notin Committed)
  BY <1>3
<1> QED BY <1>3, <1>4, <1>5, <1>6, WorkerOwn

\* A handler records the verdict on its operation.
LEMMA VerdictOwn ==
  ASSUME Inv, OwnInv, OneFailed', pc \in Working,
         NEW status \in {"failed_pre_switch", "manual_recovery_required"},
         NEW failed \in {"worker_error", "release"},
         Enter(status, "release", failed), UNCHANGED active,
         op.status \in Committed => CanEnter(op, status),
         failed = "release" /\ op.status \in Committed => ~ Unfailed
  PROVE  OwnInv'
<1> USE DEF Working, WorkerLabel, ApplyLabel, SwitchLabel, HandlerLabel
<1>1. pc \in HeldLabel
  BY DEF HeldLabel, Label
<1>2. KindFits(op)
  BY <1>1, ActiveFits DEF OwnInv, op
<1>3. status \in Status /\ status \notin Committed
  BY DEF Status, Transitions, Committed
<1>4. /\ op'.kind = op.kind /\ op'.status \in {op.status, status}
      /\ \/ pc' = "release" /\ op'.status = status
         \/ pc' = failed /\ Fault
         \/ pc' = failed /\ ~ CanEnter(op, status) /\ op' = op
      /\ \A o \in Operation \ {active} : operations'[o] = operations[o]
  BY <1>1, <1>3, EnterMoves
<1>5. KindFits(op')
  BY <1>2, <1>4 DEF KindFits
<1>6. pc' = "release" => op'.status \notin Committed
  BY <1>3, <1>4, LastFault
<1>7. pc' \in Working => Ends(pc, op)'
  BY <1>3, <1>4, LastFault DEF Ends, EarlyLabel
<1>8. pc' \in WorkerLabel
  BY <1>4
<1> QED BY <1>4, <1>5, <1>6, <1>7, <1>8, WorkerOwn

\* The steps of a worker that apply and rollback share.
LEMMA SharedOwn ==
  ASSUME Inv, OwnInv, OneFailed', SharedStep
  PROVE  OwnInv'
<1> USE DEF Working, WorkerLabel, ApplyLabel, SwitchLabel, HandlerLabel
<1>0. Fits(pc, op) /\ (pc \in Working => Ends(pc, op) /\ op \in Record)
  BY ActiveFits DEF OwnInv, HeldLabel, Label
<1>1. CASE Begin
  <2>1. op' = op /\ pc \in Working /\ pc' \in Working /\ UNCHANGED <<operations, active>>
    BY <1>1 DEF Begin, op
  <2>2. Ends(pc, op)'
    BY <1>0, <1>1, <2>1 DEF Begin, Ends, EarlyLabel, PreSwitchRecovery, Committed
  <2> QED BY <2>1, <2>2, MoveOwn
<1>2. CASE EnterPreflight \/ EnterFetching \/ EnterVerifying \/ EnterPulling
           \/ EnterSwitching \/ EnterVerifyingHealth
  BY <1>0, <1>2, EnterOwn
     DEF EnterPreflight, EnterFetching, EnterVerifying, EnterPulling, EnterSwitching,
         EnterVerifyingHealth, EnterStatus, process, Ends, Status, Transitions,
         PreSwitchRecovery, EarlyLabel
<1>3. CASE CheckHost \/ Fetch \/ VerifyRelease \/ InspectPlugins \/ Plan \/ Pull
  <2>1. op' = op /\ pc \in Working /\ pc' \in Working /\ UNCHANGED <<operations, active>>
        /\ pc \in EarlyLabel
        /\ pc' \in EarlyLabel \cup {"error", "incompatible", "switching", "mark_configuration"}
    BY <1>3 DEF CheckHost, Fetch, VerifyRelease, InspectPlugins, Plan, Pull, Observe,
                RecordPlugins, WriteRuntime, process, op, EarlyLabel
  <2>2. Ends(pc, op)'
    BY <1>0, <2>1 DEF Ends, EarlyLabel, PreSwitchRecovery, Committed
  <2> QED BY <2>1, <2>2, MoveOwn
<1>4. CASE Switch \/ VerifyHealth \/ RecordPreviousPlugins \/ Promote
  <2>1. op' = op /\ pc \in Working /\ pc' \in Working /\ UNCHANGED <<operations, active>>
        /\ pc \in SwitchLabel
        /\ pc' \in {"verifying_health", "promote", "record_previous_plugins", "publish",
                     "error"}
    BY <1>4 DEF Switch, VerifyHealth, RecordPreviousPlugins, Promote, Observe, Recreate,
                RecordPlugins, WriteRuntime, WriteSlots, process, op
  <2>2. Ends(pc, op)'
    BY <1>0, <2>1 DEF Ends, EarlyLabel
  <2> QED BY <2>1, <2>2, MoveOwn
<1>5. CASE PublishLocator
  <2>1. op' = op /\ pc \in Working /\ pc' \in Working /\ UNCHANGED <<operations, active>>
        /\ pc \in SwitchLabel /\ (pc' = "finish" \/ (pc' = "publish_error" /\ Fault))
    BY <1>5 DEF PublishLocator, WriteLocator, process, op
  <2>2. Ends(pc, op)'
    BY <1>0, <2>1, LastFault DEF Ends, EarlyLabel
  <2> QED BY <2>1, <2>2, MoveOwn
<1>6. CASE PublishFailed \/ Finish
  BY <1>0, <1>6, EnterOwn
     DEF PublishFailed, Finish, process, Ends, Status, Transitions, EarlyLabel, Committed
<1> QED BY <1>1, <1>2, <1>3, <1>4, <1>5, <1>6 DEF SharedStep

\* The steps of apply alone.
LEMMA ApplyOwn ==
  ASSUME Inv, OwnInv, OneFailed', ApplyStep
  PROVE  OwnInv'
<1> USE DEF Working, WorkerLabel, ApplyLabel, SwitchLabel, HandlerLabel
<1>0. /\ Fits(pc, op) /\ (pc \in ApplyLabel => Applying)
      /\ (pc \in Working => Ends(pc, op) /\ op \in Record)
  BY ActiveFits DEF OwnInv, HeldLabel, Label, Fits, Applying
<1>1. CASE EnterBackup \/ EnterMigrating \/ EnterBootstrapping
  BY <1>0, <1>1, EnterOwn
     DEF EnterBackup, EnterMigrating, EnterBootstrapping, EnterStatus, process, Ends, Status,
         Transitions, PreSwitchRecovery, EarlyLabel, Committed
<1>2. CASE BindRecoveryTarget \/ MarkDatabasePending \/ ResolveDatabase
           \/ MarkConfigurationPending \/ ResolveConfiguration
  BY <1>0, <1>2, RecordOwn
     DEF BindRecoveryTarget, MarkDatabasePending, ResolveDatabase, MarkConfigurationPending,
         ResolveConfiguration, process, Record, EarlyLabel
<1>3. CASE BackupDatabase \/ QuiesceWriters \/ Migrate \/ RecordDatabaseContract \/ Bootstrap
           \/ RecordConfigurationContract \/ RecordTargetPlugins \/ Replan
  <2>1. op' = op /\ pc \in ApplyLabel /\ pc' \in Working /\ UNCHANGED <<operations, active>>
        /\ (pc' \in EarlyLabel => pc \in EarlyLabel)
        /\ pc' \in ApplyLabel \cup {"pulling", "error", "incompatible", "switching"}
    BY <1>3 DEF BackupDatabase, QuiesceWriters, Migrate, RecordDatabaseContract, Bootstrap,
                RecordConfigurationContract, RecordTargetPlugins, Replan, Observe,
                RecordPlugins, WriteRuntime, RunBootstrap, process, op, EarlyLabel
  <2>2. Ends(pc, op)'
    BY <1>0, <2>1 DEF Ends, EarlyLabel, Applying
  <2> QED BY <2>1, <2>2, MoveOwn
<1> QED BY <1>1, <1>2, <1>3 DEF ApplyStep

\* The exception handlers and the end of a worker.
LEMMA HandlerOwn ==
  ASSUME Inv, OwnInv, OneFailed', HandlerStep
  PROVE  OwnInv'
<1> USE DEF Working, WorkerLabel, ApplyLabel, SwitchLabel, HandlerLabel
<1>0. Fits(pc, op)
      /\ (pc \in Working => Ends(pc, op) /\ KindFits(op) /\ op \in Record
                            /\ op.kind \in {"apply_update", "rollback_previous"})
  BY ActiveFits DEF OwnInv, HeldLabel, Label, Record, Kind, op
<1>1. op.status \in Committed => CanEnter(op, "manual_recovery_required")
  BY DEF CanEnter, Committed, Status, Transitions
<1>2. CASE Incompatible \/ RestoreFailed
  BY <1>0, <1>1, <1>2, VerdictOwn
     DEF Incompatible, RestoreFailed, process, Ends, Applying, PreSwitchRecovery, Committed
<1>3. CASE ApplyFailed \/ RollbackFailed
  <2>1. CASE pc' = "rolling_back" /\ UNCHANGED operations
    <3>1. op' = op /\ UNCHANGED active /\ pc = "error"
      BY <1>3, <2>1 DEF ApplyFailed, RollbackFailed, op, process
    <3>2. Ends(pc, op)'
      BY <2>1 DEF Ends, EarlyLabel
    <3> QED BY <2>1, <3>1, <3>2, MoveOwn
  <2>2. CASE ~ (pc' = "rolling_back" /\ UNCHANGED operations)
    BY <1>0, <1>1, <1>3, <2>2, VerdictOwn
       DEF ApplyFailed, RollbackFailed, process, Ends, Applying, KindFits, PreSwitchRecovery,
           Committed
  <2> QED BY <2>1, <2>2
<1>4. CASE EnterRollingBack \/ FinishRestore
  BY <1>0, <1>4, EnterOwn
     DEF EnterRollingBack, FinishRestore, process, Status, Transitions, EarlyLabel, Committed
<1>5. CASE Restore \/ VerifyRestored \/ RecordRestoredPlugins
  <2>1. op' = op /\ pc \in Working /\ UNCHANGED <<operations, active>>
        /\ pc' \in {"verify_restored", "record_restored", "restored", "restore_error"}
    BY <1>5 DEF Restore, VerifyRestored, RecordRestoredPlugins, Recreate, Observe,
                RecordPlugins, WriteRuntime, process, op
  <2>2. Ends(pc, op)'
    BY <2>1 DEF Ends, EarlyLabel
  <2> QED BY <2>1, <2>2, MoveOwn
<1>6. CASE WorkerFailed
  <2>1. CASE op.status \in TerminalStates
    <3>1. op' = op /\ pc \in Working /\ UNCHANGED <<operations, active>> /\ pc' = "release"
      BY <1>6, <2>1 DEF WorkerFailed, op, process
    <3>2. op'.status \notin Committed
      BY <2>1, <3>1 DEF TerminalStates, Committed
    <3> QED BY <1>0, <3>1, <3>2, WorkerOwn
  <2>2. CASE op.status \notin TerminalStates
    <3>1. op.status \in Committed => RecoveredStatus(op) = "manual_recovery_required"
      BY DEF Committed, RecoveredStatus, PreSwitchRecovery
    <3>2. RecoveredStatus(op) \in {"failed_pre_switch", "manual_recovery_required"}
      BY DEF RecoveredStatus
    <3>3. Enter(RecoveredStatus(op), "release", "release") /\ pc = "worker_error"
          /\ UNCHANGED active
      BY <1>6, <2>2 DEF WorkerFailed, process
    <3>4. op.status \in Committed => ~ Unfailed
      BY <1>0, <3>3 DEF Ends
    <3> QED BY <1>1, <3>1, <3>2, <3>3, <3>4, VerdictOwn
  <2> QED BY <2>1, <2>2
<1>7. CASE ReleaseLock
  BY <1>7 DEF ReleaseLock, OwnInv, Settled, KindFits
<1> QED BY <1>2, <1>3, <1>4, <1>5, <1>6, <1>7 DEF HandlerStep

\* The steps of reconcile: its operation is the one that answers.
LEMMA ReconcileOwn ==
  ASSUME Inv, OwnInv, ReconcileStep
  PROVE  OwnInv'
<1>1. pc \in ReconcileLabel /\ pc' \in ReconcileLabel \cup {"release"} /\ UNCHANGED active
  BY DEF ReconcileStep, ReconcileReceipt, ResolveUncertainDatabase, ClearDatabase,
         ResolveUncertainConfiguration, RecordUncertainConfiguration, ClearConfiguration,
         ReconcilePlan, ReconcileSwitch, ReconcileHealth, ReconcileRuntime, ReconcileLocator,
         Reconciled, ReconcileLabel, Observe, WriteRuntime, WriteRecord, WriteLocator, Enter,
         RunBootstrap, Recreate, Resolve, process
<1>2. pc \in HeldLabel
  BY <1>1 DEF HeldLabel, Label, ReconcileLabel
<1>3. op.status = "manual_recovery_required" /\ active \in Operation /\ KindFits(op)
      /\ op \in Record
  BY <1>1, <1>2, ActiveFits DEF Fits, OwnInv, op
<1>4. /\ \A o \in Operation \ {active} : operations'[o] = operations[o]
      /\ op'.status \in {"manual_recovery_required", "reconciled"} /\ op'.kind = op.kind
  <2>1. CASE ReconcileReceipt \/ ResolveUncertainDatabase \/ ResolveUncertainConfiguration
             \/ RecordUncertainConfiguration \/ ReconcilePlan \/ ReconcileSwitch
             \/ ReconcileHealth \/ ReconcileRuntime \/ ReconcileLocator
    <3>1. UNCHANGED <<operations, active>>
      BY <2>1
         DEF ReconcileReceipt, ResolveUncertainDatabase, ResolveUncertainConfiguration,
             RecordUncertainConfiguration, ReconcilePlan, ReconcileSwitch, ReconcileHealth,
             ReconcileRuntime, ReconcileLocator, Observe, process
    <3> QED BY <1>3, <3>1 DEF op
  <2>2. CASE ClearDatabase
    <3>1. WriteRecord([op EXCEPT !.database = None], Resolve, "release")
      BY <2>2 DEF ClearDatabase
    <3> QED BY <1>1, <1>2, <1>3, <3>1, WriteMoves DEF Record
  <2>3. CASE ClearConfiguration
    <3>1. \/ WriteRecord([op EXCEPT !.configuration = None], "reconcile_plan", "release")
          \/ UNCHANGED <<operations, active>>
      BY <2>3 DEF ClearConfiguration, process
    <3>2. CASE UNCHANGED <<operations, active>>
      BY <1>3, <3>2 DEF op
    <3> QED BY <1>1, <1>2, <1>3, <3>1, <3>2, WriteMoves DEF Record
  <2>4. CASE Reconciled
    <3>1. Enter("reconciled", "release", "release") /\ "reconciled" \in Status
      BY <2>4 DEF Reconciled, Status, Transitions
    <3> QED BY <1>1, <1>2, <1>3, <3>1, EnterMoves
  <2> QED BY <2>1, <2>2, <2>3, <2>4 DEF ReconcileStep
<1>5. \A o \in Operation \ {active} : operations[o].status \notin Answerable
  BY <1>3 DEF OwnInv, Answerable, op
<1>6. Settled' /\ \A o \in Operation : KindFits(operations'[o])
  BY <1>3, <1>4, <1>5, <1>1 DEF Settled, Answerable, Committed, KindFits, OwnInv, op
<1>7. pc' \notin Working /\ pc' # "unlocked"
  BY <1>1 DEF Working, WorkerLabel, ApplyLabel, SwitchLabel, HandlerLabel, ReconcileLabel
<1> QED BY <1>4, <1>5, <1>6, <1>7 DEF OwnInv

\* The restart and its recovery block whoever answers, and fail the others.
LEMMA RecoveryOwn ==
  ASSUME Inv, OwnInv, RecoveryStep
  PROVE  OwnInv'
<1> USE DEF Working, WorkerLabel, ApplyLabel, SwitchLabel, HandlerLabel
<1>1. CASE Restart
  BY <1>1 DEF Restart, OwnInv, Settled, KindFits
<1>2. CASE Serve
  <2>1. \A o \in Operation : operations[o].status \notin Committed
    BY <1>2 DEF Serve, Incomplete, Committed, TerminalStates, Status, Transitions
  <2> QED BY <1>2, <2>1 DEF Serve, OwnInv, Settled, KindFits
<1>3. CASE RecoverOperation
  <2>1. PICK o \in Operation :
          /\ Incomplete(operations[o])
          /\ operations' = operations
             \/ operations' = [operations EXCEPT ![o].status = RecoveredStatus(operations[o])]
    BY <1>3 DEF RecoverOperation
  <2>2. /\ pc' = "recovering" \/ (pc' = "unlocked" /\ agent' = "down")
    BY <1>3 DEF RecoverOperation
  <2>3. CASE operations' = operations
    BY <2>2, <2>3 DEF OwnInv, Settled, KindFits
  <2>4. CASE operations' = [operations EXCEPT ![o].status = RecoveredStatus(operations[o])]
    <3>1. operations \in [Operation -> Record]
      BY DEF Inv, TypeInv, TypeOK
    <3>2. /\ operations'[o].status = RecoveredStatus(operations[o])
          /\ operations'[o].kind = operations[o].kind
          /\ \A p \in Operation \ {o} : operations'[p] = operations[p]
      BY <2>4, <3>1 DEF Record
    <3>3. RecoveredStatus(operations[o]) \in {"failed_pre_switch", "manual_recovery_required"}
          /\ (RecoveredStatus(operations[o]) \in Answerable => operations[o].status \in Answerable)
      BY <2>1, <3>1
         DEF RecoveredStatus, Answerable, Committed, Incomplete, PreSwitchRecovery, Status,
             Transitions, TerminalStates
    <3>4. \A p, q \in Operation :
            operations'[p].status \in Answerable /\ operations'[q].status \in Answerable => p = q
      BY <3>2, <3>3 DEF OwnInv
    <3>5. \A p \in Operation : KindFits(operations'[p])
      BY <3>2, <3>3 DEF OwnInv, KindFits
    <3> QED BY <2>2, <3>4, <3>5 DEF OwnInv
  <2> QED BY <2>1, <2>3, <2>4
<1> QED BY <1>1, <1>2, <1>3 DEF RecoveryStep

\* A new operation answers for nothing yet, and nobody else does.
LEMMA AdmitOwn ==
  ASSUME Inv, OwnInv, NEW o \in Operation, NEW kind \in Kind, NEW release \in Release,
         Admit(o, kind, release)
  PROVE  OwnInv'
<1> DEFINE r == NewRecord(kind, release)
<1> USE DEF Working, WorkerLabel, ApplyLabel, SwitchLabel, HandlerLabel
<1>1. operations \in [Operation -> Record]
  BY DEF Inv, TypeInv, TypeOK
<1>2. \A p \in Operation : operations[p].status \notin Answerable
  BY DEF Admit, OwnInv, RecoveryBlocked, Settled, Answerable
<1>3. /\ \A p \in Operation \ {o} : operations'[p] = operations[p]
      /\ operations'[o].status \in {operations[o].status, "idle", "failed_pre_switch"}
      /\ operations'[o].kind \in {operations[o].kind, kind}
      /\ (pc' = "begin" => operations'[o] = r /\ active' = o)
  <2>1. r.status = "idle" /\ r.kind = kind
    BY DEF NewRecord
  <2>2. \/ operations' = [operations EXCEPT ![o] = r] /\ active' = o /\ pc' = "begin"
        \/ operations' = [operations EXCEPT ![o] = [r EXCEPT !.status = "failed_pre_switch"]]
           /\ pc' = "unlocked"
        \/ operations' = operations /\ pc' = "unlocked"
        \/ operations' = [operations EXCEPT ![o] = r] /\ pc' = "unlocked"
    BY <1>1 DEF Admit
  <2>3. [r EXCEPT !.status = "failed_pre_switch"].status = "failed_pre_switch"
        /\ [r EXCEPT !.status = "failed_pre_switch"].kind = kind
    BY DEF NewRecord
  <2> HIDE DEF r
  <2> QED BY <1>1, <2>1, <2>2, <2>3
<1>4. \A p \in Operation : operations'[p].status \notin Answerable
  BY <1>2, <1>3 DEF Answerable, Committed
<1>5. \A p \in Operation : KindFits(operations'[p])
  BY <1>1, <1>2, <1>3, <1>4 DEF OwnInv, KindFits, Answerable, Committed
<1>6. pc' \in {"begin", "unlocked"}
  BY DEF Admit
<1>7. pc' = "begin" => op'.status = "idle" /\ op'.kind = kind
  BY <1>3 DEF op, NewRecord
<1>8. pc' \in Working => Ends(pc, op)'
  BY <1>6, <1>7 DEF Ends, EarlyLabel, PreSwitchRecovery
<1> QED BY <1>4, <1>5, <1>6, <1>8 DEF OwnInv, Settled, Answerable

\* Operations begin, processes die, the world moves.
LEMMA EnvironmentOwn ==
  ASSUME Inv, OwnInv, Environment
  PROVE  OwnInv'
<1> USE DEF Working, WorkerLabel, ApplyLabel, SwitchLabel, HandlerLabel
<1>1. CASE StartApply \/ StartRollback
  <2>1. slots \in [current : Release, previous : Release \cup {None}, history : SUBSET Release]
    BY DEF Inv, TypeInv, TypeOK
  <2> QED BY <1>1, <2>1, AdmitOwn DEF StartApply, StartRollback, Kind
<1>2. CASE StartReconcile
  BY <1>2 DEF StartReconcile, OwnInv, Settled, KindFits
<1>3. CASE KillAgent
  BY <1>3 DEF KillAgent, Crash, OwnInv, Settled, KindFits
<1>4. CASE KillReconcile
  <2>1. op.status = "manual_recovery_required" /\ active \in Operation
    BY <1>4, ActiveFits DEF KillReconcile, Fits, HeldLabel, Label, ReconcileLabel
  <2>2. \A o \in Operation \ {active} : operations[o].status \notin Answerable
    BY <2>1 DEF OwnInv, Answerable, op
  <2>3. Settled
    BY <2>1, <2>2 DEF Settled, Answerable, Committed, op
  <2> QED BY <1>4, <2>3 DEF KillReconcile, Crash, OwnInv, Settled, KindFits
<1>5. CASE EnablePlugins \/ JobApplies
  <2>1. UNCHANGED <<operations, pc, active, agent, budget>>
    BY <1>5 DEF EnablePlugins, JobApplies, process
  <2>2. op' = op /\ Ends(pc, op)' = Ends(pc, op)
    BY <2>1 DEF op, Ends, Unfailed
  <2> QED BY <2>1, <2>2 DEF OwnInv, Settled, KindFits
<1> QED BY <1>1, <1>2, <1>3, <1>4, <1>5 DEF Environment

\* Every step keeps the answer, unless it is the second write to fail.
LEMMA OwnStep == Inv /\ (OneFailed => OwnInv) /\ [Next]_vars => (OneFailed => OwnInv)'
<1> SUFFICES ASSUME Inv, OneFailed => OwnInv, [Next]_vars, OneFailed' PROVE OwnInv'
  OBVIOUS
<1>1. OwnInv
  BY StillOneFailed
<1>2. CASE UNCHANGED vars
  <2>1. op' = op /\ Ends(pc, op)' = Ends(pc, op)
    BY <1>2 DEF op, Ends, Unfailed, vars, process
  <2> QED BY <1>1, <1>2, <2>1 DEF OwnInv, Settled, KindFits, vars, process
<1> QED
  BY <1>1, <1>2, SharedOwn, ApplyOwn, HandlerOwn, ReconcileOwn, RecoveryOwn, EnvironmentOwn
     DEF Next

\* As long as at most one durable write failed, at most one operation answers for the
\* host: the one that holds the lock past begin, and none but a blocked one when no
\* worker holds it.
THEOREM OwnCorrect == Spec => [](OneFailed => OwnInv)
<1>1. Init => OwnInv
  <2> SUFFICES ASSUME Init PROVE OwnInv
    OBVIOUS
  <2>1. \A o \in Operation : operations[o].status = "absent" /\ operations[o].kind = "apply_update"
    BY DEF Init, NewRecord
  <2> QED BY <2>1 DEF Init, OwnInv, Settled, KindFits, Answerable, Committed, Working, WorkerLabel,
                      ApplyLabel, SwitchLabel, HandlerLabel
<1> QED BY <1>1, OwnStep, JournalCorrect, PTL DEF Spec

-----------------------------------------------------------------------------
(* The recorded contracts are fact, or a pending transition says why not.    *)

DbKnown == Describes(runtime.database, applied)
CfKnown == configured = runtime.configuration

Accepts(r) == /\ runtime.database \in Manifest[r].databaseAccepts
              /\ runtime.configuration \in Manifest[r].configurationAccepts

Slot == {slots.current, slots.previous} \ {None}

\* Both ends of a pending transition enclose the schema, and the older one covers
\* every release an application rollback or reconcile may start.
Pending(record) ==
  /\ record.database # None =>
       /\ record.database.after = Manifest[record.target].database
       /\ runtime.database \in {record.database.before, record.database.after}
       /\ Schema[record.database.before] \subseteq applied
       /\ applied \cap ContractMigrations \subseteq Schema[record.database.after]
       /\ \A r \in Slot : Schema[Manifest[r].database] \subseteq Schema[record.database.before]
  /\ record.configuration # None =>
       /\ record.configuration.after = Manifest[record.target].configuration
       /\ runtime.configuration \in {record.configuration.before, record.configuration.after}

HalfMigrated(record) ==
  record.status \in {"migrating", "manual_recovery_required"} /\ record.database # None

HalfBootstrapped(record) ==
  record.status \in {"bootstrapping", "manual_recovery_required"} /\ record.configuration # None

MigrationLabel == {"mark_database", "migrating"} \cup MigratingLabel

MigratedLabel ==
  {"mark_configuration", "bootstrapping"} \cup BootstrappingLabel
  \cup {"switching", "switch", "verifying_health", "verify_health",
        "record_previous_plugins", "promote"}

PlannedLabel == {"backup", "dump", "pulling", "pull"} \cup MigrationLabel \cup MigratedLabel

\* How far a worker at a label has come.
Reaches(label) ==
  /\ label \in MigrationLabel => MigrationRequired(target)
  /\ label \in EarlyLabel \ {"migrating"} => op.database = None
  /\ label \in MigrationLabel \ {"mark_database"} => op.database # None
  /\ label \in {"record_database", "resolve_database"} =>
       Manifest[target].migrations \subseteq applied
  /\ label = "resolve_database" => DbKnown
  /\ label \in PlannedLabel => Accepts(target)
  /\ label \in EarlyLabel \cup PlannedLabel /\ ~ Applying => target = slots.previous
  /\ label \in MigratedLabel =>
       op.database = None /\ Schema[Manifest[target].database] \subseteq applied
  /\ label \in {"bootstrapping", "bootstrap", "record_configuration", "record_target_plugins",
                "resolve_configuration"} => op.configuration # None
  /\ label = "record_configuration" => configured = Manifest[target].configuration
  /\ label \in {"record_target_plugins", "resolve_configuration", "replan", "switching"} =>
       CfKnown

SettledLabel ==
  {"reconcile_plan", "reconcile_switch", "reconcile_health", "reconcile_runtime",
   "reconcile_locator", "reconciled"}

\* How far reconcile at a label has come.
Settles(label) ==
  /\ label \in ReconcileLabel => base = slots.current
  /\ label \in ConfigurationLabel \cup SettledLabel => op.database = None
  /\ label \in SettledLabel => op.configuration = None
  /\ label = "clear_database" => DbKnown
  /\ label = "record_uncertain_configuration" => configured = Manifest[target].configuration
  /\ label = "clear_configuration" => CfKnown

Floor == \A r \in Slot : Schema[Manifest[r].database] \subseteq applied

DataInv ==
  /\ DbKnown \/ \E o \in Operation : HalfMigrated(operations[o])
  /\ CfKnown \/ \E o \in Operation : HalfBootstrapped(operations[o])
  /\ \A o \in Operation :
       operations[o].status \in Answerable \/ (pc \in Working /\ o = active)
         => Pending(operations[o])
  /\ Floor
  /\ Reaches(pc)
  /\ Settles(pc)

Holding == Working \cup ReconcileLabel

\* What the holder knows: nobody else left anything half done.
LEMMA HolderKnows ==
  ASSUME Inv, OwnInv, DataInv, pc \in Holding
  PROVE  /\ active \in Operation /\ op \in Record /\ target \in Release
         /\ DbKnown \/ HalfMigrated(op)
         /\ CfKnown \/ HalfBootstrapped(op)
         /\ Pending(op)
<1>1. pc \in HeldLabel
  BY DEF Holding, Working, HeldLabel, Label, WorkerLabel, ApplyLabel, SwitchLabel, HandlerLabel,
         ReconcileLabel
<1>2. active \in Operation /\ op \in Record /\ op = operations[active]
      /\ (pc \in ReconcileLabel => op.status = "manual_recovery_required")
  BY <1>1, ActiveFits DEF Fits, op
<1>3. \A o \in Operation \ {active} : operations[o].status \notin Answerable
  BY <1>2 DEF OwnInv, Holding, Answerable
<1>4. \A o \in Operation :
        HalfMigrated(operations[o]) \/ HalfBootstrapped(operations[o]) => o = active
  BY <1>3 DEF HalfMigrated, HalfBootstrapped, Answerable, Committed
<1>5. Pending(op)
  BY <1>2 DEF DataInv, Holding, Answerable
<1> QED BY <1>2, <1>4, <1>5 DEF DataInv, target, Record

\* A step of the holder.
LEMMA HolderData ==
  ASSUME Inv, OwnInv, DataInv, pc \in Holding, pc' \in Holding \cup {"release"},
         pc' \in Working => pc \in Working,
         UNCHANGED active, \A o \in Operation \ {active} : operations'[o] = operations[o],
         DbKnown' \/ HalfMigrated(op)',
         CfKnown' \/ HalfBootstrapped(op)',
         Pending(op)', Floor', Reaches(pc)', Settles(pc)'
  PROVE  DataInv'
<1>1. active \in Operation /\ op' = operations'[active] /\ active' = active
  BY HolderKnows DEF op
<1>2. \A o \in Operation \ {active} : operations[o].status \notin Answerable
  <2>1. pc \in ReconcileLabel => pc \in HeldLabel
    BY DEF HeldLabel, Label, ReconcileLabel
  <2>2. pc \in ReconcileLabel => op.status = "manual_recovery_required"
    BY <2>1, ActiveFits DEF Fits
  <2> QED BY <1>1, <2>2 DEF OwnInv, Holding, Answerable, op
<1>3. \A o \in Operation :
        operations'[o].status \in Answerable \/ (pc' \in Working /\ o = active') => o = active
  BY <1>1, <1>2
<1>4. HalfMigrated(op)' => \E o \in Operation : HalfMigrated(operations'[o])
  BY <1>1
<1>5. HalfBootstrapped(op)' => \E o \in Operation : HalfBootstrapped(operations'[o])
  BY <1>1
<1>6. \A o \in Operation :
        operations'[o].status \in Answerable \/ (pc' \in Working /\ o = active')
          => Pending(operations[o])'
  BY <1>1, <1>3
<1> QED BY <1>4, <1>5, <1>6 DEF DataInv

\* Slots, schema, settings and the recorded contracts are left alone.
Still ==
  /\ UNCHANGED <<slots, applied, configured>>
  /\ runtime'.database = runtime.database /\ runtime'.configuration = runtime.configuration

\* What is left alone stays as true as it was.
LEMMA StillData ==
  ASSUME Still
  PROVE  /\ DbKnown' = DbKnown /\ CfKnown' = CfKnown /\ Floor' = Floor
         /\ \A r : Accepts(r)' = Accepts(r)
         /\ \A r : Pending(r)' = Pending(r)
BY DEF Still, DbKnown, CfKnown, Floor, Accepts, Pending, Slot

\* Nothing moves but the next label.
LEMMA MoveData ==
  ASSUME Inv, OwnInv, DataInv, pc \in Holding, pc' \in Holding \cup {"release"},
         pc' \in Working => pc \in Working,
         Still, UNCHANGED <<operations, active>>, Reaches(pc'),
         pc' \in ReconcileLabel => base' = base /\ Settles(pc')
  PROVE  DataInv'
<1>1. op' = op /\ target' = target /\ Applying' = Applying
  BY DEF op, target, Applying
<1>2. Reaches(pc)'
  BY <1>1, StillData DEF Still, Reaches
<1>3. Settles(pc)'
  <2>1. CASE pc' \in ReconcileLabel
    BY <1>1, <2>1, StillData DEF Still, Settles
  <2>2. CASE pc' \notin ReconcileLabel
    BY <2>2 DEF Settles, ReconcileLabel, ConfigurationLabel, SettledLabel
  <2> QED BY <2>1, <2>2
<1>4. /\ DbKnown' \/ HalfMigrated(op)'
      /\ CfKnown' \/ HalfBootstrapped(op)'
      /\ Pending(op)' /\ Floor'
  BY <1>1, HolderKnows, StillData DEF HalfMigrated, HalfBootstrapped, DataInv
<1> QED BY <1>2, <1>3, <1>4, HolderData

\* The holder rewrites its record.
LEMMA RewriteData ==
  ASSUME Inv, OwnInv, DataInv, pc \in Holding, pc' \in Holding \cup {"release"},
         pc' \in Working => pc \in Working,
         Still, UNCHANGED <<active, base>>,
         \A o \in Operation \ {active} : operations'[o] = operations[o],
         DbKnown \/ HalfMigrated(op'), CfKnown \/ HalfBootstrapped(op'), Pending(op)',
         Reaches(pc)', Settles(pc)'
  PROVE  DataInv'
<1>1. HalfMigrated(op)' = HalfMigrated(op') /\ HalfBootstrapped(op)' = HalfBootstrapped(op')
  BY DEF HalfMigrated, HalfBootstrapped
<1>2. Floor'
  BY StillData DEF DataInv
<1> QED BY <1>1, <1>2, StillData, HolderData

\* The holder enters a status.
LEMMA EnterData ==
  ASSUME Inv, OwnInv, DataInv, pc \in Holding, NEW status \in Status,
         NEW next \in Holding \cup {"release"}, NEW failed \in FailedLabel,
         next \in Working => pc \in Working, failed # "release" => pc \in Working,
         Enter(status, next, failed), UNCHANGED <<durable, host, process>>,
         status = "bootstrapping" => DbKnown,
         status = "switching" => CfKnown,
         status = "reconciled" => DbKnown /\ CfKnown,
         next \notin ReconcileLabel, Reaches(next)
  PROVE  DataInv'
<1>1. pc \in HeldLabel
  BY DEF Holding, Working, HeldLabel, Label, WorkerLabel, ApplyLabel, SwitchLabel, HandlerLabel,
         ReconcileLabel
<1>2. Still /\ UNCHANGED <<active, base>>
  BY DEF Still, durable, host, process
<1>3. /\ op'.kind = op.kind /\ op'.target = op.target
      /\ op'.database = op.database /\ op'.configuration = op.configuration
      /\ \A o \in Operation \ {active} : operations'[o] = operations[o]
      /\ pc' = next \/ pc' = failed
      /\ op'.status = op.status \/ (CanEnter(op, status) /\ op'.status = status)
  BY <1>1, <1>2, EnterMoves
<1>4. DbKnown \/ HalfMigrated(op')
  BY <1>3, HolderKnows DEF HalfMigrated, CanEnter, Status, Transitions
<1>5. CfKnown \/ HalfBootstrapped(op')
  BY <1>3, HolderKnows DEF HalfBootstrapped, CanEnter, Status, Transitions
<1>6. Pending(op)'
  BY <1>2, <1>3, HolderKnows DEF Pending, Still, Slot
<1>7. target' = target /\ Applying' = Applying
  BY <1>3 DEF target, Applying
<1>8. CASE pc' = next
  <2>1. Reaches(pc)'
    BY <1>2, <1>3, <1>7, <1>8, StillData DEF Reaches, Still
  <2>2. Settles(pc)'
    BY <1>8 DEF Settles, ReconcileLabel, ConfigurationLabel, SettledLabel
  <2> QED BY <1>2, <1>3, <1>4, <1>5, <1>6, <1>8, <2>1, <2>2, RewriteData
<1>9. CASE pc' = failed
  <2>1. Reaches(pc)'
    BY <1>9 DEF Reaches, FailedLabel, MigrationLabel, MigratingLabel, MigratedLabel,
                BootstrappingLabel, PlannedLabel, EarlyLabel
  <2>2. Settles(pc)'
    BY <1>9 DEF Settles, ReconcileLabel, ConfigurationLabel, SettledLabel, FailedLabel
  <2>3. pc' \in Holding \cup {"release"} /\ (pc' \in Working => pc \in Working)
    BY <1>9 DEF FailedLabel, Holding, Working, WorkerLabel, HandlerLabel
  <2> QED BY <1>2, <1>3, <1>4, <1>5, <1>6, <2>1, <2>2, <2>3, RewriteData
<1> QED BY <1>3, <1>8, <1>9

\* What the contracts of manifests mean for the schema.
LEMMA SchemaTyped ==
  /\ \A c \in DatabaseContract : Schema[c] \subseteq ContractMigrations
  /\ \A r \in Release :
       /\ Manifest[r].database \in DatabaseContract
       /\ Manifest[r].database \in Manifest[r].databaseAccepts
       /\ Manifest[r].databaseAccepts \subseteq DatabaseContract
       /\ Manifest[r].configuration \in Manifest[r].configurationAccepts
       /\ Schema[Manifest[r].database] \subseteq Manifest[r].migrations
BY ManifestAssumption, SchemaAssumption DEF ContractMigrations, ManifestType

\* A release in a slot is one.
LEMMA SlotTyped == Inv => Slot \subseteq Release /\ slots.current \in Slot
BY ExecutorAssumption DEF Inv, TypeInv, TypeOK, Slot

\* Promotion: the target needs nothing that is not applied.
LEMMA PromoteData ==
  ASSUME Inv, OwnInv, DataInv, Promote
  PROVE  DataInv'
<1> USE DEF Working, WorkerLabel, ApplyLabel, SwitchLabel, HandlerLabel, Holding
<1>1. pc = "promote" /\ pc' \in {"publish", "error"} /\ UNCHANGED active /\ op' = op
      /\ UNCHANGED <<operations, applied, configured, runtime>>
  BY DEF Promote, WriteSlots, op, host, process
<1>2. op.database = None /\ Schema[Manifest[target].database] \subseteq applied
      /\ (~ Applying => target = slots.previous)
  BY <1>1 DEF DataInv, Reaches, MigratedLabel, PlannedLabel
<1>3. slots' = slots \/ (slots'.current = target /\ slots'.previous = slots.current)
  BY <1>2 DEF Promote, WriteSlots
<1>4. Floor'
  BY <1>1, <1>2, <1>3 DEF DataInv, Floor, Slot
<1>5. Pending(op)'
  BY <1>1, <1>2, HolderKnows DEF Pending
<1>6. DbKnown' \/ HalfMigrated(op)'
  BY <1>1, HolderKnows DEF DbKnown, HalfMigrated
<1>7. CfKnown' \/ HalfBootstrapped(op)'
  BY <1>1, HolderKnows DEF CfKnown, HalfBootstrapped
<1>8. Reaches(pc)' /\ Settles(pc)'
  BY <1>1 DEF Reaches, Settles, MigrationLabel, MigratingLabel, MigratedLabel,
              BootstrappingLabel, PlannedLabel, EarlyLabel, ReconcileLabel,
              ConfigurationLabel, SettledLabel
<1> QED BY <1>1, <1>4, <1>5, <1>6, <1>7, <1>8, HolderData

\* After the pull, an apply that migrates nothing, and every rollback, finds the schema
\* its target needs.
LEMMA PulledData ==
  ASSUME ContractsExtend, Inv, OwnInv, DataInv, Pull
  PROVE  Reaches(pc')
<1> USE DEF Working, WorkerLabel, ApplyLabel, SwitchLabel, HandlerLabel, Holding
<1>1. pc = "pull"
  BY DEF Pull, Observe
<1>2. op.database = None /\ Accepts(target) /\ (~ Applying => target = slots.previous)
      /\ op.status \in PreSwitchRecovery
  BY <1>1 DEF DataInv, OwnInv, Ends, Reaches, EarlyLabel, PlannedLabel
<1>3. DbKnown /\ CfKnown /\ target \in Release /\ runtime \in RuntimeContracts
  BY <1>1, <1>2, HolderKnows
     DEF HalfMigrated, HalfBootstrapped, PreSwitchRecovery, Inv, TypeInv, TypeOK
<1>4. CASE pc' \in {"error", "incompatible"}
  BY <1>4 DEF Reaches, MigrationLabel, MigratingLabel, MigratedLabel, BootstrappingLabel,
              PlannedLabel, EarlyLabel
<1>5. CASE pc' = "switching" /\ ~ Applying
  <2>1. target \in Slot
    BY <1>2, <1>3, <1>5, ExecutorAssumption DEF Slot
  <2>2. Schema[Manifest[target].database] \subseteq applied
    BY <2>1 DEF DataInv, Floor
  <2> QED BY <1>2, <1>3, <1>5, <2>2
          DEF Reaches, MigrationLabel, MigratingLabel, MigratedLabel, BootstrappingLabel,
              PlannedLabel, EarlyLabel
<1>6. CASE pc' = "mark_database" /\ Applying /\ MigrationRequired(target)
  BY <1>2, <1>3, <1>6
     DEF Reaches, MigrationLabel, MigratingLabel, MigratedLabel, BootstrappingLabel,
         PlannedLabel, EarlyLabel
<1>7. CASE pc' = "mark_configuration" /\ Applying /\ ~ MigrationRequired(target)
  <2>1. Schema[Manifest[target].database] \subseteq Schema[runtime.database]
    BY <1>2, <1>3, <1>7 DEF ContractsExtend, Accepts
  <2>2. Schema[Manifest[target].database] \subseteq applied
    BY <1>3, <2>1 DEF DbKnown, Describes
  <2> QED BY <1>2, <1>3, <1>7, <2>2
          DEF Reaches, MigrationLabel, MigratingLabel, MigratedLabel, BootstrappingLabel,
              PlannedLabel, EarlyLabel
<1> QED BY <1>4, <1>5, <1>6, <1>7 DEF Pull, Observe

\* The steps of a worker that apply and rollback share.
LEMMA SharedData ==
  ASSUME ContractsExtend, Inv, OwnInv, DataInv, SharedStep
  PROVE  DataInv'
<1> USE DEF Working, WorkerLabel, ApplyLabel, SwitchLabel, HandlerLabel, Holding
<1>0. Reaches(pc) /\ (pc \in Working => Ends(pc, op))
  BY DEF DataInv, OwnInv
<1>1. CASE Begin
  <2>1. pc \in Working /\ pc' \in Working /\ Still /\ UNCHANGED <<operations, active>>
        /\ pc' \notin ReconcileLabel /\ Reaches(pc')
    BY <1>0, <1>1
       DEF Begin, Still, durable, host, Reaches, MigrationLabel, MigratingLabel, MigratedLabel,
           BootstrappingLabel, PlannedLabel, EarlyLabel, ReconcileLabel
  <2> QED BY <2>1, MoveData
<1>2. CASE EnterPreflight \/ EnterFetching \/ EnterVerifying \/ EnterPulling
           \/ EnterSwitching \/ EnterVerifyingHealth \/ PublishFailed \/ Finish
  <2>1. PICK status \in Status, next \in Holding \cup {"release"} :
          /\ Enter(status, next, "error") /\ UNCHANGED <<durable, host, process>>
          /\ pc \in Working /\ next \notin ReconcileLabel
          /\ status \notin {"bootstrapping", "reconciled"}
          /\ status = "switching" => pc = "switching"
          /\ Reaches(next)
    BY <1>0, <1>2
       DEF EnterPreflight, EnterFetching, EnterVerifying, EnterPulling, EnterSwitching,
           EnterVerifyingHealth, PublishFailed, Finish, EnterStatus, Status, Transitions,
           Reaches, MigrationLabel, MigratingLabel, MigratedLabel,
           BootstrappingLabel, PlannedLabel, EarlyLabel, ReconcileLabel
  <2>2. status = "switching" => CfKnown
    BY <1>0, <2>1 DEF Reaches
  <2> QED BY <2>1, <2>2, EnterData DEF FailedLabel
<1>3. CASE CheckHost \/ Fetch \/ VerifyRelease \/ InspectPlugins \/ Plan \/ Switch
           \/ VerifyHealth \/ RecordPreviousPlugins \/ PublishLocator
  <2>1. pc \in Working /\ pc' \in Working /\ Still /\ UNCHANGED <<operations, active>>
        /\ pc' \notin ReconcileLabel
    BY <1>3
       DEF CheckHost, Fetch, VerifyRelease, InspectPlugins, Plan, Switch, VerifyHealth,
           RecordPreviousPlugins, PublishLocator, Observe, RecordPlugins, WriteRuntime,
           Recreate, WriteLocator, Still, durable, host, process, ReconcileLabel,
           Inv, TypeInv, TypeOK, RuntimeContracts
  <2>2. Reaches(pc')
    BY <1>0, <1>3
       DEF CheckHost, Fetch, VerifyRelease, InspectPlugins, Plan, Switch, VerifyHealth,
           RecordPreviousPlugins, PublishLocator, Observe, RecordPlugins, WriteRuntime,
           Recreate, WriteLocator, PlanAllowed, Accepts,
           Reaches, MigrationLabel, MigratingLabel, MigratedLabel,
           BootstrappingLabel, PlannedLabel, EarlyLabel
  <2> QED BY <2>1, <2>2, MoveData
<1>4. CASE Pull
  <2>1. pc \in Working /\ pc' \in Working /\ Still /\ UNCHANGED <<operations, active>>
        /\ pc' \notin ReconcileLabel
    BY <1>4 DEF Pull, Observe, Still, durable, host, process, ReconcileLabel
  <2> QED BY <1>4, <2>1, PulledData, MoveData
<1>5. CASE Promote
  BY <1>5, PromoteData
<1> QED BY <1>1, <1>2, <1>3, <1>4, <1>5 DEF SharedStep

\* The pending transition recorded before a migration.
LEMMA MarkData ==
  ASSUME ContractsExtend, Inv, OwnInv, DataInv, MarkDatabasePending
  PROVE  DataInv'
<1> USE DEF Working, WorkerLabel, ApplyLabel, SwitchLabel, HandlerLabel, Holding
<1> DEFINE pending == [before |-> runtime.database, after |-> Manifest[target].database]
           r == [op EXCEPT !.database = pending]
<1>1. pc = "mark_database" /\ WriteRecord(r, "migrating", "error") /\ pc \in HeldLabel
      /\ UNCHANGED <<active, base>> /\ Still
  BY DEF MarkDatabasePending, HeldLabel, Label, Still, durable, host, process
<1>2. Accepts(target) /\ (~ Applying => target = slots.previous)
      /\ op.database = None /\ MigrationRequired(target)
  BY <1>1 DEF DataInv, Reaches, PlannedLabel, MigrationLabel, EarlyLabel
<1>3. op.status \in PreSwitchRecovery
  BY <1>1 DEF OwnInv, Ends, EarlyLabel
<1>4. /\ DbKnown /\ CfKnown /\ target \in Release /\ op \in Record /\ active \in Operation
      /\ Pending(op) /\ runtime \in RuntimeContracts
  BY <1>1, <1>3, HolderKnows
     DEF HalfMigrated, HalfBootstrapped, PreSwitchRecovery, Inv, TypeInv, TypeOK
<1>5. /\ Schema[runtime.database] \subseteq applied
      /\ applied \cap ContractMigrations \subseteq Schema[Manifest[target].database]
      /\ \A x \in Slot : Schema[Manifest[x].database] \subseteq Schema[runtime.database]
  <2>1. applied \cap ContractMigrations = Schema[runtime.database]
    BY <1>4 DEF DbKnown, Describes
  <2>2. Schema[runtime.database] \subseteq Schema[Manifest[target].database]
    BY <1>2, <1>4 DEF ContractsExtend, Accepts
  <2>3. \A x \in Slot : Schema[Manifest[x].database] \subseteq applied \cap ContractMigrations
    BY SlotTyped, SchemaTyped DEF DataInv, Floor
  <2> QED BY <2>1, <2>2, <2>3
<1>6. /\ r.database = pending /\ r.target = op.target /\ r.kind = op.kind /\ r.status = op.status
      /\ r.configuration = op.configuration
      /\ pending.before = runtime.database /\ pending.after = Manifest[target].database
  BY <1>4 DEF Record
<1>7. Pending(r)
  BY <1>4, <1>5, <1>6 DEF Pending, target
<1>8. /\ \A o \in Operation \ {active} : operations'[o] = operations[o]
      /\ (pc' = "migrating" /\ op' = r) \/ (pc' = "error" /\ op' \in {op, r})
  BY <1>1, WriteMoves
<1>9. Pending(op)'
  <2>1. Pending(op)' = Pending(op')
    BY <1>1 DEF Pending, Still, Slot
  <2> HIDE DEF r
  <2> QED BY <1>4, <1>7, <1>8, <2>1
<1>10. pending # None
  <2>1. pending \in DatabaseTransition
    BY <1>4, SchemaTyped DEF DatabaseTransition, RuntimeContracts
  <2> QED BY <2>1, NoneAssumption
<1>11. Reaches(pc)'
  <2>1. CASE pc' = "error"
    BY <2>1 DEF Reaches, MigrationLabel, MigratingLabel, MigratedLabel, BootstrappingLabel,
                PlannedLabel, EarlyLabel
  <2>2. CASE pc' = "migrating" /\ op' = r
    <3>1. target' = target /\ Applying' = Applying /\ op'.database # None
      BY <1>6, <1>10, <2>2 DEF target, Applying
    <3> QED BY <1>1, <1>2, <2>2, <3>1, StillData
            DEF Still, Reaches, MigrationLabel, MigratingLabel, MigratedLabel,
                BootstrappingLabel, PlannedLabel, EarlyLabel
  <2> QED BY <1>8, <2>1, <2>2
<1>12. Settles(pc)'
  BY <1>8 DEF Settles, ReconcileLabel, ConfigurationLabel, SettledLabel
<1>13. pc' \in Working
  BY <1>8
<1> QED BY <1>1, <1>4, <1>8, <1>9, <1>11, <1>12, <1>13, RewriteData

\* The migration, and its contract in the records.
LEMMA MigrateData ==
  ASSUME ContractsExtend, JobInv, Inv, OwnInv, DataInv, Migrate \/ RecordDatabaseContract
  PROVE  DataInv'
<1> USE DEF Working, WorkerLabel, ApplyLabel, SwitchLabel, HandlerLabel, Holding
<1>1. /\ pc \in {"migrate", "record_database"} /\ UNCHANGED <<operations, active, slots, configured>>
      /\ op' = op /\ pc' \in {"record_database", "resolve_database", "error"}
      /\ runtime'.configuration = runtime.configuration
      /\ Applying
  <2>1. pc \in ApplyLabel /\ pc \in HeldLabel
    BY DEF Migrate, RecordDatabaseContract, HeldLabel, Label
  <2>2. Applying
    BY <2>1, ActiveFits DEF Fits, Applying
  <2> QED
    BY <2>2 DEF Migrate, RecordDatabaseContract, WriteRuntime, durable, host, process, op,
                Inv, TypeInv, TypeOK, RuntimeContracts
<1>2. MigrationRequired(target) /\ op.database # None /\ Accepts(target)
      /\ (pc = "record_database" => Manifest[target].migrations \subseteq applied)
  BY <1>1 DEF DataInv, Reaches, MigrationLabel, MigratingLabel, PlannedLabel
<1>3. op.status = "migrating"
  <2>1. pc \in HeldLabel
    BY <1>1 DEF HeldLabel, Label
  <2> QED BY <1>1, <2>1, ActiveFits DEF Fits, MigratingLabel
<1>4. target \in Release /\ Pending(op) /\ CfKnown /\ target' = target /\ Applying'
  BY <1>1, <1>3, HolderKnows DEF HalfBootstrapped, target, Applying
<1>5. Manifest[target].migrations \cap ContractMigrations = Schema[Manifest[target].database]
  BY <1>4 DEF ContractsExtend, Describes
<1>6. /\ applied \subseteq applied'
      /\ applied' \subseteq applied \cup Manifest[target].migrations
      /\ (pc' = "record_database" => Manifest[target].migrations \subseteq applied')
      /\ (pc = "record_database" => applied' = applied)
      /\ runtime'.database \in {runtime.database, Manifest[target].database}
      /\ (pc' = "resolve_database" => runtime'.database = Manifest[target].database)
  BY <1>1 DEF Migrate, RecordDatabaseContract, WriteRuntime, durable, host, Inv, TypeInv, TypeOK,
              RuntimeContracts
<1>7. op.database.after = Manifest[target].database
      /\ applied \cap ContractMigrations \subseteq Schema[op.database.after]
      /\ runtime.database \in {op.database.before, op.database.after}
      /\ Schema[op.database.before] \subseteq applied
  BY <1>2, <1>4 DEF Pending, target
<1>8. applied' \cap ContractMigrations \subseteq Schema[op.database.after]
  BY <1>5, <1>6, <1>7
<1>9. Pending(op)'
  <2>1. Slot' = Slot /\ op' = op /\ op.target = target
    BY <1>1 DEF Slot, target
  <2>2. \A x \in Slot : Schema[Manifest[x].database] \subseteq Schema[op.database.before]
    BY <1>2, <1>4 DEF Pending
  <2>3. op.configuration # None =>
          /\ op.configuration.after = Manifest[op.target].configuration
          /\ runtime.configuration \in {op.configuration.before, op.configuration.after}
    BY <1>4 DEF Pending
  <2>4. Schema[op.database.before] \subseteq applied'
    BY <1>6, <1>7
  <2>5. runtime'.database \in {op.database.before, op.database.after}
    BY <1>6, <1>7
  <2> QED BY <1>1, <1>7, <1>8, <2>1, <2>2, <2>3, <2>4, <2>5 DEF Pending
<1>10. Floor'
  BY <1>1, <1>6 DEF DataInv, Floor, Slot
<1>11. HalfMigrated(op)' /\ CfKnown'
  BY <1>1, <1>2, <1>3, <1>4 DEF HalfMigrated, CfKnown
<1>12. Accepts(target)'
  BY <1>1, <1>2, <1>4, <1>6, SchemaTyped DEF Accepts
<1>13. pc' = "resolve_database" => DbKnown' /\ Manifest[target].migrations \subseteq applied'
  <2> SUFFICES ASSUME pc' = "resolve_database"
               PROVE  DbKnown' /\ Manifest[target].migrations \subseteq applied'
    OBVIOUS
  <2>1. pc = "record_database"
    BY DEF Migrate, RecordDatabaseContract
  <2>2. Manifest[target].migrations \subseteq applied'
    BY <1>2, <1>6, <2>1
  <2>3. applied' \cap ContractMigrations = Schema[Manifest[target].database]
    BY <1>5, <1>7, <1>8, <2>2
  <2> QED BY <1>6, <2>2, <2>3 DEF DbKnown, Describes
<1>14. Reaches(pc)' /\ Settles(pc)'
  BY <1>1, <1>2, <1>4, <1>6, <1>12, <1>13
     DEF Reaches, Settles, MigrationLabel, MigratingLabel, MigratedLabel, BootstrappingLabel,
         PlannedLabel, EarlyLabel, ReconcileLabel, ConfigurationLabel, SettledLabel
<1> QED BY <1>1, <1>9, <1>10, <1>11, <1>14, HolderData

\* The bootstrap, and its contract in the records.
LEMMA BootstrapData ==
  ASSUME Inv, OwnInv, DataInv, Bootstrap \/ RecordConfigurationContract
  PROVE  DataInv'
<1> USE DEF Working, WorkerLabel, ApplyLabel, SwitchLabel, HandlerLabel, Holding
<1>1. /\ pc \in {"bootstrap", "record_configuration"} /\ UNCHANGED <<operations, active, slots, applied>>
      /\ op' = op /\ pc' \in {"record_configuration", "record_target_plugins", "error"}
      /\ runtime'.database = runtime.database
      /\ Applying
  <2>1. pc \in ApplyLabel /\ pc \in HeldLabel
    BY DEF Bootstrap, RecordConfigurationContract, HeldLabel, Label
  <2>2. Applying
    BY <2>1, ActiveFits DEF Fits, Applying
  <2> QED
    BY <2>2 DEF Bootstrap, RunBootstrap, RecordConfigurationContract, WriteRuntime, durable, host,
                process, op, Inv, TypeInv, TypeOK, RuntimeContracts
<1>2. /\ op.configuration # None /\ Accepts(target) /\ op.database = None
      /\ Schema[Manifest[target].database] \subseteq applied
      /\ (pc = "record_configuration" => configured = Manifest[target].configuration)
  BY <1>1 DEF DataInv, Reaches, MigratedLabel, BootstrappingLabel, PlannedLabel
<1>3. op.status = "bootstrapping"
  <2>1. pc \in HeldLabel
    BY <1>1 DEF HeldLabel, Label
  <2> QED BY <1>1, <2>1, ActiveFits DEF Fits, BootstrappingLabel
<1>4. target \in Release /\ Pending(op) /\ DbKnown /\ target' = target /\ Applying'
  BY <1>1, <1>3, HolderKnows DEF HalfMigrated, target, Applying
<1>6. /\ runtime'.configuration \in {runtime.configuration, Manifest[target].configuration}
      /\ (pc' = "record_configuration" => configured' = Manifest[target].configuration)
      /\ (pc' = "record_target_plugins" =>
            configured' = configured /\ pc = "record_configuration"
            /\ runtime'.configuration = Manifest[target].configuration)
  BY <1>1 DEF Bootstrap, RunBootstrap, RecordConfigurationContract, WriteRuntime, durable, host,
              Inv, TypeInv, TypeOK, RuntimeContracts
<1>7. Pending(op)'
  <2>1. op' = op /\ op.target = target
    BY <1>1 DEF target
  <2> QED BY <1>2, <1>4, <1>6, <2>1 DEF Pending
<1>8. Floor'
  BY <1>1 DEF DataInv, Floor, Slot
<1>9. HalfBootstrapped(op)' /\ DbKnown'
  BY <1>1, <1>2, <1>3, <1>4 DEF HalfBootstrapped, DbKnown
<1>10. Accepts(target)'
  BY <1>1, <1>2, <1>4, <1>6, SchemaTyped DEF Accepts
<1>11. pc' = "record_target_plugins" => CfKnown'
  BY <1>2, <1>6 DEF CfKnown
<1>12. Reaches(pc)' /\ Settles(pc)'
  BY <1>1, <1>2, <1>4, <1>6, <1>10, <1>11
     DEF Reaches, Settles, MigrationLabel, MigratingLabel, MigratedLabel, BootstrappingLabel,
         PlannedLabel, EarlyLabel, ReconcileLabel, ConfigurationLabel, SettledLabel
<1> QED BY <1>1, <1>7, <1>8, <1>9, <1>12, HolderData

\* A record with one part of it written.
Resolved(r, next) ==
  /\ WriteRecord(r, next, "error")
  /\ r.status = op.status /\ r.kind = op.kind /\ r.target = op.target
  /\ \/ /\ pc = "bind" /\ next = "inspect"
        /\ r.database = op.database /\ r.configuration = op.configuration
     \/ /\ pc = "resolve_database" /\ next = "mark_configuration"
        /\ r.database = None /\ r.configuration = op.configuration
     \/ /\ pc = "mark_configuration" /\ next = "bootstrapping"
        /\ r.database = op.database
        /\ r.configuration = [before |-> runtime.configuration,
                              after  |-> Manifest[target].configuration]
     \/ /\ pc = "resolve_configuration" /\ next = "replan"
        /\ r.database = op.database /\ r.configuration = None

\* The holder rewrites a part of its record that is no pending transition, or resolves
\* one.
LEMMA ResolveData ==
  ASSUME Inv, OwnInv, DataInv,
         BindRecoveryTarget \/ ResolveDatabase \/ MarkConfigurationPending \/ ResolveConfiguration
  PROVE  DataInv'
<1> USE DEF Working, WorkerLabel, ApplyLabel, SwitchLabel, HandlerLabel, Holding
<1>1. /\ pc \in {"bind", "resolve_database", "mark_configuration", "resolve_configuration"}
      /\ pc \in HeldLabel /\ UNCHANGED <<active, base>> /\ Still
  BY DEF BindRecoveryTarget, ResolveDatabase, MarkConfigurationPending, ResolveConfiguration,
         HeldLabel, Label, Still, durable, host, process
<1>2. op \in Record /\ target \in Release /\ active \in Operation /\ Pending(op) /\ Applying
      /\ runtime \in RuntimeContracts
      /\ (DbKnown \/ HalfMigrated(op)) /\ (CfKnown \/ HalfBootstrapped(op)) /\ Reaches(pc)
  BY <1>1, HolderKnows, ActiveFits DEF Fits, Applying, DataInv, Inv, TypeInv, TypeOK
<1>16. PICK r : \E next \in ApplyLabel \cup {"inspect"} : Resolved(r, next)
  <2>1. CASE BindRecoveryTarget
    <3> DEFINE x == [op EXCEPT !.bound = TRUE]
    <3>1. x.status = op.status /\ x.kind = op.kind /\ x.target = op.target
          /\ x.database = op.database /\ x.configuration = op.configuration
      BY <1>2 DEF Record
    <3>2. WriteRecord(x, "inspect", "error") /\ pc = "bind"
      BY <2>1 DEF BindRecoveryTarget
    <3> HIDE DEF x
    <3>3. Resolved(x, "inspect")
      BY <3>1, <3>2 DEF Resolved
    <3> QED BY <3>3
  <2>2. CASE ResolveDatabase
    <3> DEFINE x == [op EXCEPT !.database = None]
    <3>1. x.status = op.status /\ x.kind = op.kind /\ x.target = op.target
          /\ x.database = None /\ x.configuration = op.configuration
      BY <1>2 DEF Record
    <3>2. WriteRecord(x, "mark_configuration", "error") /\ pc = "resolve_database"
      BY <2>2 DEF ResolveDatabase
    <3> HIDE DEF x
    <3>3. Resolved(x, "mark_configuration")
      BY <3>1, <3>2 DEF Resolved
    <3> QED BY <3>3
  <2>3. CASE MarkConfigurationPending
    <3> DEFINE x == [op EXCEPT !.configuration = [before |-> runtime.configuration,
                                    after  |-> Manifest[target].configuration]]
    <3>1. x.status = op.status /\ x.kind = op.kind /\ x.target = op.target
          /\ x.database = op.database
          /\ x.configuration = [before |-> runtime.configuration,
                                after  |-> Manifest[target].configuration]
      BY <1>2 DEF Record
    <3>2. WriteRecord(x, "bootstrapping", "error") /\ pc = "mark_configuration"
      BY <2>3 DEF MarkConfigurationPending
    <3> HIDE DEF x
    <3>3. Resolved(x, "bootstrapping")
      BY <3>1, <3>2 DEF Resolved
    <3> QED BY <3>3
  <2>4. CASE ResolveConfiguration
    <3> DEFINE x == [op EXCEPT !.configuration = None]
    <3>1. x.status = op.status /\ x.kind = op.kind /\ x.target = op.target
          /\ x.database = op.database /\ x.configuration = None
      BY <1>2 DEF Record
    <3>2. WriteRecord(x, "replan", "error") /\ pc = "resolve_configuration"
      BY <2>4 DEF ResolveConfiguration
    <3> HIDE DEF x
    <3>3. Resolved(x, "replan")
      BY <3>1, <3>2 DEF Resolved
    <3> QED BY <3>3
  <2> QED BY <2>1, <2>2, <2>3, <2>4
<1>3. PICK next \in ApplyLabel \cup {"inspect"} : Resolved(r, next)
  BY <1>16
<1>15. /\ WriteRecord(r, next, "error")
       /\ r.status = op.status /\ r.kind = op.kind /\ r.target = op.target
       /\ \/ /\ pc = "bind" /\ next = "inspect"
             /\ r.database = op.database /\ r.configuration = op.configuration
          \/ /\ pc = "resolve_database" /\ next = "mark_configuration"
             /\ r.database = None /\ r.configuration = op.configuration
          \/ /\ pc = "mark_configuration" /\ next = "bootstrapping"
             /\ r.database = op.database
             /\ r.configuration = [before |-> runtime.configuration,
                                   after  |-> Manifest[target].configuration]
          \/ /\ pc = "resolve_configuration" /\ next = "replan"
             /\ r.database = op.database /\ r.configuration = None
  BY <1>3 DEF Resolved
<1> DEFINE change == [before |-> runtime.configuration, after |-> Manifest[target].configuration]
<1>4. change # None /\ change.before = runtime.configuration
      /\ change.after = Manifest[target].configuration
  <2>1. change \in ConfigurationTransition
    BY <1>2, ManifestAssumption DEF ConfigurationTransition, RuntimeContracts, ManifestType
  <2> QED BY <2>1, NoneAssumption
<1> HIDE DEF change
<1>5. /\ pc = "mark_configuration" => r.configuration = change
  BY <1>15 DEF change
<1>6. /\ \A o \in Operation \ {active} : operations'[o] = operations[o]
      /\ (pc' = next /\ op' = r) \/ (pc' = "error" /\ op' \in {op, r})
  BY <1>1, <1>15, WriteMoves
<1>7. (pc = "resolve_database" => DbKnown) /\ (pc = "resolve_configuration" => CfKnown)
  BY <1>2 DEF Reaches
<1>8. Pending(r)
  BY <1>2, <1>15, <1>4, <1>5 DEF Pending, target
<1>9. Pending(op)'
  <2>1. Pending(op)' = Pending(op')
    BY <1>1 DEF Pending, Still, Slot
  <2> QED BY <1>2, <1>6, <1>8, <2>1
<1>10. DbKnown \/ HalfMigrated(op')
  BY <1>2, <1>15, <1>6, <1>7 DEF HalfMigrated
<1>11. CfKnown \/ HalfBootstrapped(op')
  BY <1>2, <1>15, <1>4, <1>5, <1>6, <1>7 DEF HalfBootstrapped
<1>12. Reaches(pc)'
  <2>1. CASE pc' = "error"
    BY <2>1 DEF Reaches, MigrationLabel, MigratingLabel, MigratedLabel, BootstrappingLabel,
                PlannedLabel, EarlyLabel
  <2>2. CASE pc' = next /\ op' = r
    <3>1. target' = target /\ Applying' /\ op'.database = r.database
          /\ op'.configuration = r.configuration
      BY <1>2, <1>15, <2>2 DEF target, Applying
    <3>2. pc = "resolve_database" => Schema[Manifest[target].database] \subseteq applied
      BY <1>2, SchemaTyped DEF Reaches
    <3> QED BY <1>1, <1>2, <1>15, <1>4, <1>5, <1>7, <2>2, <3>1, <3>2, StillData
            DEF Still, Reaches, MigrationLabel, MigratingLabel, MigratedLabel,
                BootstrappingLabel, PlannedLabel, EarlyLabel
  <2> QED BY <1>6, <2>1, <2>2
<1>13. Settles(pc)'
  BY <1>6 DEF Settles, ReconcileLabel, ConfigurationLabel, SettledLabel
<1>14. pc \in Working /\ pc' \in Working
  BY <1>1, <1>6
<1> QED BY <1>1, <1>6, <1>9, <1>10, <1>11, <1>12, <1>13, <1>14, RewriteData

\* The steps of apply alone.
LEMMA ApplyData ==
  ASSUME ContractsExtend, JobInv, Inv, OwnInv, DataInv, ApplyStep
  PROVE  DataInv'
<1> USE DEF Working, WorkerLabel, ApplyLabel, SwitchLabel, HandlerLabel, Holding
<1>0. Reaches(pc)
  BY DEF DataInv
<1>1. CASE EnterBackup \/ EnterMigrating \/ EnterBootstrapping
  <2>1. PICK status \in Status, next \in Working :
          /\ Enter(status, next, "error") /\ UNCHANGED <<durable, host, process>>
          /\ pc \in Working /\ next \notin ReconcileLabel
          /\ status \in {"backup", "migrating", "bootstrapping"} /\ pc = status
          /\ Reaches(next)
    BY <1>0, <1>1
       DEF EnterBackup, EnterMigrating, EnterBootstrapping, EnterStatus, Status, Transitions,
           Reaches, MigrationLabel, MigratingLabel, MigratedLabel,
           BootstrappingLabel, PlannedLabel, EarlyLabel, ReconcileLabel
  <2>2. status = "bootstrapping" => DbKnown
    BY <1>0, <2>1, HolderKnows DEF Reaches, MigratedLabel, HalfMigrated
  <2> QED BY <2>1, <2>2, EnterData DEF FailedLabel
<1>2. CASE BackupDatabase \/ QuiesceWriters \/ RecordTargetPlugins \/ Replan
  <2>1. pc \in Working /\ pc' \in Working /\ Still /\ UNCHANGED <<operations, active>>
        /\ pc' \notin ReconcileLabel
    BY <1>2
       DEF BackupDatabase, QuiesceWriters, RecordTargetPlugins, Replan, Observe, RecordPlugins,
           WriteRuntime, Still, durable, host, process, ReconcileLabel,
           Inv, TypeInv, TypeOK, RuntimeContracts
  <2>2. Reaches(pc')
    BY <1>0, <1>2
       DEF BackupDatabase, QuiesceWriters, RecordTargetPlugins, Replan, Observe, RecordPlugins,
           WriteRuntime, Reaches, MigrationLabel, MigratingLabel, MigratedLabel,
           BootstrappingLabel, PlannedLabel, EarlyLabel
  <2> QED BY <2>1, <2>2, MoveData
<1>3. CASE MarkDatabasePending
  BY <1>3, MarkData
<1>4. CASE Migrate \/ RecordDatabaseContract
  BY <1>4, MigrateData
<1>5. CASE Bootstrap \/ RecordConfigurationContract
  BY <1>5, BootstrapData
<1>6. CASE BindRecoveryTarget \/ ResolveDatabase \/ MarkConfigurationPending
           \/ ResolveConfiguration
  BY <1>6, ResolveData
<1> QED BY <1>1, <1>2, <1>3, <1>4, <1>5, <1>6 DEF ApplyStep

\* Nobody holds the lock any more, or the agent recovers.
LEMMA FreeData ==
  ASSUME DataInv, pc' \notin Holding, Still, UNCHANGED operations
  PROVE  DataInv'
<1>1. Reaches(pc)' /\ Settles(pc)' /\ pc' \notin Working
  BY DEF Reaches, Settles, Holding, Working, WorkerLabel, ApplyLabel, SwitchLabel, HandlerLabel,
         MigrationLabel, MigratingLabel, MigratedLabel, BootstrappingLabel, PlannedLabel,
         EarlyLabel, ReconcileLabel, ConfigurationLabel, SettledLabel
<1>2. \A o \in Operation :
        /\ HalfMigrated(operations[o])' = HalfMigrated(operations[o])
        /\ HalfBootstrapped(operations[o])' = HalfBootstrapped(operations[o])
        /\ Pending(operations[o])' = Pending(operations[o])
  BY DEF HalfMigrated, HalfBootstrapped, Pending, Still, Slot
<1> QED BY <1>1, <1>2, StillData DEF DataInv

\* The exception handlers and the end of a worker.
LEMMA HandlerData ==
  ASSUME Inv, OwnInv, DataInv, HandlerStep
  PROVE  DataInv'
<1> USE DEF Working, WorkerLabel, ApplyLabel, SwitchLabel, HandlerLabel, Holding
<1>1. CASE ReleaseLock
  BY <1>1, FreeData DEF ReleaseLock, Still, durable, host, ReconcileLabel
<1>2. CASE UNCHANGED operations /\ ~ ReleaseLock
  <2>1. pc \in Working /\ pc' \in Working \cup {"release"} /\ Still /\ UNCHANGED active
        /\ pc' \notin ReconcileLabel
    BY <1>2
       DEF HandlerStep, Incompatible, ApplyFailed, RollbackFailed, EnterRollingBack, Restore,
           VerifyRestored, RecordRestoredPlugins, FinishRestore, RestoreFailed, WorkerFailed,
           Enter, WriteRecord, Recreate, Observe, RecordPlugins, WriteRuntime, Still, durable,
           host, process, ReconcileLabel, Inv, TypeInv, TypeOK, RuntimeContracts
  <2>2. pc' \in {"release", "worker_error", "rolling_back", "restore", "restore_error",
                 "verify_restored", "record_restored", "restored"}
    BY <1>2
       DEF HandlerStep, Incompatible, ApplyFailed, RollbackFailed, EnterRollingBack, Restore,
           VerifyRestored, RecordRestoredPlugins, FinishRestore, RestoreFailed, WorkerFailed,
           Enter, WriteRecord, Recreate, Observe, RecordPlugins, WriteRuntime
  <2>3. Reaches(pc')
    BY <2>2 DEF Reaches, MigrationLabel, MigratingLabel, MigratedLabel, BootstrappingLabel,
                PlannedLabel, EarlyLabel
  <2> QED BY <1>2, <2>1, <2>3, MoveData
<1>3. CASE ~ UNCHANGED operations
  <2>1. PICK status \in {"manual_recovery_required", "failed_pre_switch", "rolling_back",
                         "rolled_back"},
             next \in {"release", "restore"} :
          \E failed \in FailedLabel : Enter(status, next, failed)
    BY <1>3
       DEF HandlerStep, Incompatible, ApplyFailed, RollbackFailed, EnterRollingBack, Restore,
           VerifyRestored, RecordRestoredPlugins, FinishRestore, RestoreFailed, WorkerFailed,
           ReleaseLock, Observe, RecordPlugins, RecoveredStatus, FailedLabel
  <2>2. PICK failed \in FailedLabel : Enter(status, next, failed)
    BY <2>1
  <2>3. pc \in Working /\ UNCHANGED <<durable, host, process>>
    BY <1>3
       DEF HandlerStep, Incompatible, ApplyFailed, RollbackFailed, EnterRollingBack, Restore,
           VerifyRestored, RecordRestoredPlugins, FinishRestore, RestoreFailed, WorkerFailed,
           ReleaseLock, Observe, RecordPlugins
  <2>4. status \in Status /\ status \notin {"bootstrapping", "switching", "reconciled"}
    BY DEF Status, Transitions
  <2>5. next \notin ReconcileLabel /\ next \in Holding \cup {"release"} /\ Reaches(next)
    BY DEF Reaches, MigrationLabel, MigratingLabel, MigratedLabel, BootstrappingLabel,
           PlannedLabel, EarlyLabel, ReconcileLabel
  <2>6. pc \in Holding
    BY <2>3
  <2> HIDE DEF Working, Holding
  <2> QED BY <2>2, <2>3, <2>4, <2>5, <2>6, EnterData
<1> QED BY <1>1, <1>2, <1>3 DEF HandlerStep

\* reconcile decides what the schema is.
LEMMA OutcomeData ==
  ASSUME ContractsExtend, Inv, OwnInv, DataInv, pc \in ReconcileLabel, op.database # None
  PROVE  LET outcome == DatabaseTransitionOutcome(base, target, applied)
         IN  /\ outcome = "target" => Describes(op.database.after, applied)
             /\ outcome # "target" /\ outcome # "indeterminate" =>
                  Describes(op.database.before, applied)
<1> DEFINE known  == Manifest[base].migrations
           wanted == Manifest[target].migrations
           done   == applied \cap ContractMigrations
<1>1. /\ target \in Release /\ base \in Release /\ op.database.after = Manifest[target].database
      /\ Schema[op.database.before] \subseteq applied
      /\ done \subseteq Schema[op.database.after]
      /\ Schema[Manifest[base].database] \subseteq Schema[op.database.before]
      /\ op.database \in DatabaseTransition
  <2>1. base = slots.current /\ op \in Record /\ target \in Release /\ Pending(op)
    BY HolderKnows DEF DataInv, Settles, Holding
  <2>2. base \in Slot /\ base \in Release
    BY <2>1, SlotTyped
  <2> QED BY <2>1, <2>2 DEF Pending, target, Record
<1>2. /\ Schema[op.database.before] \subseteq ContractMigrations
      /\ Schema[op.database.after] \subseteq ContractMigrations
  BY <1>1, SchemaTyped DEF DatabaseTransition
<1>3. known \cap ContractMigrations = Schema[Manifest[base].database]
      /\ wanted \cap ContractMigrations = Schema[Manifest[target].database]
  BY <1>1 DEF ContractsExtend, Describes
<1>4. wanted \subseteq applied => Describes(op.database.after, applied)
  <2> SUFFICES ASSUME wanted \subseteq applied PROVE Describes(op.database.after, applied)
    OBVIOUS
  <2>1. Schema[op.database.after] \subseteq done
    BY <1>1, <1>2, <1>3
  <2> QED BY <1>1, <2>1 DEF Describes
<1>5. known \subseteq wanted /\ (wanted \ known) \cap applied = {} =>
        Describes(op.database.before, applied)
  <2> SUFFICES ASSUME known \subseteq wanted, (wanted \ known) \cap applied = {}
               PROVE  Describes(op.database.before, applied)
    OBVIOUS
  <2>1. done \subseteq wanted \cap ContractMigrations
    BY <1>1, <1>3
  <2>2. done \subseteq known \cap ContractMigrations
    BY <2>1
  <2>3. done \subseteq Schema[op.database.before]
    BY <1>1, <1>3, <2>2
  <2> QED BY <1>1, <1>2, <2>3 DEF Describes
<1> QED BY <1>4, <1>5 DEF DatabaseTransitionOutcome

\* The steps of reconcile that change what is recorded or live.
LEMMA DecideData ==
  ASSUME ContractsExtend, Inv, OwnInv, DataInv,
         ResolveUncertainDatabase \/ ResolveUncertainConfiguration \/ RecordUncertainConfiguration
  PROVE  DataInv'
<1>1. /\ pc \in {"resolve_uncertain_database", "resolve_uncertain_configuration",
                 "record_uncertain_configuration"}
      /\ pc' \in {"clear_database", "record_uncertain_configuration", "clear_configuration",
                  "release"}
      /\ UNCHANGED <<operations, active, slots, base, applied>> /\ op' = op
  BY DEF ResolveUncertainDatabase, ResolveUncertainConfiguration, RecordUncertainConfiguration,
         RunBootstrap, WriteRuntime, durable, host, process, op
<1>2. pc \in ReconcileLabel /\ pc \in Holding /\ pc \in HeldLabel
  BY <1>1 DEF ReconcileLabel, Holding, HeldLabel, Label
<1>3. /\ op \in Record /\ target \in Release /\ active \in Operation /\ Pending(op)
      /\ runtime \in RuntimeContracts /\ op.status = "manual_recovery_required"
      /\ target' = target /\ Slot' = Slot
      /\ (DbKnown \/ HalfMigrated(op)) /\ (CfKnown \/ HalfBootstrapped(op)) /\ Settles(pc)
  BY <1>1, <1>2, HolderKnows, ActiveFits
     DEF Fits, DataInv, Inv, TypeInv, TypeOK, target, Slot
<1>4. /\ pc \in DatabaseLabel => op.database # None
      /\ pc \in ConfigurationLabel => op.configuration # None
  BY DEF Inv, TypeInv, HolderInv
<1>5. Floor'
  BY <1>1 DEF DataInv, Floor, Slot
<1>6. pc' \notin Working /\ Reaches(pc)' /\ pc' \in Holding \cup {"release"}
  BY <1>1 DEF Working, Holding, WorkerLabel, ApplyLabel, SwitchLabel, HandlerLabel, Reaches,
              MigrationLabel, MigratingLabel, MigratedLabel, BootstrappingLabel, PlannedLabel,
              EarlyLabel, ReconcileLabel
<1>7. CASE ResolveUncertainDatabase
  <2>1. op.database # None /\ op.database \in DatabaseTransition /\ UNCHANGED configured
        /\ pc = "resolve_uncertain_database" /\ pc' \in {"clear_database", "release"}
    BY <1>3, <1>4, <1>7 DEF ResolveUncertainDatabase, WriteRuntime, host, Record, DatabaseLabel
  <2>2. /\ runtime'.configuration = runtime.configuration
        /\ runtime'.database \in {runtime.database, op.database.before, op.database.after}
    BY <1>3, <1>7, <2>1
       DEF ResolveUncertainDatabase, WriteRuntime, RuntimeContracts, DatabaseTransition
  <2>3. pc' = "clear_database" =>
          LET outcome == DatabaseTransitionOutcome(base, target, applied)
          IN  outcome # "indeterminate"
              /\ runtime'.database = IF outcome = "target" THEN op.database.after
                                                           ELSE op.database.before
    BY <1>3, <1>7, <2>1
       DEF ResolveUncertainDatabase, WriteRuntime, RuntimeContracts, DatabaseTransition
  <2>4. pc' = "clear_database" => DbKnown'
    BY <1>1, <1>2, <2>1, <2>3, OutcomeData DEF DbKnown
  <2>5. HalfMigrated(op)' /\ (CfKnown' \/ HalfBootstrapped(op)')
    BY <1>1, <1>3, <2>1, <2>2 DEF HalfMigrated, CfKnown, HalfBootstrapped
  <2>6. Pending(op)'
    BY <1>1, <1>3, <2>1, <2>2 DEF Pending
  <2>7. Settles(pc)'
    BY <1>1, <1>3, <2>1, <2>4 DEF Settles, ReconcileLabel, ConfigurationLabel, SettledLabel
  <2> QED BY <1>1, <1>2, <1>5, <1>6, <2>5, <2>6, <2>7, HolderData
<1>8. CASE ResolveUncertainConfiguration
  <2>1. op.configuration # None /\ op.database = None /\ UNCHANGED runtime
        /\ pc' \in {"record_uncertain_configuration", "release"}
        /\ (pc' = "record_uncertain_configuration" =>
              configured' = Manifest[target].configuration)
    BY <1>3, <1>4, <1>8
       DEF ResolveUncertainConfiguration, RunBootstrap, ConfigurationLabel, Settles, durable
  <2>2. HalfBootstrapped(op)' /\ DbKnown'
    BY <1>1, <1>3, <2>1 DEF HalfBootstrapped, HalfMigrated, DbKnown
  <2>3. Pending(op)'
    BY <1>1, <1>3, <2>1 DEF Pending
  <2>4. Settles(pc)'
    BY <1>1, <1>2, <1>3, <2>1 DEF Settles, ReconcileLabel, ConfigurationLabel, SettledLabel
  <2> QED BY <1>1, <1>2, <1>5, <1>6, <2>2, <2>3, <2>4, HolderData
<1>9. CASE RecordUncertainConfiguration
  <2>1. op.configuration # None /\ op.database = None /\ UNCHANGED configured
        /\ op.configuration \in ConfigurationTransition
        /\ configured = Manifest[target].configuration
        /\ pc' \in {"clear_configuration", "release"}
    BY <1>3, <1>4, <1>9
       DEF RecordUncertainConfiguration, WriteRuntime, ConfigurationLabel, Settles, host, Record
  <2>2. /\ runtime'.database = runtime.database
        /\ runtime'.configuration \in {runtime.configuration, op.configuration.after}
        /\ (pc' = "clear_configuration" => runtime'.configuration = op.configuration.after)
    BY <1>3, <1>9, <2>1
       DEF RecordUncertainConfiguration, WriteRuntime, RuntimeContracts, ConfigurationTransition
  <2>3. HalfBootstrapped(op)' /\ DbKnown'
    BY <1>1, <1>3, <2>1, <2>2 DEF HalfBootstrapped, HalfMigrated, DbKnown
  <2>4. Pending(op)' /\ (pc' = "clear_configuration" => CfKnown')
    BY <1>1, <1>3, <2>1, <2>2 DEF Pending, CfKnown, target
  <2>5. Settles(pc)'
    BY <1>1, <1>2, <1>3, <2>1, <2>4 DEF Settles, ReconcileLabel, ConfigurationLabel, SettledLabel
  <2> QED BY <1>1, <1>2, <1>5, <1>6, <2>3, <2>4, <2>5, HolderData
<1> QED BY <1>7, <1>8, <1>9

\* reconcile clears a transition once it is decided.
LEMMA ClearData ==
  ASSUME Inv, OwnInv, DataInv, ClearDatabase \/ ClearConfiguration
  PROVE  DataInv'
<1>1. /\ pc \in {"clear_database", "clear_configuration"} /\ Still /\ UNCHANGED <<active, base>>
      /\ pc' \in {"resolve_uncertain_configuration", "reconcile_plan", "release"}
  BY DEF ClearDatabase, ClearConfiguration, WriteRecord, Resolve, Still, durable, host, process
<1>2. pc \in ReconcileLabel /\ pc \in Holding /\ pc \in HeldLabel
      /\ pc' \in Holding \cup {"release"} /\ pc' \notin Working
  BY <1>1 DEF ReconcileLabel, Holding, HeldLabel, Label, Working, WorkerLabel, ApplyLabel,
              SwitchLabel, HandlerLabel
<1>3. /\ op \in Record /\ active \in Operation /\ Pending(op)
      /\ op.status = "manual_recovery_required"
      /\ (DbKnown \/ HalfMigrated(op)) /\ (CfKnown \/ HalfBootstrapped(op)) /\ Settles(pc)
  BY <1>2, HolderKnows, ActiveFits DEF Fits, DataInv
<1>4. Reaches(pc)'
  BY <1>1 DEF Reaches, MigrationLabel, MigratingLabel, MigratedLabel, BootstrappingLabel,
              PlannedLabel, EarlyLabel
<1>5. CASE ClearDatabase
  <2> DEFINE r == [op EXCEPT !.database = None]
  <2>1. r.status = op.status /\ r.database = None /\ r.configuration = op.configuration
        /\ r.target = op.target
    BY <1>3 DEF Record
  <2>2. WriteRecord(r, Resolve, "release") /\ DbKnown
    BY <1>3, <1>5 DEF ClearDatabase, Settles
  <2> HIDE DEF r
  <2>3. /\ \A o \in Operation \ {active} : operations'[o] = operations[o]
        /\ (pc' = Resolve /\ op' = r) \/ (pc' = "release" /\ op' \in {op, r})
    BY <1>1, <1>2, <2>2, WriteMoves
  <2>4. CfKnown \/ HalfBootstrapped(op')
    BY <1>3, <2>1, <2>3 DEF HalfBootstrapped
  <2>5. Pending(op)'
    BY <1>1, <1>3, <2>1, <2>3 DEF Pending, Still, Slot
  <2>6. Settles(pc)'
    BY <1>1, <1>2, <1>3, <2>1, <2>3
       DEF Settles, Resolve, ReconcileLabel, ConfigurationLabel, SettledLabel, Still
  <2> QED BY <1>1, <1>2, <1>4, <2>2, <2>3, <2>4, <2>5, <2>6, RewriteData
<1>6. CASE ClearConfiguration /\ UNCHANGED operations
  <2>1. pc' \in {"reconcile_plan", "release"}
    BY <1>6 DEF ClearConfiguration, WriteRecord
  <2>2. CASE pc' = "release"
    <3>1. Reaches(pc')
      BY <2>2 DEF Reaches, MigrationLabel, MigratingLabel, MigratedLabel, BootstrappingLabel,
                  PlannedLabel, EarlyLabel
    <3>2. pc' \notin ReconcileLabel
      BY <2>2 DEF ReconcileLabel
    <3> QED BY <1>1, <1>2, <1>6, <3>1, <3>2, MoveData
  <2>3. CASE pc' = "reconcile_plan"
    <3>1. operations' = [operations EXCEPT ![active] = [op EXCEPT !.configuration = None]]
      BY <1>6, <2>3 DEF ClearConfiguration, WriteRecord
    <3>2. op.configuration = None
      BY <1>3, <1>6, <3>1 DEF op, Record, Inv, TypeInv, TypeOK
    <3>3. op.configuration # None
      BY <1>6 DEF Inv, TypeInv, HolderInv, ConfigurationLabel, ClearConfiguration
    <3> QED BY <3>2, <3>3
  <2> QED BY <2>1, <2>2, <2>3
<1>7. CASE ClearConfiguration /\ ~ UNCHANGED operations
  <2> DEFINE r == [op EXCEPT !.configuration = None]
  <2>1. r.status = op.status /\ r.database = op.database /\ r.configuration = None
        /\ r.target = op.target
    BY <1>3 DEF Record
  <2>2. WriteRecord(r, "reconcile_plan", "release") /\ CfKnown /\ op.database = None
    BY <1>3, <1>7 DEF ClearConfiguration, Settles, ConfigurationLabel
  <2> HIDE DEF r
  <2>3. /\ \A o \in Operation \ {active} : operations'[o] = operations[o]
        /\ (pc' = "reconcile_plan" /\ op' = r) \/ (pc' = "release" /\ op' \in {op, r})
    BY <1>1, <1>2, <2>2, WriteMoves
  <2>4. DbKnown \/ HalfMigrated(op')
    BY <1>3, <2>1, <2>3 DEF HalfMigrated
  <2>5. Pending(op)'
    BY <1>1, <1>3, <2>1, <2>3 DEF Pending, Still, Slot
  <2>6. Settles(pc)'
    BY <1>1, <1>2, <1>3, <2>1, <2>2, <2>3
       DEF Settles, ReconcileLabel, ConfigurationLabel, SettledLabel, Still
  <2> QED BY <1>1, <1>2, <1>4, <2>2, <2>3, <2>4, <2>5, <2>6, RewriteData
<1> QED BY <1>5, <1>6, <1>7

\* The steps of reconcile.
LEMMA ReconcileDataStep ==
  ASSUME ContractsExtend, Inv, OwnInv, DataInv, ReconcileStep
  PROVE  DataInv'
<1>1. CASE ReconcileReceipt \/ ReconcilePlan \/ ReconcileSwitch \/ ReconcileHealth
           \/ ReconcileRuntime \/ ReconcileLocator
  <2>1. pc \in ReconcileLabel /\ pc' \in ReconcileLabel \cup {"release"} /\ Still
        /\ UNCHANGED <<operations, active, base>>
    BY <1>1
       DEF ReconcileReceipt, ReconcilePlan, ReconcileSwitch, ReconcileHealth, ReconcileRuntime,
           ReconcileLocator, Observe, Recreate, WriteRuntime, WriteLocator, Resolve, Still,
           durable, host, process, ReconcileLabel, Inv, TypeInv, TypeOK, RuntimeContracts
  <2>2. pc \in Holding /\ pc' \in Holding \cup {"release"} /\ pc' \notin Working
    BY <2>1 DEF ReconcileLabel, Holding, Working, WorkerLabel, ApplyLabel, SwitchLabel,
                HandlerLabel
  <2>3. Settles(pc)
    BY DEF DataInv
  <2>4. Settles(pc')
    BY <1>1, <2>1, <2>3
       DEF ReconcileReceipt, ReconcilePlan, ReconcileSwitch, ReconcileHealth, ReconcileRuntime,
           ReconcileLocator, Observe, Recreate, WriteRuntime, WriteLocator, Resolve, Settles,
           ReconcileLabel, ConfigurationLabel, SettledLabel
  <2>5. Reaches(pc')
    BY <2>1 DEF Reaches, MigrationLabel, MigratingLabel, MigratedLabel, BootstrappingLabel,
                PlannedLabel, EarlyLabel, ReconcileLabel
  <2> QED BY <2>1, <2>2, <2>4, <2>5, MoveData
<1>2. CASE ResolveUncertainDatabase \/ ResolveUncertainConfiguration
           \/ RecordUncertainConfiguration
  BY <1>2, DecideData
<1>3. CASE ClearDatabase \/ ClearConfiguration
  BY <1>3, ClearData
<1>4. CASE Reconciled
  <2>1. pc \in Holding /\ "reconciled" \in Status /\ Enter("reconciled", "release", "release")
        /\ UNCHANGED <<durable, host, process>> /\ pc = "reconciled"
    BY <1>4 DEF Reconciled, Holding, ReconcileLabel, Status, Transitions
  <2>2. op.database = None /\ op.configuration = None
    BY <2>1 DEF DataInv, Settles, SettledLabel
  <2>3. DbKnown /\ CfKnown
    BY <2>1, <2>2, HolderKnows DEF HalfMigrated, HalfBootstrapped
  <2>4. Reaches("release") /\ "release" \notin ReconcileLabel /\ "release" \notin Working
        /\ "release" \in FailedLabel
    BY DEF Reaches, MigrationLabel, MigratingLabel, MigratedLabel, BootstrappingLabel,
           PlannedLabel, EarlyLabel, ReconcileLabel, Working, FailedLabel
  <2> QED BY <2>1, <2>3, <2>4, EnterData
<1> QED BY <1>1, <1>2, <1>3, <1>4 DEF ReconcileStep

\* The restart and its recovery keep the pending transitions of whoever they block.
LEMMA RecoveryData ==
  ASSUME Inv, OwnInv, DataInv, RecoveryStep
  PROVE  DataInv'
<1>1. /\ pc' \in {"recovering", "unlocked"} /\ Still
  BY DEF RecoveryStep, Restart, RecoverOperation, Serve, Still, durable, host
<1>2. pc' \notin Holding
  BY <1>1 DEF Holding, ReconcileLabel, Working, WorkerLabel, ApplyLabel, SwitchLabel,
              HandlerLabel
<1>3. CASE UNCHANGED operations
  BY <1>1, <1>2, <1>3, FreeData
<1>4. CASE ~ UNCHANGED operations
  <2>1. PICK o \in Operation :
          /\ Incomplete(operations[o])
          /\ operations' = [operations EXCEPT ![o].status = RecoveredStatus(operations[o])]
    BY <1>4 DEF RecoveryStep, Restart, RecoverOperation, Serve
  <2>2. operations \in [Operation -> Record]
    BY DEF Inv, TypeInv, TypeOK
  <2>3. /\ operations'[o].status = RecoveredStatus(operations[o])
        /\ operations'[o].database = operations[o].database
        /\ operations'[o].configuration = operations[o].configuration
        /\ operations'[o].target = operations[o].target
        /\ \A p \in Operation \ {o} : operations'[p] = operations[p]
    BY <2>1, <2>2 DEF Record
  <2>4. /\ HalfMigrated(operations[o]) => HalfMigrated(operations'[o])
        /\ HalfBootstrapped(operations[o]) => HalfBootstrapped(operations'[o])
    BY <2>3 DEF HalfMigrated, HalfBootstrapped, RecoveredStatus, PreSwitchRecovery
  <2>5. operations'[o].status \in Answerable => operations[o].status \in Answerable
    BY <2>1, <2>2, <2>3
       DEF RecoveredStatus, Answerable, Committed, Incomplete, PreSwitchRecovery, Status,
           Transitions, TerminalStates
  <2>6. \A p \in Operation : Pending(operations[p]) => Pending(operations[p])'
    <3> SUFFICES ASSUME NEW p \in Operation, Pending(operations[p])
                 PROVE  Pending(operations[p])'
      OBVIOUS
    <3>1. operations'[p].database = operations[p].database
          /\ operations'[p].configuration = operations[p].configuration
          /\ operations'[p].target = operations[p].target
      BY <2>3
    <3> QED BY <1>1, <3>1 DEF Pending, Still, Slot
  <2>7. \A p \in Operation :
          operations'[p].status \in Answerable => operations[p].status \in Answerable
    BY <2>3, <2>5
  <2>8. DbKnown \/ \E p \in Operation : HalfMigrated(operations'[p])
    BY <2>3, <2>4 DEF DataInv
  <2>9. CfKnown \/ \E p \in Operation : HalfBootstrapped(operations'[p])
    BY <2>3, <2>4 DEF DataInv
  <2>10. Reaches(pc)' /\ Settles(pc)' /\ pc' \notin Working
    BY <1>1 DEF Reaches, Settles, Working, WorkerLabel, ApplyLabel, SwitchLabel, HandlerLabel,
           MigrationLabel, MigratingLabel, MigratedLabel, BootstrappingLabel, PlannedLabel,
           EarlyLabel, ReconcileLabel, ConfigurationLabel, SettledLabel
  <2>11. Floor' /\ DbKnown' = DbKnown /\ CfKnown' = CfKnown
    BY <1>1, StillData DEF DataInv
  <2>12. \A p \in Operation : operations'[p].status \in Answerable => Pending(operations[p])'
    BY <2>6, <2>7 DEF DataInv
  <2> QED BY <2>8, <2>9, <2>10, <2>11, <2>12 DEF DataInv, HalfMigrated, HalfBootstrapped
<1> QED BY <1>3, <1>4

\* The holder, if there is one, stays where it is.
LEMMA IdleData ==
  ASSUME DataInv, Still, UNCHANGED <<operations, pc, active, base>>
  PROVE  DataInv'
<1>1. op' = op /\ target' = target /\ Applying' = Applying
  BY DEF op, target, Applying
<1>2. Reaches(pc)'
  BY <1>1, StillData DEF DataInv, Still, Reaches
<1>3. Settles(pc)'
  BY <1>1, StillData DEF DataInv, Still, Settles
<1>4. \A o \in Operation :
        /\ HalfMigrated(operations[o])' = HalfMigrated(operations[o])
        /\ HalfBootstrapped(operations[o])' = HalfBootstrapped(operations[o])
        /\ Pending(operations[o])' = Pending(operations[o])
  BY DEF HalfMigrated, HalfBootstrapped, Pending, Still, Slot
<1> QED BY <1>2, <1>3, <1>4, StillData DEF DataInv

\* A new operation has changed nothing yet, and its rollback target is PREVIOUS.
LEMMA AdmitData ==
  ASSUME Inv, OwnInv, DataInv, NEW o \in Operation, NEW kind \in Kind, NEW release \in Release,
         Admit(o, kind, release), kind = "rollback_previous" => release = slots.previous
  PROVE  DataInv'
<1> DEFINE r == NewRecord(kind, release)
<1>1. operations \in [Operation -> Record]
  BY DEF Inv, TypeInv, TypeOK
<1>2. \A p \in Operation : operations[p].status \notin Answerable
  BY DEF Admit, OwnInv, RecoveryBlocked, Settled, Answerable
<1>3. DbKnown /\ CfKnown /\ Floor
  BY <1>2 DEF DataInv, HalfMigrated, HalfBootstrapped, Answerable, Committed
<1>4. Still
  BY DEF Admit, Still, durable, host
<1>5. DbKnown' /\ CfKnown' /\ Floor'
  BY <1>3, <1>4, StillData
<1>6. /\ r.status = "idle" /\ r.kind = kind /\ r.target = release
      /\ r.database = None /\ r.configuration = None
  BY DEF NewRecord
<1>7. [r EXCEPT !.status = "failed_pre_switch"].status = "failed_pre_switch"
  BY DEF NewRecord
<1>8. \/ operations' = [operations EXCEPT ![o] = r] /\ active' = o /\ pc' = "begin"
      \/ operations' = [operations EXCEPT ![o] = [r EXCEPT !.status = "failed_pre_switch"]]
         /\ pc' = "unlocked"
      \/ operations' = operations /\ pc' = "unlocked"
      \/ operations' = [operations EXCEPT ![o] = r] /\ pc' = "unlocked"
  BY DEF Admit
<1> HIDE DEF r
<1>9. /\ \A p \in Operation \ {o} : operations'[p] = operations[p]
      /\ operations'[o].status \in {operations[o].status, "idle", "failed_pre_switch"}
      /\ (pc' = "begin" => operations'[o] = r /\ active' = o)
      /\ pc' \in {"begin", "unlocked"}
  BY <1>1, <1>6, <1>7, <1>8
<1>10. \A p \in Operation : operations'[p].status \notin Answerable
  BY <1>2, <1>9 DEF Answerable, Committed
<1>11. CASE pc' = "unlocked"
  <2>1. Reaches(pc)' /\ Settles(pc)' /\ pc' \notin Working
    BY <1>11 DEF Reaches, Settles, Working, WorkerLabel, ApplyLabel, SwitchLabel, HandlerLabel,
           MigrationLabel, MigratingLabel, MigratedLabel, BootstrappingLabel, PlannedLabel,
           EarlyLabel, ReconcileLabel, ConfigurationLabel, SettledLabel
  <2> QED BY <1>5, <1>10, <2>1 DEF DataInv
<1>12. CASE pc' = "begin"
  <2>1. op' = r
    BY <1>9, <1>12 DEF op
  <2>2. Settles(pc)'
    BY <1>12 DEF Settles, ReconcileLabel, ConfigurationLabel, SettledLabel
  <2>3. Reaches(pc)'
    BY <1>4, <1>6, <1>12, <2>1
       DEF Reaches, Still, target, Applying, Kind,
           MigrationLabel, MigratingLabel, MigratedLabel, BootstrappingLabel, PlannedLabel,
           EarlyLabel
  <2>4. Pending(operations[o])'
    BY <1>6, <1>9, <1>12 DEF Pending
  <2>5. \A p \in Operation : p = active' => Pending(operations[p])'
    BY <1>9, <1>12, <2>4
  <2> QED BY <1>5, <1>10, <2>2, <2>3, <2>5 DEF DataInv
<1> QED BY <1>9, <1>11, <1>12

\* Operations begin, processes die, the world moves.
LEMMA EnvironmentData ==
  ASSUME JobInv, Inv, OwnInv, DataInv, Environment
  PROVE  DataInv'
<1>1. CASE StartApply \/ StartRollback
  <2>1. slots \in [current : Release, previous : Release \cup {None}, history : SUBSET Release]
    BY DEF Inv, TypeInv, TypeOK
  <2> QED BY <1>1, <2>1, AdmitData DEF StartApply, StartRollback, Kind
<1>2. CASE StartReconcile
  <2>1. Still /\ UNCHANGED operations /\ pc' = "reconcile" /\ base' = slots.current
    BY <1>2 DEF StartReconcile, Still, durable, host
  <2>2. Reaches(pc)' /\ Settles(pc)' /\ pc' \notin Working
    BY <2>1 DEF Reaches, Settles, Still, Working, WorkerLabel, ApplyLabel, SwitchLabel, HandlerLabel,
           MigrationLabel, MigratingLabel, MigratedLabel, BootstrappingLabel, PlannedLabel,
           EarlyLabel, ReconcileLabel, ConfigurationLabel, SettledLabel
  <2>3. \A o \in Operation :
          /\ HalfMigrated(operations[o])' = HalfMigrated(operations[o])
          /\ HalfBootstrapped(operations[o])' = HalfBootstrapped(operations[o])
          /\ Pending(operations[o])' = Pending(operations[o])
    BY <2>1 DEF HalfMigrated, HalfBootstrapped, Pending, Still, Slot
  <2> QED BY <2>1, <2>2, <2>3, StillData DEF DataInv
<1>3. CASE KillAgent /\ pc \in WorkerLabel \cup {"recovering"}
  <2>1. Still /\ UNCHANGED operations /\ pc' = "unlocked"
    BY <1>3 DEF KillAgent, Crash, Still, durable, host
  <2>2. pc' \notin Holding
    BY <2>1 DEF Holding, ReconcileLabel, Working, WorkerLabel, ApplyLabel, SwitchLabel,
                HandlerLabel
  <2> QED BY <2>1, <2>2, FreeData
<1>4. CASE KillReconcile
  <2>1. Still /\ UNCHANGED operations /\ pc' = "unlocked"
    BY <1>4 DEF KillReconcile, Crash, Still, durable, host
  <2>2. pc' \notin Holding
    BY <2>1 DEF Holding, ReconcileLabel, Working, WorkerLabel, ApplyLabel, SwitchLabel,
                HandlerLabel
  <2> QED BY <2>1, <2>2, FreeData
<1>5. CASE (KillAgent /\ pc \notin WorkerLabel \cup {"recovering"}) \/ EnablePlugins
  <2>1. Still /\ UNCHANGED <<operations, pc, active, base>>
    BY <1>5 DEF KillAgent, Crash, EnablePlugins, Still, durable, host, process
  <2> QED BY <2>1, IdleData
<1>6. ~ JobApplies
  BY DEF JobApplies, JobInv
<1> QED BY <1>1, <1>2, <1>3, <1>4, <1>5, <1>6 DEF Environment

\* Every step keeps the contracts known or pending.
LEMMA DataStep ==
  ContractsExtend /\ JobInv /\ Inv /\ (OneFailed => OwnInv) /\ (OneFailed => DataInv) /\ [Next]_vars
    => (OneFailed => DataInv)'
<1> SUFFICES ASSUME ContractsExtend, JobInv, Inv, OneFailed => OwnInv, OneFailed => DataInv,
                    [Next]_vars, OneFailed'
             PROVE  DataInv'
  OBVIOUS
<1>1. OneFailed
  BY StillOneFailed
<1>2. OwnInv /\ DataInv
  BY <1>1
<1>3. CASE UNCHANGED vars
  BY <1>2, <1>3, IdleData DEF vars, durable, host, process, Still
<1> QED
  BY <1>2, <1>3, SharedData, ApplyData, HandlerData, ReconcileDataStep, RecoveryData,
     EnvironmentData DEF Next

\* The contracts an adopted instance begins with are fact.
LEMMA InitData == ContractsExtend /\ Init => DataInv
<1> SUFFICES ASSUME ContractsExtend, Init PROVE DataInv
  OBVIOUS
<1>1. locator \in Release /\ Describes(Manifest[locator].database, Manifest[locator].migrations)
      /\ Schema[Manifest[locator].database] \subseteq Manifest[locator].migrations
  BY ExecutorAssumption, SchemaTyped DEF Init, ContractsExtend
<1>2. DbKnown /\ CfKnown
  BY <1>1 DEF Init, DbKnown, CfKnown
<1>3. Slot = {locator}
  BY <1>1, ExecutorAssumption DEF Init, Slot
<1>4. Floor
  BY <1>1, <1>3 DEF Init, Floor
<1>5. \A o \in Operation : operations[o].status = "absent"
  BY DEF Init, NewRecord
<1>6. pc = "unlocked"
  BY DEF Init
<1>7. Reaches(pc) /\ Settles(pc) /\ pc \notin Working
  BY <1>6 DEF Reaches, Settles, Working, WorkerLabel, ApplyLabel, SwitchLabel, HandlerLabel,
           MigrationLabel, MigratingLabel, MigratedLabel, BootstrappingLabel, PlannedLabel,
           EarlyLabel, ReconcileLabel, ConfigurationLabel, SettledLabel
<1> QED BY <1>2, <1>4, <1>5, <1>7 DEF DataInv, Answerable, Committed

\* Without jobs that outlive their client, as long as at most one write failed, the
\* recorded contracts are fact or pending.
THEOREM DataCorrect ==
  ASSUME ~ JobsOutliveClient, ContractsExtend
  PROVE  Spec => [](OneFailed => DataInv)
<1>1. Init => DataInv /\ JobInv
  BY InitData DEF Init, JobInv
<1>2. Spec => [](OneFailed => OwnInv)
  BY OwnCorrect
<1>3. JobInv /\ Inv /\ (OneFailed => OwnInv) /\ (OneFailed => DataInv) /\ [Next]_vars
        => (OneFailed => DataInv)'
  BY DataStep
<1> QED BY <1>1, <1>2, <1>3, NoStrayJob, JournalCorrect, PTL DEF Spec

\* What is not fact is pending, with both ends of the transition on record.
THEOREM UncertaintyIsPending ==
  ASSUME ~ JobsOutliveClient, ContractsExtend
  PROVE  Spec => [](OneFailed => UncertainContractIsPending)
<1>1. ASSUME Inv, DataInv PROVE UncertainContractIsPending
  <2>1. ASSUME NEW o \in Operation, HalfMigrated(operations[o])
        PROVE  /\ operations[o].status \in {"migrating", "manual_recovery_required"}
               /\ operations[o].database # None
               /\ runtime.database \in {operations[o].database.before,
                                        operations[o].database.after}
    BY <1>1, <2>1 DEF HalfMigrated, DataInv, Pending, Answerable, Committed
  <2>2. ASSUME NEW o \in Operation, HalfBootstrapped(operations[o])
        PROVE  /\ operations[o].status \in {"bootstrapping", "manual_recovery_required"}
               /\ operations[o].configuration # None
               /\ runtime.configuration \in {operations[o].configuration.before,
                                             operations[o].configuration.after}
    BY <1>1, <2>2 DEF HalfBootstrapped, DataInv, Pending, Answerable, Committed
  <2> QED BY <1>1, <2>1, <2>2 DEF UncertainContractIsPending, DataInv, DbKnown, CfKnown
<1> QED BY <1>1, DataCorrect, JournalCorrect, PTL

-----------------------------------------------------------------------------
(* CURRENT accepts the recorded contracts, or somebody answers for it.       *)

\* Labels of a worker that has read CURRENT and not replaced it.
UnpromotedLabel == (ApplyLabel \cup SwitchLabel) \ ({"begin"} \cup Promoted)

RestoredLabel == {"rolling_back", "restore", "verify_restored", "record_restored", "restored"}

RebuildLabel ==
  {"reconcile_switch", "reconcile_health", "reconcile_runtime", "reconcile_locator",
   "reconciled"}

\* What a holder at a label knows of the release it began with and of CURRENT.  A
\* rollback changes no contract, so both accept them throughout.
Allows(label) ==
  /\ label \in UnpromotedLabel => slots.current = base
  /\ label \in Working \ {"begin"} => slots.current = base \/ Accepts(slots.current)
  /\ label \in Working /\ ~ Applying => Accepts(slots.current)
  /\ label \in Working \ {"begin"} /\ ~ Applying => Accepts(base)
  /\ label \in {"rolling_back", "restore"} => Accepts(base)
  /\ label \in RestoredLabel \cup Promoted => Accepts(slots.current)
  /\ label \in RebuildLabel => Accepts(base)

AcceptInv ==
  /\ Accepts(slots.current) \/ \E o \in Operation : operations[o].status \in Answerable
  /\ Allows(pc)

\* Neither the slots nor the recorded contracts change.
Kept ==
  /\ UNCHANGED slots
  /\ runtime'.database = runtime.database /\ runtime'.configuration = runtime.configuration

\* The same contracts are accepted by the same releases.
LEMMA KeptAccepts == Kept => \A r : Accepts(r)' = Accepts(r)
BY DEF Kept, Accepts

\* While a holder works only his operation can answer.
LEMMA HolderAccepts ==
  ASSUME Inv, OwnInv, AcceptInv, pc \in Holding
  PROVE  /\ active \in Operation /\ op \in Record /\ op = operations[active]
         /\ op.status \in Answerable \/ Accepts(slots.current)
         /\ Fits(pc, op) /\ Allows(pc)
<1>1. pc \in HeldLabel
  BY DEF Holding, Working, HeldLabel, Label, WorkerLabel, ApplyLabel, SwitchLabel, HandlerLabel,
         ReconcileLabel
<1>2. active \in Operation /\ op \in Record /\ op = operations[active] /\ Fits(pc, op)
  BY <1>1, ActiveFits DEF op
<1>3. pc \in ReconcileLabel => op.status = "manual_recovery_required"
  BY <1>2 DEF Fits
<1>4. (\E o \in Operation : operations[o].status \in Answerable) => op.status \in Answerable
  BY <1>2, <1>3 DEF OwnInv, Holding, Answerable
<1> QED BY <1>2, <1>4 DEF AcceptInv

\* The holder goes on without touching slots or contracts.
LEMMA KeepAccept ==
  ASSUME Kept, UNCHANGED base, op'.kind = op.kind,
         active' \in Operation, op' = operations'[active'],
         op'.status \in Answerable \/ Accepts(slots.current), Allows(pc')
  PROVE  AcceptInv'
<1>1. Applying' = Applying
  BY DEF Applying
<1>2. Allows(pc)'
  BY <1>1, KeptAccepts DEF Allows, Kept
<1>3. Accepts(slots.current)' = Accepts(slots.current)
  BY KeptAccepts DEF Kept
<1> QED BY <1>2, <1>3 DEF AcceptInv

\* The holder moves on and writes nothing of this.
LEMMA MoveAccept ==
  ASSUME Inv, OwnInv, AcceptInv, pc \in Holding, Kept, UNCHANGED <<operations, active, base>>,
         Allows(pc')
  PROVE  AcceptInv'
<1>1. op' = op
  BY DEF op
<1> QED BY <1>1, HolderAccepts, KeepAccept DEF op

\* The holder enters a status.
LEMMA EnterAccept ==
  ASSUME Inv, OwnInv, AcceptInv, pc \in Holding, NEW status \in Status,
         NEW next, NEW failed, Enter(status, next, failed),
         UNCHANGED <<durable, host, process>>,
         CanEnter(op, status) /\ op.status \in Answerable
           => status \in Answerable \/ Accepts(slots.current),
         Allows(next), Allows(failed)
  PROVE  AcceptInv'
<1>1. pc \in HeldLabel
  BY DEF Holding, Working, HeldLabel, Label, WorkerLabel, ApplyLabel, SwitchLabel, HandlerLabel,
         ReconcileLabel
<1>2. Kept /\ UNCHANGED <<active, base>>
  BY DEF Kept, durable, process
<1>3. /\ op'.kind = op.kind /\ pc' \in {next, failed}
      /\ op'.status = op.status \/ (CanEnter(op, status) /\ op'.status = status)
  BY <1>1, <1>2, EnterMoves
<1>4. op'.status \in Answerable \/ Accepts(slots.current)
  BY <1>3, HolderAccepts
<1>5. Allows(pc')
  BY <1>3
<1>6. active' \in Operation /\ op' = operations'[active']
  BY <1>2, HolderAccepts DEF op
<1> QED BY <1>2, <1>3, <1>4, <1>5, <1>6, KeepAccept

\* The holder writes its record, the status unchanged.
LEMMA RecordAccept ==
  ASSUME Inv, OwnInv, AcceptInv, pc \in Holding, NEW r, NEW next, NEW failed,
         WriteRecord(r, next, failed), UNCHANGED <<durable, host, process>>,
         r.status = op.status, r.kind = op.kind, Allows(next), Allows(failed)
  PROVE  AcceptInv'
<1>1. pc \in HeldLabel
  BY DEF Holding, Working, HeldLabel, Label, WorkerLabel, ApplyLabel, SwitchLabel, HandlerLabel,
         ReconcileLabel
<1>2. Kept /\ UNCHANGED <<active, base>>
  BY DEF Kept, durable, process
<1>3. op'.kind = op.kind /\ pc' \in {next, failed} /\ op'.status = op.status
  BY <1>1, <1>2, WriteMoves
<1>4. op'.status \in Answerable \/ Accepts(slots.current)
  BY <1>3, HolderAccepts
<1>5. Allows(pc')
  BY <1>3
<1>6. active' \in Operation /\ op' = operations'[active']
  BY <1>2, HolderAccepts DEF op
<1> QED BY <1>2, <1>3, <1>4, <1>5, <1>6, KeepAccept

\* A contract is recorded by somebody who answers for it.
LEMMA ContractAccept ==
  ASSUME Inv, OwnInv, AcceptInv, pc \in Holding, UNCHANGED <<operations, active, base, slots>>,
         op.status \in Answerable, pc \in Working => Applying /\ slots.current = base,
         pc' \in UnpromotedLabel => pc \in Working,
         pc' \in Working => pc \in Working,
         pc' \notin RestoredLabel \cup Promoted \cup RebuildLabel
  PROVE  AcceptInv'
<1>1. op' = op /\ active \in Operation /\ op = operations[active]
  BY HolderAccepts DEF op
<1>2. Applying' = Applying
  BY <1>1 DEF Applying
<1>3. Allows(pc)'
  BY <1>2 DEF Allows, RestoredLabel
<1> QED BY <1>1, <1>3 DEF AcceptInv

\* The promoted target was planned for the live contracts.
LEMMA PromoteAccept ==
  ASSUME Inv, OwnInv, DataInv, AcceptInv, Promote
  PROVE  AcceptInv'
<1> USE DEF Working, WorkerLabel, ApplyLabel, SwitchLabel, HandlerLabel, Holding
<1>1. /\ pc = "promote" /\ UNCHANGED <<operations, runtime, active, base>> /\ op' = op
      /\ pc' \in {"publish", "error"}
  BY DEF Promote, WriteSlots, process, op
<1>2. Accepts(target) /\ (~ Applying => target = slots.previous)
  BY <1>1 DEF DataInv, Reaches, MigratedLabel, PlannedLabel
<1>3. (slots' = slots /\ pc' = "error") \/ slots'.current = target
  BY <1>2 DEF Promote, WriteSlots
<1>4. /\ op.status \in Answerable \/ Accepts(slots.current)
      /\ slots.current = base /\ (~ Applying => Accepts(slots.current) /\ Accepts(base))
      /\ active \in Operation
  BY <1>1, HolderAccepts DEF Allows, UnpromotedLabel, Promoted
<1>5. \A r : Accepts(r)' = Accepts(r)
  BY <1>1 DEF Accepts
<1>6. Applying' = Applying
  BY <1>1 DEF Applying
<1>7. Allows(pc)'
  BY <1>1, <1>2, <1>3, <1>4, <1>5, <1>6
     DEF Allows, UnpromotedLabel, RestoredLabel, RebuildLabel, Promoted
<1>8. op = operations[active]
  BY DEF op
<1>9. Accepts(slots.current)' \/ op.status \in Answerable
  <2>1. CASE slots' = slots
    BY <1>4, <1>5, <2>1
  <2>2. CASE slots'.current = target
    BY <1>2, <1>5, <2>2
  <2> QED BY <1>3, <2>1, <2>2
<1> QED BY <1>1, <1>4, <1>7, <1>8, <1>9 DEF AcceptInv

\* The steps of a worker that apply and rollback share.
LEMMA SharedAccept ==
  ASSUME Inv, OwnInv, DataInv, AcceptInv, SharedStep
  PROVE  AcceptInv'
<1> USE DEF Working, WorkerLabel, ApplyLabel, SwitchLabel, HandlerLabel, Holding
<1>0. Allows(pc) /\ (pc \in Holding => op.status \in Answerable \/ Accepts(slots.current))
  BY HolderAccepts DEF AcceptInv
<1>1. CASE Begin
  <2>1. /\ pc = "begin" /\ Kept /\ UNCHANGED <<operations, active>> /\ base' = slots.current
        /\ pc' \in {"preflight", "worker_error"} /\ op' = op
    BY <1>1 DEF Begin, Kept, durable, op
  <2>2. Applying' = Applying /\ Accepts(slots.current)' = Accepts(slots.current)
    BY <2>1, KeptAccepts DEF Applying, Kept
  <2>3. Accepts(base)' = Accepts(slots.current)
    BY <2>1 DEF Accepts, Kept
  <2>4. Allows(pc)'
    BY <1>0, <2>1, <2>2, <2>3
       DEF Allows, Kept, UnpromotedLabel, RestoredLabel, RebuildLabel, Promoted
  <2> QED BY <2>1, <2>2, <2>4 DEF AcceptInv
<1>2. CASE EnterPreflight \/ EnterFetching \/ EnterVerifying \/ EnterPulling
           \/ EnterSwitching \/ EnterVerifyingHealth \/ PublishFailed \/ Finish
  <2>1. PICK status \in Status, next \in Holding \cup {"release"} :
          /\ Enter(status, next, "error") /\ UNCHANGED <<durable, host, process>>
          /\ pc \in Working \ {"begin"}
          /\ status \in Answerable \cup PreSwitchRecovery \/ pc = "finish"
          /\ next \in UnpromotedLabel \cup {"release"}
          /\ next \in UnpromotedLabel => pc \in UnpromotedLabel
    BY <1>2
       DEF EnterPreflight, EnterFetching, EnterVerifying, EnterPulling, EnterSwitching,
           EnterVerifyingHealth, PublishFailed, Finish, EnterStatus, Status, Transitions,
           Answerable, Committed, PreSwitchRecovery, UnpromotedLabel, Promoted
  <2>2. Allows("error") /\ Allows(next)
    BY <1>0, <2>1
       DEF Allows, UnpromotedLabel, RestoredLabel, RebuildLabel, Promoted
  <2>3. CanEnter(op, status) /\ op.status \in Answerable /\ pc # "finish" => status \in Answerable
    BY <2>1 DEF CanEnter, Status, Transitions, Answerable, Committed, PreSwitchRecovery
  <2>4. pc = "finish" => Accepts(slots.current)
    BY <1>0 DEF Allows, Promoted
  <2>5. pc \in Holding
    BY <2>1
  <2> HIDE DEF Working, Holding
  <2> QED BY <2>1, <2>2, <2>3, <2>4, <2>5, EnterAccept
<1>3. CASE CheckHost \/ Fetch \/ VerifyRelease \/ InspectPlugins \/ Plan \/ Pull \/ Switch
           \/ VerifyHealth \/ RecordPreviousPlugins \/ PublishLocator
  <2>1. pc \in Working /\ Kept /\ UNCHANGED <<operations, active, base>>
    BY <1>3
       DEF CheckHost, Fetch, VerifyRelease, InspectPlugins, Plan, Pull, Switch, VerifyHealth,
           RecordPreviousPlugins, PublishLocator, Observe, RecordPlugins, WriteRuntime,
           Recreate, WriteLocator, Kept, durable, host, process,
           Inv, TypeInv, TypeOK, RuntimeContracts
  <2>2. Allows(pc')
    BY <1>0, <1>3
       DEF CheckHost, Fetch, VerifyRelease, InspectPlugins, Plan, Pull, Switch, VerifyHealth,
           RecordPreviousPlugins, PublishLocator, Observe, RecordPlugins, WriteRuntime,
           Recreate, WriteLocator, Allows, UnpromotedLabel, RestoredLabel, RebuildLabel,
           Promoted
  <2> QED BY <2>1, <2>2, MoveAccept
<1>4. CASE Promote
  BY <1>4, PromoteAccept
<1> QED BY <1>1, <1>2, <1>3, <1>4 DEF SharedStep

\* The steps of apply alone.
LEMMA ApplyAccept ==
  ASSUME Inv, OwnInv, DataInv, AcceptInv, ApplyStep
  PROVE  AcceptInv'
<1> USE DEF Working, WorkerLabel, ApplyLabel, SwitchLabel, HandlerLabel, Holding
<1>0. Allows(pc)
  BY DEF AcceptInv
<1>1. CASE EnterBackup \/ EnterMigrating \/ EnterBootstrapping
  <2>1. PICK status \in Status, next \in Working :
          /\ Enter(status, next, "error") /\ UNCHANGED <<durable, host, process>>
          /\ pc \in UnpromotedLabel /\ next \in UnpromotedLabel
          /\ status \in Answerable \cup PreSwitchRecovery
    BY <1>1
       DEF EnterBackup, EnterMigrating, EnterBootstrapping, EnterStatus, Status, Transitions,
           Answerable, Committed, PreSwitchRecovery, UnpromotedLabel, Promoted
  <2>2. Allows("error") /\ Allows(next)
    BY <1>0, <2>1
       DEF Allows, UnpromotedLabel, RestoredLabel, RebuildLabel, Promoted
  <2>3. CanEnter(op, status) /\ op.status \in Answerable => status \in Answerable
    BY <2>1 DEF CanEnter, Status, Transitions, Answerable, Committed, PreSwitchRecovery
  <2>4. pc \in Holding
    BY <2>1 DEF UnpromotedLabel
  <2> HIDE DEF Working, Holding
  <2> QED BY <2>1, <2>2, <2>3, <2>4, EnterAccept
<1>2. CASE BindRecoveryTarget \/ MarkDatabasePending \/ ResolveDatabase
           \/ MarkConfigurationPending \/ ResolveConfiguration
  <2>1. pc \in UnpromotedLabel /\ UNCHANGED <<durable, host, process>> /\ pc \in Holding
    BY <1>2 DEF BindRecoveryTarget, MarkDatabasePending, ResolveDatabase,
                MarkConfigurationPending, ResolveConfiguration, UnpromotedLabel, Promoted
  <2>2. Allows("error") /\ \A next \in UnpromotedLabel : Allows(next)
    BY <1>0, <2>1
       DEF Allows, UnpromotedLabel, RestoredLabel, RebuildLabel, Promoted
  <2>3. {"inspect", "migrating", "mark_configuration", "bootstrapping", "replan"}
          \subseteq UnpromotedLabel
    BY DEF UnpromotedLabel, Promoted
  <2>4. op \in Record
    BY <2>1, HolderAccepts
  <2> HIDE DEF Working, Holding
  <2>5. CASE BindRecoveryTarget
    BY <2>1, <2>2, <2>3, <2>4, <2>5, RecordAccept DEF BindRecoveryTarget, Record
  <2>6. CASE MarkDatabasePending
    BY <2>1, <2>2, <2>3, <2>4, <2>6, RecordAccept DEF MarkDatabasePending, Record
  <2>7. CASE ResolveDatabase
    BY <2>1, <2>2, <2>3, <2>4, <2>7, RecordAccept DEF ResolveDatabase, Record
  <2>8. CASE MarkConfigurationPending
    BY <2>1, <2>2, <2>3, <2>4, <2>8, RecordAccept DEF MarkConfigurationPending, Record
  <2>9. CASE ResolveConfiguration
    BY <2>1, <2>2, <2>3, <2>4, <2>9, RecordAccept DEF ResolveConfiguration, Record
  <2> QED BY <1>2, <2>5, <2>6, <2>7, <2>8, <2>9
<1>3. CASE BackupDatabase \/ QuiesceWriters \/ Migrate \/ Bootstrap \/ RecordTargetPlugins
           \/ Replan
  <2>1. pc \in Working /\ Kept /\ UNCHANGED <<operations, active, base>>
    BY <1>3
       DEF BackupDatabase, QuiesceWriters, Migrate, Bootstrap, RecordTargetPlugins, Replan,
           Observe, RecordPlugins, WriteRuntime, RunBootstrap, Kept, durable, host, process,
           Inv, TypeInv, TypeOK, RuntimeContracts
  <2>2. Allows(pc')
    BY <1>0, <1>3
       DEF BackupDatabase, QuiesceWriters, Migrate, Bootstrap, RecordTargetPlugins, Replan,
           Observe, RecordPlugins, WriteRuntime, RunBootstrap, Allows, UnpromotedLabel,
           RestoredLabel, RebuildLabel, Promoted
  <2> QED BY <2>1, <2>2, MoveAccept
<1>4. CASE RecordDatabaseContract \/ RecordConfigurationContract
  <2>1. /\ pc \in {"record_database", "record_configuration"}
        /\ pc' \in {"resolve_database", "record_target_plugins", "error"}
        /\ UNCHANGED <<operations, active, base, slots>>
    BY <1>4 DEF RecordDatabaseContract, RecordConfigurationContract, WriteRuntime, process
  <2>2. Fits(pc, op) /\ op.status \in Answerable /\ Applying
    BY <2>1, HolderAccepts
       DEF Fits, MigratingLabel, BootstrappingLabel, Answerable, Committed, Applying
  <2>3. slots.current = base
    BY <1>0, <2>1 DEF Allows, UnpromotedLabel, Promoted
  <2>4. pc' \notin RestoredLabel \cup Promoted \cup RebuildLabel /\ pc \in Working
    BY <2>1 DEF RestoredLabel, Promoted, RebuildLabel
  <2> QED BY <2>1, <2>2, <2>3, <2>4, ContractAccept
<1> QED BY <1>1, <1>2, <1>3, <1>4 DEF ApplyStep

\* The exception handlers and the end of a worker.
LEMMA HandlerAccept ==
  ASSUME Inv, OwnInv, AcceptInv, HandlerStep
  PROVE  AcceptInv'
<1> USE DEF Working, WorkerLabel, ApplyLabel, SwitchLabel, HandlerLabel, Holding
<1>0. Allows(pc) /\ (pc \in Working => Ends(pc, op))
  BY DEF AcceptInv, OwnInv
<1>1. CASE ReleaseLock
  <2>1. Kept /\ UNCHANGED operations /\ pc' = "unlocked"
    BY <1>1 DEF ReleaseLock, Kept, durable
  <2>2. Allows(pc)'
    BY <2>1 DEF Allows, UnpromotedLabel, RestoredLabel, RebuildLabel, Promoted
  <2> QED BY <2>1, <2>2, KeptAccepts DEF AcceptInv, Kept
<1>2. CASE Restore \/ VerifyRestored \/ RecordRestoredPlugins
  <2>1. pc \in Working /\ Kept /\ UNCHANGED <<operations, active, base>>
    BY <1>2
       DEF Restore, VerifyRestored, RecordRestoredPlugins, Recreate, Observe, RecordPlugins,
           WriteRuntime, Kept, durable, host, process, Inv, TypeInv, TypeOK, RuntimeContracts
  <2>2. Allows(pc')
    BY <1>0, <1>2
       DEF Restore, VerifyRestored, RecordRestoredPlugins, Recreate, Observe, RecordPlugins,
           WriteRuntime, Allows, UnpromotedLabel, RestoredLabel, RebuildLabel, Promoted
  <2> QED BY <2>1, <2>2, MoveAccept
<1>3. CASE (ApplyFailed \/ RollbackFailed) /\ pc' = "rolling_back" /\ UNCHANGED operations
  <2>1. pc = "error" /\ Kept /\ UNCHANGED <<operations, active, base>> /\ pc \in Working
    BY <1>3 DEF ApplyFailed, RollbackFailed, Kept, durable, process
  <2>2. Accepts(base)
    <3>1. CASE ~ Applying
      BY <1>0, <2>1, <3>1 DEF Allows
    <3>2. CASE Applying /\ PlanAllowed(runtime, base)
      BY <3>2 DEF PlanAllowed, Accepts
    <3>3. CASE Applying /\ ~ PlanAllowed(runtime, base)
      <4>1. PICK status \in {"manual_recovery_required", "failed_pre_switch"} :
              Enter(status, "release", "worker_error")
        BY <1>3, <3>3 DEF ApplyFailed, RollbackFailed
      <4> QED BY <1>3, <4>1 DEF Enter, WriteRecord
    <3> QED BY <3>1, <3>2, <3>3
  <2>3. Accepts(slots.current)
    BY <1>0, <2>1, <2>2 DEF Allows
  <2>4. Allows("rolling_back")
    BY <1>0, <2>1, <2>2, <2>3
       DEF Allows, UnpromotedLabel, RestoredLabel, RebuildLabel, Promoted
  <2> QED BY <1>3, <2>1, <2>4, MoveAccept
<1>4. CASE WorkerFailed /\ op.status \in TerminalStates
  <2>1. pc \in Working /\ Kept /\ UNCHANGED <<operations, active, base>> /\ pc' = "release"
    BY <1>4 DEF WorkerFailed, Kept, durable, process
  <2>2. Allows("release")
    BY DEF Allows, UnpromotedLabel, RestoredLabel, RebuildLabel, Promoted
  <2> QED BY <2>1, <2>2, MoveAccept
<1>5. ASSUME NEW status \in Status, NEW next, NEW failed, Enter(status, next, failed),
             UNCHANGED <<durable, host, process>>, pc \in Working \ {"begin"},
             next \in {"release", "restore"}, failed \in FailedLabel \ {"error"},
             next = "restore" => pc = "rolling_back",
             \/ status \in Answerable
             \/ status = "failed_pre_switch"
             \/ Accepts(slots.current)
      PROVE  AcceptInv'
  <2>1. Allows(next) /\ Allows(failed)
    BY <1>0, <1>5
       DEF Allows, UnpromotedLabel, RestoredLabel, RebuildLabel, Promoted, FailedLabel
  <2>2. CanEnter(op, status) /\ op.status \in Answerable
          => status \in Answerable \/ Accepts(slots.current)
    BY <1>5 DEF CanEnter, Status, Transitions, Answerable, Committed
  <2>3. pc \in Holding
    BY <1>5
  <2> HIDE DEF Working, Holding
  <2> QED BY <1>5, <2>1, <2>2, <2>3, EnterAccept
<1>6. CASE Incompatible \/ EnterRollingBack \/ FinishRestore \/ RestoreFailed
           \/ (WorkerFailed /\ op.status \notin TerminalStates)
           \/ ((ApplyFailed \/ RollbackFailed)
                 /\ ~ (pc' = "rolling_back" /\ UNCHANGED operations))
  <2>1. UNCHANGED <<durable, host, process>> /\ pc \in Working \ {"begin"}
    BY <1>6
       DEF Incompatible, EnterRollingBack, FinishRestore, RestoreFailed, WorkerFailed,
           ApplyFailed, RollbackFailed
  <2>2. {"manual_recovery_required", "failed_pre_switch", "rolling_back", "rolled_back"}
          \subseteq Status
        /\ {"manual_recovery_required", "rolling_back"} \subseteq Answerable
        /\ {"worker_error", "restore_error", "release"} \subseteq FailedLabel \ {"error"}
    BY DEF Status, Transitions, Answerable, Committed, FailedLabel
  <2>3. pc = "restored" => Accepts(slots.current)
    BY <1>0 DEF Allows, RestoredLabel
  <2>4. CASE Incompatible \/ RestoreFailed
    BY <1>5, <2>1, <2>2, <2>4 DEF Incompatible, RestoreFailed
  <2>5. CASE EnterRollingBack \/ FinishRestore
    BY <1>5, <2>1, <2>2, <2>3, <2>5 DEF EnterRollingBack, FinishRestore
  <2>6. CASE WorkerFailed /\ op.status \notin TerminalStates
    BY <1>5, <2>1, <2>2, <2>6 DEF WorkerFailed, RecoveredStatus
  <2>7. CASE (ApplyFailed \/ RollbackFailed) /\ ~ (pc' = "rolling_back" /\ UNCHANGED operations)
    BY <1>5, <2>1, <2>2, <2>7 DEF ApplyFailed, RollbackFailed
  <2> QED BY <1>6, <2>4, <2>5, <2>6, <2>7
<1> QED BY <1>1, <1>2, <1>3, <1>4, <1>6 DEF HandlerStep

\* The steps of reconcile: its operation answers until CURRENT is known to accept.
LEMMA ReconcileAccept ==
  ASSUME Inv, OwnInv, DataInv, AcceptInv, ReconcileStep
  PROVE  AcceptInv'
<1>1. /\ pc \in ReconcileLabel /\ pc \in Holding /\ UNCHANGED <<active, base, slots>>
      /\ pc' \in ReconcileLabel \cup {"release"}
  BY DEF ReconcileStep, ReconcileReceipt, ResolveUncertainDatabase, ClearDatabase,
         ResolveUncertainConfiguration, RecordUncertainConfiguration, ClearConfiguration,
         ReconcilePlan, ReconcileSwitch, ReconcileHealth, ReconcileRuntime, ReconcileLocator,
         Reconciled, ReconcileLabel, Observe, WriteRuntime, WriteRecord, WriteLocator, Enter,
         RunBootstrap, Recreate, Resolve, process, durable, Holding
<1>2. op.status = "manual_recovery_required" /\ op \in Record /\ Allows(pc)
  BY <1>1, HolderAccepts DEF Fits
<1>3. base = slots.current
  BY <1>1 DEF DataInv, Settles
<1>4. ASSUME NEW label \in (ReconcileLabel \ RebuildLabel) \cup {"release"} PROVE Allows(label)
  BY DEF Allows, UnpromotedLabel, RestoredLabel, RebuildLabel, Promoted, Working, WorkerLabel,
         ApplyLabel, SwitchLabel, HandlerLabel, ReconcileLabel
<1>5. Accepts(base) => \A label \in ReconcileLabel : Allows(label)
  BY DEF Allows, UnpromotedLabel, RestoredLabel, RebuildLabel, Promoted, Working, WorkerLabel,
         ApplyLabel, SwitchLabel, HandlerLabel, ReconcileLabel
<1>6. pc \in RebuildLabel => Accepts(base)
  BY <1>2 DEF Allows
<1>7. CASE ReconcileReceipt \/ ResolveUncertainConfiguration \/ ReconcilePlan
           \/ ReconcileSwitch \/ ReconcileHealth \/ ReconcileRuntime \/ ReconcileLocator
  <2>1. Kept /\ UNCHANGED operations
    BY <1>7
       DEF ReconcileReceipt, ResolveUncertainConfiguration, ReconcilePlan, ReconcileSwitch,
           ReconcileHealth, ReconcileRuntime, ReconcileLocator, Observe, WriteRuntime,
           WriteLocator, RunBootstrap, Recreate, Kept, durable, host, process,
           Inv, TypeInv, TypeOK, RuntimeContracts
  <2>2. \/ pc' \in (ReconcileLabel \ RebuildLabel) \cup {"release"}
        \/ pc \in RebuildLabel
        \/ CurrentAccepted
    BY <1>7
       DEF ReconcileReceipt, ResolveUncertainConfiguration, ReconcilePlan, ReconcileSwitch,
           ReconcileHealth, ReconcileRuntime, ReconcileLocator, Observe, RunBootstrap, Resolve,
           ReconcileLabel, RebuildLabel
  <2>3. CurrentAccepted => Accepts(base)
    BY DEF CurrentAccepted, PlanAllowed, Accepts, Inv, TypeInv, TypeOK, RuntimeContracts
  <2>4. Allows(pc')
    BY <1>1, <1>4, <1>5, <1>6, <2>2, <2>3
  <2> QED BY <1>1, <2>1, <2>4, MoveAccept
<1>8. CASE ResolveUncertainDatabase \/ RecordUncertainConfiguration
  <2>1. pc' \in {"clear_database", "clear_configuration", "release"} /\ UNCHANGED operations
    BY <1>8 DEF ResolveUncertainDatabase, RecordUncertainConfiguration, WriteRuntime
  <2>2. pc' \notin RestoredLabel \cup Promoted \cup RebuildLabel \cup Working
        /\ pc' \notin UnpromotedLabel /\ pc \notin Working
    BY <1>1, <2>1 DEF RestoredLabel, Promoted, RebuildLabel, Working, UnpromotedLabel,
                 WorkerLabel, ApplyLabel, SwitchLabel, HandlerLabel, ReconcileLabel
  <2> QED BY <1>1, <1>2, <2>1, <2>2, ContractAccept DEF Answerable
<1>9. CASE ClearDatabase \/ ClearConfiguration
  <2>1. {Resolve, "reconcile_plan", "release"} \subseteq (ReconcileLabel \ RebuildLabel) \cup {"release"}
    BY DEF Resolve, ReconcileLabel, RebuildLabel
  <2>2. UNCHANGED <<durable, host, process>>
    BY <1>9 DEF ClearDatabase, ClearConfiguration
  <2>3. CASE ClearDatabase
    BY <1>1, <1>2, <1>4, <2>1, <2>2, <2>3, RecordAccept DEF ClearDatabase, Record
  <2>4. CASE ClearConfiguration /\ PlanAllowed(runtime, target)
    BY <1>1, <1>2, <1>4, <2>1, <2>2, <2>4, RecordAccept DEF ClearConfiguration, Record
  <2>5. CASE ClearConfiguration /\ ~ PlanAllowed(runtime, target)
    <3>1. Kept /\ UNCHANGED operations /\ pc' = "release"
      BY <2>2, <2>5 DEF ClearConfiguration, Kept, durable
    <3> QED BY <1>1, <1>4, <3>1, MoveAccept
  <2> QED BY <1>9, <2>3, <2>4, <2>5
<1>10. CASE Reconciled
  <2>1. Enter("reconciled", "release", "release") /\ UNCHANGED <<durable, host, process>>
        /\ "reconciled" \in Status /\ pc = "reconciled"
    BY <1>10 DEF Reconciled, Status, Transitions
  <2>2. Accepts(slots.current)
    BY <1>3, <1>6, <2>1 DEF RebuildLabel
  <2> QED BY <1>1, <1>4, <2>1, <2>2, EnterAccept
<1> QED BY <1>7, <1>8, <1>9, <1>10 DEF ReconcileStep

\* Nobody who answers is forgotten, and nobody is asked for more.
LEMMA FreeAccept ==
  ASSUME AcceptInv, Kept, pc' \notin Holding,
         \A o \in Operation : operations[o].status \in Answerable =>
           \E p \in Operation : operations'[p].status \in Answerable
  PROVE  AcceptInv'
<1>1. Allows(pc)'
  BY DEF Allows, UnpromotedLabel, RestoredLabel, RebuildLabel, Promoted, Holding, Working,
         WorkerLabel, ApplyLabel, SwitchLabel, HandlerLabel, ReconcileLabel
<1> QED BY <1>1, KeptAccepts DEF AcceptInv, Kept

\* The holder, if there is one, stays where it is.
LEMMA IdleAccept ==
  ASSUME AcceptInv, Kept, UNCHANGED <<operations, pc, active, base>>
  PROVE  AcceptInv'
<1>1. Applying' = Applying
  BY DEF op, Applying
<1>2. Allows(pc)'
  BY <1>1, KeptAccepts DEF AcceptInv, Kept, Allows
<1> QED BY <1>2, KeptAccepts DEF AcceptInv, Kept

\* The restart and its recovery block whoever answers.
LEMMA RecoveryAccept ==
  ASSUME Inv, AcceptInv, RecoveryStep
  PROVE  AcceptInv'
<1>1. pc' \in {"recovering", "unlocked"} /\ Kept
  BY DEF RecoveryStep, Restart, RecoverOperation, Serve, Kept, durable
<1>2. pc' \notin Holding
  BY <1>1 DEF Holding, ReconcileLabel, Working, WorkerLabel, ApplyLabel, SwitchLabel,
              HandlerLabel
<1>3. CASE UNCHANGED operations
  BY <1>1, <1>2, <1>3, FreeAccept
<1>4. CASE ~ UNCHANGED operations
  <2>1. PICK o \in Operation :
          operations' = [operations EXCEPT ![o].status = RecoveredStatus(operations[o])]
    BY <1>4 DEF RecoveryStep, Restart, RecoverOperation, Serve
  <2>2. operations \in [Operation -> Record]
    BY DEF Inv, TypeInv, TypeOK
  <2>3. /\ operations'[o].status = RecoveredStatus(operations[o])
        /\ \A p \in Operation \ {o} : operations'[p] = operations[p]
    BY <2>1, <2>2 DEF Record
  <2>4. operations[o].status \in Answerable => operations'[o].status \in Answerable
    BY <2>3 DEF RecoveredStatus, Answerable, Committed, PreSwitchRecovery
  <2>5. \A p \in Operation :
          operations[p].status \in Answerable => operations'[p].status \in Answerable
    BY <2>3, <2>4
  <2> QED BY <1>1, <1>2, <2>5, FreeAccept
<1> QED BY <1>3, <1>4

\* Nobody answers when an operation is admitted, so CURRENT accepts the contracts.
LEMMA AdmitAccept ==
  ASSUME Inv, OwnInv, AcceptInv, NEW o \in Operation, NEW kind \in Kind, NEW release \in Release,
         Admit(o, kind, release)
  PROVE  AcceptInv'
<1>1. \A p \in Operation : operations[p].status \notin Answerable
  BY DEF Admit, OwnInv, RecoveryBlocked, Settled, Answerable
<1>2. Accepts(slots.current)' /\ Kept
  <2>1. Kept
    BY DEF Admit, Kept, durable
  <2> QED BY <1>1, <2>1, KeptAccepts DEF AcceptInv, Kept
<1>3. pc' \in {"begin", "unlocked"}
  BY DEF Admit
<1>4. Allows(pc)'
  BY <1>2, <1>3 DEF Allows, UnpromotedLabel, RestoredLabel, RebuildLabel, Promoted, Working,
         WorkerLabel, ApplyLabel, SwitchLabel, HandlerLabel
<1> QED BY <1>2, <1>4 DEF AcceptInv

\* Operations begin, processes die, the world moves.
LEMMA EnvironmentAccept ==
  ASSUME Inv, OwnInv, AcceptInv, Environment
  PROVE  AcceptInv'
<1>1. CASE StartApply \/ StartRollback
  <2>1. slots \in [current : Release, previous : Release \cup {None}, history : SUBSET Release]
    BY DEF Inv, TypeInv, TypeOK
  <2> QED BY <1>1, <2>1, AdmitAccept DEF StartApply, StartRollback, Kind
<1>2. CASE StartReconcile
  <2>1. Kept /\ UNCHANGED operations /\ pc' = "reconcile"
    BY <1>2 DEF StartReconcile, Kept, durable
  <2>2. Allows(pc)'
    BY <2>1 DEF Allows, UnpromotedLabel, RestoredLabel, RebuildLabel, Promoted, Working,
         WorkerLabel, ApplyLabel, SwitchLabel, HandlerLabel
  <2> QED BY <2>1, <2>2, KeptAccepts DEF AcceptInv, Kept
<1>3. CASE (KillAgent /\ pc \in WorkerLabel \cup {"recovering"}) \/ KillReconcile
  <2>1. Kept /\ UNCHANGED operations /\ pc' = "unlocked"
    BY <1>3 DEF KillAgent, KillReconcile, Crash, Kept, durable
  <2>2. pc' \notin Holding
    BY <2>1 DEF Holding, ReconcileLabel, Working, WorkerLabel, ApplyLabel, SwitchLabel,
                HandlerLabel
  <2> QED BY <2>1, <2>2, FreeAccept
<1>4. CASE (KillAgent /\ pc \notin WorkerLabel \cup {"recovering"}) \/ EnablePlugins \/ JobApplies
  <2>1. Kept /\ UNCHANGED <<operations, pc, active, base>>
    BY <1>4 DEF KillAgent, Crash, EnablePlugins, JobApplies, Kept, durable, process
  <2> QED BY <2>1, IdleAccept
<1> QED BY <1>1, <1>2, <1>3, <1>4 DEF Environment

\* Every step keeps CURRENT accepting, or somebody answering.
LEMMA AcceptStep ==
  Inv /\ (OneFailed => OwnInv /\ DataInv) /\ (OneFailed => AcceptInv) /\ [Next]_vars
    => (OneFailed => AcceptInv)'
<1> SUFFICES ASSUME Inv, OneFailed => OwnInv /\ DataInv, OneFailed => AcceptInv, [Next]_vars,
                    OneFailed'
             PROVE  AcceptInv'
  OBVIOUS
<1>1. OneFailed
  BY StillOneFailed
<1>2. OwnInv /\ DataInv /\ AcceptInv
  BY <1>1
<1>3. CASE UNCHANGED vars
  BY <1>2, <1>3, IdleAccept DEF vars, durable, process, Kept
<1> QED
  BY <1>2, <1>3, SharedAccept, ApplyAccept, HandlerAccept, ReconcileAccept, RecoveryAccept,
     EnvironmentAccept DEF Next

\* An adopted release accepts the contracts it was adopted with.
LEMMA InitAccept == Init => AcceptInv
<1> SUFFICES ASSUME Init PROVE AcceptInv
  OBVIOUS
<1>1. Accepts(slots.current)
  BY ExecutorAssumption, ManifestAssumption DEF Init, Accepts
<1>2. Allows(pc)
  BY DEF Init, Allows, UnpromotedLabel, RestoredLabel, RebuildLabel, Promoted, Working,
         WorkerLabel, ApplyLabel, SwitchLabel, HandlerLabel
<1> QED BY <1>1, <1>2 DEF AcceptInv

\* As long as at most one write failed: CURRENT accepts, or somebody answers.
THEOREM AcceptCorrect ==
  ASSUME ~ JobsOutliveClient, ContractsExtend
  PROVE  Spec => [](OneFailed => AcceptInv)
<1>1. Spec => [](OneFailed => OwnInv) /\ [](OneFailed => DataInv)
  BY OwnCorrect, DataCorrect
<1> QED BY <1>1, InitAccept, AcceptStep, JournalCorrect, PTL DEF Spec

\* A serving agent is blocked, or its contracts are fact and CURRENT accepts them.
THEOREM SettledUnlessBlocked ==
  ASSUME ~ JobsOutliveClient, ContractsExtend
  PROVE  Spec => [](OneFailed => SettledOrBlocked)
<1>1. ASSUME Inv, OwnInv, DataInv, AcceptInv PROVE SettledOrBlocked
  <2> SUFFICES ASSUME pc = "unlocked", agent = "up", ~ RecoveryBlocked
               PROVE  /\ DbKnown /\ CfKnown /\ Accepts(slots.current)
                      /\ \A o \in Operation :
                           Incomplete(operations[o]) => operations[o].status \in PreSwitchRecovery
    BY DEF SettledOrBlocked, DbKnown, CfKnown, Accepts
  <2>1. \A o \in Operation : operations[o].status \notin Answerable
    BY <1>1 DEF OwnInv, Settled, RecoveryBlocked, Answerable
  <2>2. DbKnown /\ CfKnown /\ Accepts(slots.current)
    BY <1>1, <2>1 DEF DataInv, AcceptInv, HalfMigrated, HalfBootstrapped, Answerable, Committed
  <2>3. \A o \in Operation :
          Incomplete(operations[o]) => operations[o].status \in PreSwitchRecovery
    BY <2>1 DEF Incomplete, Answerable, Committed, Status, Transitions, TerminalStates,
                PreSwitchRecovery
  <2> QED BY <2>2, <2>3
<1>2. Spec => [](OneFailed => OwnInv) /\ [](OneFailed => DataInv) /\ [](OneFailed => AcceptInv)
  BY OwnCorrect, DataCorrect, AcceptCorrect
<1> QED BY <1>1, <1>2, JournalCorrect, PTL

-----------------------------------------------------------------------------
(* What reconcile leaves behind it.                                          *)

\* What reconcile has seen at a label, whatever writes failed before.
RebuiltInv ==
  /\ pc \in {"reconcile_runtime", "reconcile_locator", "reconciled"} => Running(base)
  /\ pc \in {"reconcile_locator", "reconciled"} => PlanAllowed(runtime, base)
  /\ pc = "reconciled" => locator = base

\* Only reconcile comes to these labels.
LEMMA RebuiltStep == Inv /\ RebuiltInv /\ [Next]_vars => RebuiltInv'
<1> SUFFICES ASSUME Inv, RebuiltInv, [Next]_vars PROVE RebuiltInv'
  OBVIOUS
<1> DEFINE late == {"reconcile_runtime", "reconcile_locator", "reconciled"}
<1>1. CASE UNCHANGED <<pc, app, base, runtime, locator>>
  BY <1>1 DEF RebuiltInv, Running, PlanAllowed
<1>2. CASE pc' \notin late
  BY <1>2 DEF RebuiltInv
<1>3. CASE ReconcileHealth /\ pc' = "reconcile_runtime"
  BY <1>3 DEF ReconcileHealth, Observe, RebuiltInv, Running, host, process
<1>4. CASE ReconcileRuntime /\ pc' = "reconcile_locator"
  <2>1. runtime \in RuntimeContracts
    BY DEF Inv, TypeInv, TypeOK
  <2>2. CurrentAccepted /\ runtime' = [runtime EXCEPT !.plugins = enabled]
        /\ UNCHANGED <<app, base, enabled>>
    BY <1>4 DEF ReconcileRuntime, WriteRuntime, host, process
  <2>3. PlanAllowed(runtime, base)'
    BY <2>1, <2>2 DEF CurrentAccepted, PlanAllowed
  <2> QED BY <1>4, <2>2, <2>3 DEF ReconcileRuntime, RebuiltInv, Running
<1>5. CASE ReconcileLocator /\ pc' = "reconciled"
  <2>1. locator' = base /\ UNCHANGED <<app, base, runtime>> /\ pc = "reconcile_locator"
    BY <1>5 DEF ReconcileLocator, WriteLocator, host, process
  <2> QED BY <1>5, <2>1 DEF RebuiltInv, Running, PlanAllowed
<1>6. ASSUME SharedStep \/ ApplyStep \/ HandlerStep PROVE pc' \notin late
  BY <1>6
     DEF SharedStep, ApplyStep, HandlerStep,
         Begin, EnterPreflight, CheckHost, EnterFetching, Fetch,
         EnterVerifying, VerifyRelease, InspectPlugins, Plan, EnterPulling, Pull,
         EnterSwitching, Switch, EnterVerifyingHealth, VerifyHealth, RecordPreviousPlugins,
         Promote, PublishLocator, PublishFailed, Finish, BindRecoveryTarget, EnterBackup,
         BackupDatabase, MarkDatabasePending, EnterMigrating, QuiesceWriters, Migrate,
         RecordDatabaseContract, ResolveDatabase, MarkConfigurationPending,
         EnterBootstrapping, Bootstrap, RecordConfigurationContract, RecordTargetPlugins,
         ResolveConfiguration, Replan, Incompatible, ApplyFailed, RollbackFailed,
         EnterRollingBack, Restore, VerifyRestored, RecordRestoredPlugins, FinishRestore,
         RestoreFailed, WorkerFailed, ReleaseLock, EnterStatus, Observe, RecordPlugins, Enter,
         WriteRecord, WriteRuntime, WriteLocator, WriteSlots, Recreate, RunBootstrap
<1>7. ASSUME ReconcileStep
      PROVE  \/ pc' \notin late
             \/ ReconcileHealth /\ pc' = "reconcile_runtime"
             \/ ReconcileRuntime /\ pc' = "reconcile_locator"
             \/ ReconcileLocator /\ pc' = "reconciled"
  BY <1>7
     DEF ReconcileStep, ReconcileReceipt, ResolveUncertainDatabase, ClearDatabase,
         ResolveUncertainConfiguration, RecordUncertainConfiguration, ClearConfiguration,
         ReconcilePlan, ReconcileSwitch, ReconcileHealth, ReconcileRuntime, ReconcileLocator,
         Reconciled, Observe, WriteRuntime, WriteRecord, WriteLocator, Enter, RunBootstrap,
         Recreate, Resolve
<1>8. ASSUME RecoveryStep \/ Environment \/ UNCHANGED vars
      PROVE  pc' \notin late \/ UNCHANGED <<pc, app, base, runtime, locator>>
  BY <1>8
     DEF RecoveryStep, Environment, vars, durable, host, process, Restart, RecoverOperation,
         Serve, StartApply, StartRollback, Admit, StartReconcile, KillAgent, KillReconcile,
         Crash, EnablePlugins, JobApplies
<1> QED BY <1>1, <1>2, <1>3, <1>4, <1>5, <1>6, <1>7, <1>8 DEF Next

\* Nothing but the end of reconcile makes an operation "reconciled".
LEMMA OnlyReconciled ==
  ASSUME Inv, [Next]_vars, NEW o \in Operation,
         operations[o].status = "manual_recovery_required",
         operations'[o].status = "reconciled"
  PROVE  Reconciled
<1>1. operations \in [Operation -> Record]
  BY DEF Inv, TypeInv, TypeOK
<1>2. ~ Keeps /\ ~ Lets /\ ~ Takes
  BY DEF Keeps, Lets, Takes
<1>3. ~ Recovers /\ ~ Admits
  BY <1>1 DEF Recovers, Admits
<1>4. Rewrites /\ o = active
  BY <1>1, <1>2, <1>3, StepRewrites DEF Rewrites
<1>5. pc \in HeldLabel /\ op \in Record /\ active \in Operation /\ op = operations[active]
  <2>1. active \in Operation /\ active # None
    BY <1>4, ExecutorAssumption DEF Rewrites
  <2>2. pc \in HeldLabel
    BY <2>1 DEF Inv, JournalInv, TypeInv, TypeOK, HeldLabel
  <2> QED BY <2>1, <2>2, ActiveFits DEF op
<1>6. UNCHANGED active /\ op' = operations'[active]
  BY <1>4 DEF Rewrites, op
<1>7. ASSUME NEW status \in Status \ {"reconciled"}, NEW next, NEW failed,
             Enter(status, next, failed)
      PROVE  FALSE
  BY <1>4, <1>5, <1>6, <1>7, EnterMoves
<1>8. ASSUME NEW r, NEW next, NEW failed, WriteRecord(r, next, failed), r.status = op.status
      PROVE  FALSE
  BY <1>4, <1>5, <1>6, <1>8, WriteMoves
<1>9. ~ SharedStep
  BY <1>2, <1>7
     DEF Keeps, SharedStep, Begin, EnterPreflight, CheckHost, EnterFetching, Fetch,
         EnterVerifying, VerifyRelease, InspectPlugins, Plan, EnterPulling, Pull,
         EnterSwitching, Switch, EnterVerifyingHealth, VerifyHealth, RecordPreviousPlugins,
         Promote, PublishLocator, PublishFailed, Finish, EnterStatus, Observe, RecordPlugins,
         process, Status, Transitions
<1>10. ~ ApplyStep
  <2>1. /\ [op EXCEPT !.bound = TRUE].status = op.status
        /\ \A x : [op EXCEPT !.database = x].status = op.status
        /\ \A x : [op EXCEPT !.configuration = x].status = op.status
    BY <1>5 DEF Record
  <2>2. ~ (BindRecoveryTarget \/ MarkDatabasePending \/ ResolveDatabase
             \/ MarkConfigurationPending \/ ResolveConfiguration)
    BY <1>8, <2>1
       DEF BindRecoveryTarget, MarkDatabasePending, ResolveDatabase, MarkConfigurationPending,
           ResolveConfiguration
  <2> QED
    BY <1>2, <1>7, <2>2
       DEF Keeps, ApplyStep, EnterBackup, BackupDatabase, EnterMigrating, QuiesceWriters,
           Migrate, RecordDatabaseContract, EnterBootstrapping, Bootstrap,
           RecordConfigurationContract, RecordTargetPlugins, Replan, EnterStatus, Observe,
           RecordPlugins, process, Status, Transitions
<1>11. ~ HandlerStep
  BY <1>2, <1>4, <1>7
     DEF Keeps, Rewrites, HandlerStep, Incompatible, ApplyFailed, RollbackFailed,
         EnterRollingBack, Restore, VerifyRestored, RecordRestoredPlugins, FinishRestore,
         RestoreFailed, WorkerFailed, ReleaseLock, Observe, RecordPlugins, RecoveredStatus,
         process, Status, Transitions
<1>12. ~ RecoveryStep /\ ~ Environment /\ ~ UNCHANGED vars
  BY <1>2, <1>3, RecoveryRewrites, EnvironmentRewrites DEF Keeps, vars, process
<1>13. ReconcileStep => Reconciled
  <2>1. /\ [op EXCEPT !.database = None].status = op.status
        /\ [op EXCEPT !.configuration = None].status = op.status
    BY <1>5 DEF Record
  <2> QED
    BY <1>2, <1>8, <2>1
       DEF Keeps, ReconcileStep, ReconcileReceipt, ResolveUncertainDatabase, ClearDatabase,
           ResolveUncertainConfiguration, RecordUncertainConfiguration, ClearConfiguration,
           ReconcilePlan, ReconcileSwitch, ReconcileHealth, ReconcileRuntime,
           ReconcileLocator, Observe, process
<1> QED BY <1>9, <1>10, <1>11, <1>12, <1>13 DEF Next

\* The barrier is lifted over a coherent instance.
THEOREM ReconcileSound ==
  ASSUME ~ JobsOutliveClient, ContractsExtend, MaxFaults <= 1
  PROVE  Spec => ReconcileIsSound
<1>1. Init => RebuiltInv
  BY DEF Init, RebuiltInv
<1>2. ASSUME Inv, OneFailed => DataInv /\ OwnInv, RebuiltInv, [Next]_vars,
             NEW o \in Operation,
             operations[o].status = "manual_recovery_required",
             operations'[o].status = "reconciled"
      PROVE  /\ Describes(runtime.database, applied) /\ configured = runtime.configuration
             /\ Running(slots.current) /\ locator = slots.current
             /\ PlanAllowed(runtime, slots.current)
  <2>1. pc = "reconciled" /\ pc \in Holding
    BY <1>2, OnlyReconciled DEF Reconciled, Holding, ReconcileLabel
  <2>2. OneFailed
    <3>1. budget \in Budget /\ MaxFaults \in Nat
      BY <1>2, ExecutorAssumption DEF Inv, TypeInv, TypeOK
    <3> QED BY <3>1 DEF OneFailed, Budget
  <2>3. op.database = None /\ op.configuration = None /\ base = slots.current
    BY <1>2, <2>1, <2>2 DEF DataInv, Settles, SettledLabel, ReconcileLabel
  <2>4. DbKnown /\ CfKnown
    BY <1>2, <2>1, <2>2, <2>3, HolderKnows DEF HalfMigrated, HalfBootstrapped
  <2> QED BY <1>2, <2>1, <2>3, <2>4 DEF RebuiltInv, DbKnown, CfKnown
<1>3. Inv /\ (OneFailed => DataInv) /\ (OneFailed => OwnInv) /\ RebuiltInv /\ [Next]_vars =>
        (\A o \in Operation :
           /\ operations[o].status = "manual_recovery_required"
           /\ operations'[o].status = "reconciled"
           => /\ Describes(runtime.database, applied)
              /\ configured = runtime.configuration
              /\ Running(slots.current) /\ locator = slots.current
              /\ PlanAllowed(runtime, slots.current))
  BY <1>2
<1>4. Spec => [](OneFailed => DataInv) /\ [](OneFailed => OwnInv)
  BY DataCorrect, OwnCorrect
<1>5. Spec => []RebuiltInv
  BY <1>1, RebuiltStep, JournalCorrect, PTL DEF Spec
<1> QED BY <1>3, <1>4, <1>5, JournalCorrect, PTL DEF Spec, ReconcileIsSound

-----------------------------------------------------------------------------
(* The API that runs understands the schema, as long as no write has failed. *)

\* Before the barrier the containers run the release whose manifest the barrier
\* reads; behind it the API is stopped or accepts what the migration brings.
WriterInv ==
  /\ NoIncompatibleWriter
  /\ pc = "quiesce" => Running(base)
  /\ pc = "migrate" => \/ app["api"] = Stopped
                       \/ Manifest[target].database \in Manifest[app["api"]].databaseAccepts

\* Few steps touch the containers or the schema.
LEMMA WritersMove ==
  ASSUME [Next]_vars
  PROVE  \/ UNCHANGED <<app, applied>>
         \/ Switch \/ Restore \/ ReconcileSwitch \/ QuiesceWriters \/ Migrate \/ JobApplies
BY DEF vars, host, durable, process, Next, SharedStep, ApplyStep, HandlerStep, ReconcileStep,
       RecoveryStep, Environment, Begin, EnterPreflight, CheckHost, EnterFetching, Fetch,
       EnterVerifying, VerifyRelease, InspectPlugins, Plan, EnterPulling, Pull,
       EnterSwitching, EnterVerifyingHealth, VerifyHealth, RecordPreviousPlugins,
       Promote, PublishLocator, PublishFailed, Finish, BindRecoveryTarget, EnterBackup,
       BackupDatabase, MarkDatabasePending, EnterMigrating,
       RecordDatabaseContract, ResolveDatabase, MarkConfigurationPending,
       EnterBootstrapping, Bootstrap, RecordConfigurationContract, RecordTargetPlugins,
       ResolveConfiguration, Replan, Incompatible, ApplyFailed, RollbackFailed,
       EnterRollingBack, VerifyRestored, RecordRestoredPlugins, FinishRestore,
       RestoreFailed, WorkerFailed, ReleaseLock, ReconcileReceipt,
       ResolveUncertainDatabase, ClearDatabase, ResolveUncertainConfiguration,
       RecordUncertainConfiguration, ClearConfiguration, ReconcilePlan,
       ReconcileHealth, ReconcileRuntime, ReconcileLocator, Reconciled, Restart,
       RecoverOperation, Serve, StartApply, StartRollback, Admit, StartReconcile,
       KillAgent, KillReconcile, Crash, EnablePlugins, EnterStatus, Observe,
       RecordPlugins

\* The barrier is entered and left in one place.
LEMMA BarrierLabels ==
  ASSUME [Next]_vars
  PROVE  /\ pc' = "quiesce" => EnterMigrating \/ UNCHANGED <<pc, base>>
         /\ pc' = "migrate" => QuiesceWriters \/ UNCHANGED <<pc, active, operations>>
<1>1. ASSUME SharedStep \/ HandlerStep PROVE pc' \notin {"quiesce", "migrate"}
  BY <1>1
     DEF SharedStep, HandlerStep, Begin, EnterPreflight, CheckHost, EnterFetching, Fetch,
         EnterVerifying, VerifyRelease, InspectPlugins, Plan, EnterPulling, Pull,
         EnterSwitching, Switch, EnterVerifyingHealth, VerifyHealth, RecordPreviousPlugins,
         Promote, PublishLocator, PublishFailed, Finish, Incompatible, ApplyFailed,
         RollbackFailed, EnterRollingBack, Restore, VerifyRestored, RecordRestoredPlugins,
         FinishRestore, RestoreFailed, WorkerFailed, ReleaseLock, EnterStatus, Observe,
         RecordPlugins, Enter, WriteRecord, WriteRuntime, WriteLocator, WriteSlots, Recreate
<1>2. ASSUME ApplyStep, ~ EnterMigrating, ~ QuiesceWriters
      PROVE  pc' \notin {"quiesce", "migrate"}
  BY <1>2
     DEF ApplyStep, BindRecoveryTarget, EnterBackup, BackupDatabase, MarkDatabasePending,
         Migrate, RecordDatabaseContract, ResolveDatabase, MarkConfigurationPending,
         EnterBootstrapping, Bootstrap, RecordConfigurationContract, RecordTargetPlugins,
         ResolveConfiguration, Replan, EnterStatus, Observe, RecordPlugins, Enter,
         WriteRecord, WriteRuntime, RunBootstrap
<1>3. EnterMigrating => pc' # "migrate"
  BY DEF EnterMigrating, EnterStatus, Enter, WriteRecord
<1>4. QuiesceWriters => pc' # "quiesce"
  BY DEF QuiesceWriters
<1>5. ASSUME ReconcileStep PROVE pc' \notin {"quiesce", "migrate"}
  BY <1>5
     DEF ReconcileStep, ReconcileReceipt, ResolveUncertainDatabase, ClearDatabase,
         ResolveUncertainConfiguration, RecordUncertainConfiguration, ClearConfiguration,
         ReconcilePlan, ReconcileSwitch, ReconcileHealth, ReconcileRuntime, ReconcileLocator,
         Reconciled, Observe, WriteRuntime, WriteRecord, WriteLocator, Enter, RunBootstrap,
         Recreate, Resolve
<1>6. ASSUME RecoveryStep \/ Environment \/ UNCHANGED vars,
             pc' \in {"quiesce", "migrate"}
      PROVE  UNCHANGED <<pc, base, active, operations>>
  BY <1>6
     DEF RecoveryStep, Environment, vars, durable, host, process, Restart, RecoverOperation,
         Serve, StartApply, StartRollback, Admit, StartReconcile, KillAgent, KillReconcile,
         Crash, EnablePlugins, JobApplies
<1> QED BY <1>1, <1>2, <1>3, <1>4, <1>5, <1>6 DEF Next

\* A release that accepts the live contract tolerates the schema once that is known.
LEMMA AcceptsTolerates ==
  ASSUME NEW r, DbKnown, Accepts(r)
  PROVE  Tolerates(r, applied)
BY DEF DbKnown, Accepts, Describes, Tolerates

\* A release is started only where it accepts the live contract.
LEMMA StartedTolerates ==
  ASSUME Inv, OwnInv, DataInv, AcceptInv, WriterInv, Switch \/ Restore \/ ReconcileSwitch
  PROVE  NoIncompatibleWriter'
<1>1. pc \in {"switch", "restore", "reconcile_switch"} /\ UNCHANGED applied
      /\ pc \in Holding
  BY DEF Switch, Restore, ReconcileSwitch, Holding, Working, WorkerLabel, SwitchLabel,
         HandlerLabel, ReconcileLabel
<1>2. DbKnown
  BY <1>1, HolderKnows, HolderAccepts
     DEF HalfMigrated, DataInv, Reaches, Settles, MigratedLabel, SettledLabel, Fits, RestoreLabel
<1>3. PICK release : Accepts(release) /\ \A s \in Service : app'[s] \in {app[s], release, Stopped}
  <2>1. CASE Switch
    <3>1. Accepts(target)
      BY <1>1, <2>1 DEF Switch, DataInv, Reaches, PlannedLabel, MigratedLabel
    <3> QED BY <2>1, <3>1 DEF Switch, Recreate
  <2>2. CASE Restore
    <3>1. Accepts(base)
      BY <2>2 DEF Restore, AcceptInv, Allows
    <3> QED BY <2>2, <3>1 DEF Restore, Recreate
  <2>3. CASE ReconcileSwitch
    <3>1. Accepts(base)
      BY <2>3 DEF ReconcileSwitch, AcceptInv, Allows, RebuildLabel
    <3> QED BY <2>3, <3>1 DEF ReconcileSwitch, Recreate
  <2> QED BY <2>1, <2>2, <2>3
<1>4. Tolerates(release, applied)
  BY <1>2, <1>3, AcceptsTolerates
<1>5. app'["api"] \in {app["api"], release, Stopped}
  BY <1>3 DEF Service
<1> QED BY <1>1, <1>4, <1>5 DEF WriterInv, NoIncompatibleWriter, Tolerates

\* The schema moves behind the barrier alone, towards the contract of the target.
LEMMA MigratedTolerates ==
  ASSUME Inv, OwnInv, DataInv, DataInv', OwnInv', Inv', WriterInv, Migrate
  PROVE  NoIncompatibleWriter'
<1>1. pc = "migrate" /\ UNCHANGED <<app, operations, active>> /\ op' = op /\ target' = target
      /\ pc' \in {"record_database", "error"}
  BY DEF Migrate, process, op, target
<1>2. op.database # None
  BY <1>1 DEF DataInv, Reaches, MigrationLabel, MigratingLabel
<1>3. Pending(op)'
  <2>1. (pc \in Holding)'
    BY <1>1 DEF Holding, Working, WorkerLabel, ApplyLabel, HandlerLabel
  <2>2. active' \in Operation /\ pc' \in Working
    BY <1>1, <2>1, HolderKnows DEF Holding, Working, WorkerLabel, ApplyLabel, HandlerLabel
  <2> QED BY <1>1, <2>2 DEF DataInv, op
<1>4. applied' \cap ContractMigrations \subseteq Schema[Manifest[target].database]
  BY <1>1, <1>2, <1>3 DEF Pending, target
<1> QED BY <1>1, <1>4 DEF WriterInv, NoIncompatibleWriter, Tolerates

\* Every step keeps it, as long as no write before it failed.
LEMMA WriterStep ==
  /\ JobInv /\ Inv /\ Inv'
  /\ Unfailed => RunInv /\ OwnInv /\ DataInv /\ AcceptInv
  /\ (Unfailed => OwnInv /\ DataInv)'
  /\ Unfailed => WriterInv
  /\ [Next]_vars
  => (Unfailed => WriterInv)'
<1> SUFFICES ASSUME JobInv, Inv, Inv', Unfailed => RunInv /\ OwnInv /\ DataInv /\ AcceptInv,
                    (Unfailed => OwnInv /\ DataInv)', Unfailed => WriterInv, [Next]_vars,
                    Unfailed'
             PROVE  WriterInv'
  OBVIOUS
<1>1. Unfailed /\ ~ Fault
  BY StillUnfailed
<1>2. RunInv /\ OwnInv /\ DataInv /\ AcceptInv /\ WriterInv /\ OwnInv' /\ DataInv'
  BY <1>1
<1>3. NoIncompatibleWriter'
  <2>1. CASE UNCHANGED <<app, applied>>
    BY <1>2, <2>1 DEF WriterInv, NoIncompatibleWriter, Tolerates
  <2>2. CASE Switch \/ Restore \/ ReconcileSwitch
    BY <1>2, <2>2, StartedTolerates
  <2>3. CASE QuiesceWriters
    <3>1. UNCHANGED applied /\ app'["api"] \in {app["api"], Stopped}
      BY <2>3 DEF QuiesceWriters, Inv, TypeInv, TypeOK, Service
    <3> QED BY <1>2, <3>1 DEF WriterInv, NoIncompatibleWriter, Tolerates
  <2>4. CASE Migrate
    BY <1>2, <2>4, MigratedTolerates
  <2>5. ~ JobApplies
    BY DEF JobApplies, JobInv
  <2> QED BY <2>1, <2>2, <2>3, <2>4, <2>5, WritersMove
<1>4. pc' = "quiesce" => Running(base)'
  <2>1. CASE EnterMigrating
    <3>1. pc = "migrating" /\ UNCHANGED <<app, base>>
      BY <2>1 DEF EnterMigrating, EnterStatus, host, process
    <3>2. op.status \notin Committed /\ slots.current = base
      BY <1>2, <3>1
         DEF OwnInv, Ends, EarlyLabel, PreSwitchRecovery, Committed, AcceptInv, Allows, Working,
             WorkerLabel, ApplyLabel, UnpromotedLabel, Promoted
    <3>3. Running(base)
      BY <1>2, <3>1, <3>2
         DEF RunInv, WorkerInv, Coherent, Working, WorkerLabel, ApplyLabel
    <3> QED BY <3>1, <3>3 DEF Running
  <2>2. CASE pc' = "quiesce" /\ ~ EnterMigrating
    <3>1. UNCHANGED <<pc, base>> /\ pc = "quiesce"
      BY <2>2, BarrierLabels
    <3>2. UNCHANGED app
      BY <3>1, WritersMove
         DEF Switch, Restore, ReconcileSwitch, QuiesceWriters, Migrate, JobApplies
    <3> QED BY <1>2, <3>1, <3>2 DEF WriterInv, Running
  <2> QED BY <2>1, <2>2
<1>5. pc' = "migrate" => \/ app'["api"] = Stopped
                         \/ Manifest[target'].database \in Manifest[app'["api"]].databaseAccepts
  <2>1. CASE QuiesceWriters /\ pc' = "migrate"
    <3>1. target' = target /\ pc = "quiesce" /\ app["api"] = base
      BY <1>2, <2>1 DEF QuiesceWriters, process, op, target, WriterInv, Running, Service
    <3>2. \/ UNCHANGED app /\ Manifest[target].database \in Manifest[base].databaseAccepts
          \/ app' = [app EXCEPT !["api"] = Stopped]
      BY <2>1 DEF QuiesceWriters
    <3> QED BY <3>1, <3>2 DEF Inv, TypeInv, TypeOK, Service
  <2>2. CASE pc' = "migrate" /\ ~ QuiesceWriters
    <3>1. UNCHANGED <<pc, active, operations>> /\ pc = "migrate"
      BY <2>2, BarrierLabels
    <3>2. UNCHANGED app /\ target' = target
      BY <3>1, WritersMove
         DEF Switch, Restore, ReconcileSwitch, QuiesceWriters, Migrate, JobApplies, target, op
    <3> QED BY <1>2, <3>1, <3>2 DEF WriterInv
  <2> QED BY <2>1, <2>2
<1> QED BY <1>3, <1>4, <1>5 DEF WriterInv

\* An API that does not understand the schema never runs, as long as no write failed.
THEOREM WriterTolerates ==
  ASSUME ~ JobsOutliveClient, ContractsExtend
  PROVE  Spec => [](Unfailed => NoIncompatibleWriter)
<1>1. Init => WriterInv /\ JobInv
  <2> SUFFICES ASSUME Init PROVE WriterInv /\ JobInv
    OBVIOUS
  <2>1. app["api"] = locator /\ DbKnown /\ Accepts(locator)
    BY InitData, InitAccept, ExecutorAssumption, ManifestAssumption
       DEF Init, Service, DbKnown, Accepts, ContractsExtend
  <2>2. Tolerates(locator, applied)
    BY <2>1, AcceptsTolerates
  <2> QED BY <2>1, <2>2 DEF Init, WriterInv, JobInv, NoIncompatibleWriter
<1>2. Unfailed => OneFailed
  BY ExecutorAssumption DEF Unfailed, OneFailed
<1>3. Spec => [](OneFailed => OwnInv) /\ [](OneFailed => DataInv) /\ [](OneFailed => AcceptInv)
  BY OwnCorrect, DataCorrect, AcceptCorrect
<1>4. Init => (Unfailed => RunInv)
  BY DEF Init, RunInv, IdleInv, WorkerInv, RebuildInv, Working, Promoted, WorkerLabel,
         ApplyLabel, SwitchLabel, HandlerLabel, ReconcileLabel, Coherent, Running
<1>5. WriterInv => NoIncompatibleWriter
  BY DEF WriterInv
<1>6. Spec => [](Unfailed => RunInv)
  BY <1>4, RunStep, JournalCorrect, PTL DEF Spec
<1> QED BY <1>1, <1>2, <1>3, <1>5, <1>6, WriterStep, NoStrayJob, JournalCorrect, PTL DEF Spec

=============================================================================
