------------------------ MODULE UpdateExecutor_proofs ------------------------
(* Proofs about UpdateExecutor for every set of releases, manifests and      *)
(* operations and every bound on faults and crashes: its types, and what the *)
(* journal entry of an operation says of the step it is in.                  *)
EXTENDS UpdateExecutor, TLAPS

HeldLabel == Label \ {"unlocked", "recovering"}

DatabaseLabel == {"resolve_uncertain_database", "clear_database"}

ConfigurationLabel ==
  {"resolve_uncertain_configuration", "record_uncertain_configuration",
   "clear_configuration"}

PlainLabel == Label \ (DatabaseLabel \cup ConfigurationLabel)

\* The holder of the lock works on a record that exists, and the labels that
\* resolve a pending transition are reached only while it is pending.
HolderInv ==
  /\ pc \in HeldLabel => active \in Operation
  /\ pc \in DatabaseLabel => op.database # None
  /\ pc \in ConfigurationLabel => op.configuration # None

TypeInv == TypeOK /\ HolderInv

-----------------------------------------------------------------------------
(* Typing of the durable writes.                                             *)

\* WriteRecord keeps the journal well typed and leads to next or to failed.
LEMMA WriteRecordType ==
  ASSUME TypeOK, active \in Operation, NEW r \in Record, NEW next \in Label,
         NEW failed \in Label, WriteRecord(r, next, failed)
  PROVE  /\ operations' \in [Operation -> Record]
         /\ pc' \in {next, failed}
         /\ budget' \in Budget
         /\ operations' = operations \/ operations' = [operations EXCEPT ![active] = r]
BY ExecutorAssumption, SMT DEF TypeOK, WriteRecord, Fault, Budget

\* Enter keeps the journal well typed, and what it writes is a new status.
LEMMA EnterType ==
  ASSUME TypeOK, active \in Operation, NEW status \in Status, NEW next \in Label,
         NEW failed \in Label, Enter(status, next, failed)
  PROVE  /\ operations' \in [Operation -> Record]
         /\ pc' \in {next, failed}
         /\ budget' \in Budget
         /\ \/ operations' = operations
            \/ /\ CanEnter(op, status)
               /\ operations' = [operations EXCEPT ![active] = [op EXCEPT !.status = status]]
<1>1. CASE CanEnter(op, status) /\ WriteRecord([op EXCEPT !.status = status], next, failed)
  <2>1. [op EXCEPT !.status = status] \in Record
    BY DEF TypeOK, op, Record
  <2> QED BY <1>1, <2>1, WriteRecordType
<1>2. CASE pc' = failed /\ UNCHANGED <<operations, budget>>
  BY <1>2 DEF TypeOK
<1> QED BY <1>1, <1>2 DEF Enter

\* The other files of the state directory.
LEMMA WriteFilesType ==
  ASSUME TypeOK, NEW next \in Label, NEW failed \in Label
  PROVE  /\ \A c \in RuntimeContracts : WriteRuntime(c, next, failed) =>
              runtime' \in RuntimeContracts /\ pc' \in {next, failed} /\ budget' \in Budget
         /\ \A r \in Release : WriteLocator(r, next, failed) =>
              locator' \in Release /\ pc' \in {next, failed} /\ budget' \in Budget
BY ExecutorAssumption, SMT DEF TypeOK, WriteRuntime, WriteLocator, Fault, Budget

\* What a manifest says of a release is well typed.
LEMMA ManifestTyped ==
  ASSUME NEW r \in Release
  PROVE  /\ Manifest[r].database \in DatabaseContract
         /\ Manifest[r].configuration \in ConfigurationContract
         /\ Manifest[r].migrations \in SUBSET Migration
         /\ Manifest[r].supportedApis \in SUBSET PluginApi
BY ManifestAssumption DEF ManifestType

\* The active record is a record.
LEMMA ActiveRecord ==
  ASSUME TypeOK, active \in Operation
  PROVE  op \in Record /\ target \in Release
BY DEF TypeOK, op, target, Record

-----------------------------------------------------------------------------
(* The initial state.                                                        *)

\* The initial state is well typed, and nobody holds the lock.
LEMMA InitType == Init => TypeInv
<1> SUFFICES ASSUME Init PROVE TypeInv
  OBVIOUS
<1>1. locator \in Release
  BY ExecutorAssumption DEF Init
<1>2. runtime \in RuntimeContracts /\ applied \in SUBSET Migration
      /\ configured \in ConfigurationContract
  BY <1>1, ManifestTyped DEF Init, RuntimeContracts
<1>3. operations \in [Operation -> Record]
  BY <1>1, ExecutorAssumption DEF Init, NewRecord, Record, Kind
<1>4. budget \in Budget
  BY ExecutorAssumption DEF Init, Budget
<1>5. TypeOK
  BY <1>1, <1>2, <1>3, <1>4 DEF TypeOK, Init, Label, Service
<1>6. HolderInv
  BY DEF Init, HolderInv, HeldLabel, DatabaseLabel, ConfigurationLabel
<1> QED BY <1>5, <1>6 DEF TypeInv

-----------------------------------------------------------------------------
(* Every step preserves the typing invariant.                                *)

\* A step that only observes moves pc within the labels it names.
LEMMA ObserveType ==
  ASSUME TypeInv, NEW label \in HeldLabel, NEW next \in SUBSET PlainLabel,
         Observe(label, next)
  PROVE  TypeInv'
<1>1. TypeOK' /\ active' = active /\ active \in Operation /\ pc' \in PlainLabel
  BY DEF TypeInv, TypeOK, HolderInv, Observe, durable, host, process, PlainLabel
<1> QED BY <1>1 DEF TypeInv, HolderInv, PlainLabel

\* A step that only enters a status.
LEMMA EnterStepType ==
  ASSUME TypeInv, pc \in HeldLabel, NEW status \in Status, NEW next \in PlainLabel,
         NEW failed \in PlainLabel, Enter(status, next, failed),
         UNCHANGED <<durable, host, process>>
  PROVE  TypeInv'
<1>1. active \in Operation /\ next \in Label /\ failed \in Label
  BY DEF TypeInv, HolderInv, PlainLabel
<1>2. /\ operations' \in [Operation -> Record]
      /\ pc' \in {next, failed}
      /\ budget' \in Budget
  BY <1>1, EnterType DEF TypeInv
<1>3. TypeOK' /\ active' \in Operation
  BY <1>1, <1>2 DEF TypeInv, TypeOK, durable, host, process
<1> QED BY <1>2, <1>3 DEF TypeInv, HolderInv, PlainLabel

\* A step that only rewrites the active record.
LEMMA RecordStepType ==
  ASSUME TypeInv, pc \in HeldLabel, NEW r \in Record, NEW next \in PlainLabel,
         NEW failed \in PlainLabel, WriteRecord(r, next, failed),
         UNCHANGED <<durable, host, process>>
  PROVE  TypeInv'
<1>1. active \in Operation /\ next \in Label /\ failed \in Label
  BY DEF TypeInv, HolderInv, PlainLabel
<1>2. /\ operations' \in [Operation -> Record]
      /\ pc' \in {next, failed}
      /\ budget' \in Budget
  BY <1>1, WriteRecordType DEF TypeInv
<1>3. TypeOK' /\ active' \in Operation
  BY <1>1, <1>2 DEF TypeInv, TypeOK, durable, host, process
<1> QED BY <1>2, <1>3 DEF TypeInv, HolderInv, PlainLabel

\* A step that rewrites runtime.json.
LEMMA RuntimeStepType ==
  ASSUME TypeInv, pc \in HeldLabel, NEW c \in RuntimeContracts, NEW next \in PlainLabel,
         NEW failed \in PlainLabel, WriteRuntime(c, next, failed),
         UNCHANGED <<operations, slots, locator, host, process>>
  PROVE  TypeInv'
<1>1. active \in Operation /\ next \in Label /\ failed \in Label
  BY DEF TypeInv, HolderInv, PlainLabel
<1>2. runtime' \in RuntimeContracts /\ pc' \in {next, failed} /\ budget' \in Budget
  BY <1>1, WriteFilesType DEF TypeInv
<1>3. TypeOK' /\ active' \in Operation
  BY <1>1, <1>2 DEF TypeInv, TypeOK, host, process
<1> QED BY <1>2, <1>3 DEF TypeInv, HolderInv, PlainLabel

\* A step that records the plugin generations in runtime.json.
LEMMA PluginStepType ==
  ASSUME TypeInv, NEW label \in HeldLabel, NEW next \in PlainLabel,
         NEW failed \in PlainLabel, RecordPlugins(label, next, failed)
  PROVE  TypeInv'
<1>1. [runtime EXCEPT !.plugins = enabled] \in RuntimeContracts
  BY DEF TypeInv, TypeOK, RuntimeContracts
<1>2. CASE WriteRuntime([runtime EXCEPT !.plugins = enabled], next, failed)
  BY <1>1, <1>2, RuntimeStepType DEF RecordPlugins
<1>3. CASE pc' = failed /\ UNCHANGED <<runtime, budget>>
  <2>1. TypeOK' /\ active' \in Operation
    BY <1>3 DEF RecordPlugins, TypeInv, TypeOK, HolderInv, host, process, PlainLabel
  <2> QED BY <1>3, <2>1 DEF TypeInv, HolderInv, PlainLabel
<1> QED BY <1>2, <1>3 DEF RecordPlugins

\* A step that rewrites the locator.
LEMMA LocatorStepType ==
  ASSUME TypeInv, pc \in HeldLabel, NEW r \in Release, NEW next \in PlainLabel,
         NEW failed \in PlainLabel, WriteLocator(r, next, failed),
         UNCHANGED <<operations, slots, runtime, host, process>>
  PROVE  TypeInv'
<1>1. active \in Operation /\ next \in Label /\ failed \in Label
  BY DEF TypeInv, HolderInv, PlainLabel
<1>2. locator' \in Release /\ pc' \in {next, failed} /\ budget' \in Budget
  BY <1>1, WriteFilesType DEF TypeInv
<1>3. TypeOK' /\ active' \in Operation
  BY <1>1, <1>2 DEF TypeInv, TypeOK, host, process
<1> QED BY <1>2, <1>3 DEF TypeInv, HolderInv, PlainLabel

\* compose up leaves each service on its release, on the new one, or stopped.
LEMMA RecreateStepType ==
  ASSUME TypeInv, pc \in HeldLabel, NEW release \in Release, NEW next \in PlainLabel,
         NEW failed \in PlainLabel, Recreate(release, next, failed),
         UNCHANGED <<operations, durable, applied, configured, enabled, job, process,
                     budget>>
  PROVE  TypeInv'
<1>1. app' \in [Service -> Release \cup {Stopped}] /\ pc' \in {next, failed}
  BY DEF TypeInv, TypeOK, Recreate
<1>2. TypeOK' /\ active' \in Operation
  BY <1>1 DEF TypeInv, TypeOK, HolderInv, durable, process, PlainLabel
<1> QED BY <1>1, <1>2 DEF TypeInv, HolderInv, PlainLabel

\* The steps of a worker that apply and rollback share.
LEMMA SharedStepType == TypeInv /\ SharedStep => TypeInv'
<1> SUFFICES ASSUME TypeInv, SharedStep PROVE TypeInv'
  OBVIOUS
<1> USE DEF HeldLabel, PlainLabel, DatabaseLabel, ConfigurationLabel, Label, WorkerLabel,
            ApplyLabel, SwitchLabel, HandlerLabel, ReconcileLabel, Status, Transitions
<1>1. CASE Begin
  BY <1>1 DEF Begin, TypeInv, TypeOK, HolderInv, durable, host
<1>2. CASE EnterPreflight
  BY <1>2, EnterStepType DEF EnterPreflight, EnterStatus
<1>3. CASE CheckHost
  BY <1>3, ObserveType DEF CheckHost
<1>4. CASE EnterFetching
  BY <1>4, EnterStepType DEF EnterFetching, EnterStatus
<1>5. CASE Fetch
  BY <1>5, ObserveType DEF Fetch
<1>6. CASE EnterVerifying
  BY <1>6, EnterStepType DEF EnterVerifying, EnterStatus
<1>7. CASE VerifyRelease
  BY <1>7, ObserveType DEF VerifyRelease
<1>8. CASE InspectPlugins
  BY <1>8, PluginStepType DEF InspectPlugins
<1>9. CASE Plan
  BY <1>9, ObserveType DEF Plan
<1>10. CASE EnterPulling
  BY <1>10, EnterStepType DEF EnterPulling, EnterStatus
<1>11. CASE Pull
  BY <1>11, ObserveType DEF Pull
<1>12. CASE EnterSwitching
  BY <1>12, EnterStepType DEF EnterSwitching, EnterStatus
<1>13. CASE Switch
  <2>1. active \in Operation
    BY <1>13 DEF Switch, TypeInv, HolderInv
  <2>2. target \in Release
    BY <2>1, ActiveRecord DEF TypeInv
  <2> QED BY <1>13, <2>2, RecreateStepType DEF Switch
<1>14. CASE EnterVerifyingHealth
  BY <1>14, EnterStepType DEF EnterVerifyingHealth, EnterStatus
<1>15. CASE VerifyHealth
  BY <1>15, ObserveType DEF VerifyHealth
<1>16. CASE RecordPreviousPlugins
  BY <1>16, PluginStepType DEF RecordPreviousPlugins
<1>17. CASE Promote
  <2>1. active \in Operation
    BY <1>17 DEF Promote, TypeInv, HolderInv
  <2>2. target \in Release
    BY <2>1, ActiveRecord DEF TypeInv
  <2>3. /\ slots' \in [current : Release, previous : Release \cup {None},
                      history : SUBSET Release]
        /\ pc' \in {"publish", "error"} /\ budget' \in Budget
    BY <1>17, <2>2, ExecutorAssumption
       DEF Promote, WriteSlots, Fault, Budget, TypeInv, TypeOK
  <2> QED BY <1>17, <2>1, <2>3 DEF Promote, TypeInv, TypeOK, HolderInv, host, process
<1>18. CASE PublishLocator
  <2>1. active \in Operation
    BY <1>18 DEF PublishLocator, TypeInv, HolderInv
  <2>2. target \in Release
    BY <2>1, ActiveRecord DEF TypeInv
  <2> QED BY <1>18, <2>2, LocatorStepType DEF PublishLocator
<1>19. CASE PublishFailed
  BY <1>19, EnterStepType DEF PublishFailed
<1>20. CASE Finish
  BY <1>20, EnterStepType DEF Finish
<1> QED
  BY <1>1, <1>2, <1>3, <1>4, <1>5, <1>6, <1>7, <1>8, <1>9, <1>10, <1>11, <1>12, <1>13, <1>14,
     <1>15, <1>16, <1>17, <1>18, <1>19, <1>20
     DEF SharedStep

\* The steps of apply alone.
LEMMA ApplyStepType == TypeInv /\ ApplyStep => TypeInv'
<1> SUFFICES ASSUME TypeInv, ApplyStep PROVE TypeInv'
  OBVIOUS
<1> USE DEF HeldLabel, PlainLabel, DatabaseLabel, ConfigurationLabel, Label, WorkerLabel,
            ApplyLabel, SwitchLabel, HandlerLabel, ReconcileLabel, Status, Transitions
<1>1. CASE BindRecoveryTarget
  <2>1. active \in Operation /\ op \in Record /\ target \in Release
    BY <1>1, ActiveRecord DEF BindRecoveryTarget, TypeInv, HolderInv
  <2>2. [op EXCEPT !.bound = TRUE] \in Record
    BY <2>1, ManifestTyped
       DEF Record, DatabaseTransition, ConfigurationTransition, TypeInv, TypeOK,
           RuntimeContracts, Kind
  <2> QED BY <1>1, <2>2, RecordStepType DEF BindRecoveryTarget
<1>2. CASE EnterBackup
  BY <1>2, EnterStepType DEF EnterBackup, EnterStatus
<1>3. CASE BackupDatabase
  BY <1>3, ObserveType DEF BackupDatabase
<1>4. CASE MarkDatabasePending
  <2>1. active \in Operation /\ op \in Record /\ target \in Release
    BY <1>4, ActiveRecord DEF MarkDatabasePending, TypeInv, HolderInv
  <2>2. [op EXCEPT !.database = [before |-> runtime.database,
                              after  |-> Manifest[target].database]] \in Record
    BY <2>1, ManifestTyped
       DEF Record, DatabaseTransition, ConfigurationTransition, TypeInv, TypeOK,
           RuntimeContracts, Kind
  <2> QED BY <1>4, <2>2, RecordStepType DEF MarkDatabasePending
<1>5. CASE EnterMigrating
  BY <1>5, EnterStepType DEF EnterMigrating, EnterStatus
<1>6. CASE QuiesceWriters
  <2>1. active \in Operation /\ op \in Record /\ target \in Release
    BY <1>6, ActiveRecord DEF QuiesceWriters, TypeInv, HolderInv
  <2>2. TypeOK' /\ pc' \in {"migrate", "error"} /\ UNCHANGED <<active, operations>>
    BY <1>6 DEF QuiesceWriters, TypeInv, TypeOK, Service, durable, process
  <2> QED BY <2>1, <2>2 DEF TypeInv, HolderInv
<1>7. CASE Migrate
  <2>1. active \in Operation /\ op \in Record /\ target \in Release
    BY <1>7, ActiveRecord DEF Migrate, TypeInv, HolderInv
  <2>2. Manifest[target].migrations \in SUBSET Migration
    BY <2>1, ManifestTyped
  <2>3. TypeOK' /\ pc' \in {"record_database", "error"} /\ UNCHANGED <<active, operations>>
    BY <1>7, <2>2 DEF Migrate, TypeInv, TypeOK, durable, process
  <2> QED BY <2>1, <2>3 DEF TypeInv, HolderInv
<1>8. CASE RecordDatabaseContract
  <2>1. active \in Operation /\ op \in Record /\ target \in Release
    BY <1>8, ActiveRecord DEF RecordDatabaseContract, TypeInv, HolderInv
  <2>2. [runtime EXCEPT !.database = Manifest[target].database] \in RuntimeContracts
    BY <2>1, ManifestTyped DEF TypeInv, TypeOK, RuntimeContracts
  <2> QED BY <1>8, <2>2, RuntimeStepType DEF RecordDatabaseContract
<1>9. CASE ResolveDatabase
  <2>1. active \in Operation /\ op \in Record /\ target \in Release
    BY <1>9, ActiveRecord DEF ResolveDatabase, TypeInv, HolderInv
  <2>2. [op EXCEPT !.database = None] \in Record
    BY <2>1, ManifestTyped
       DEF Record, DatabaseTransition, ConfigurationTransition, TypeInv, TypeOK,
           RuntimeContracts, Kind
  <2> QED BY <1>9, <2>2, RecordStepType DEF ResolveDatabase
<1>10. CASE MarkConfigurationPending
  <2>1. active \in Operation /\ op \in Record /\ target \in Release
    BY <1>10, ActiveRecord DEF MarkConfigurationPending, TypeInv, HolderInv
  <2>2. [op EXCEPT !.configuration = [before |-> runtime.configuration,
                                   after  |-> Manifest[target].configuration]] \in Record
    BY <2>1, ManifestTyped
       DEF Record, DatabaseTransition, ConfigurationTransition, TypeInv, TypeOK,
           RuntimeContracts, Kind
  <2> QED BY <1>10, <2>2, RecordStepType DEF MarkConfigurationPending
<1>11. CASE EnterBootstrapping
  BY <1>11, EnterStepType DEF EnterBootstrapping, EnterStatus
<1>12. CASE Bootstrap
  <2>1. active \in Operation /\ op \in Record /\ target \in Release
    BY <1>12, ActiveRecord DEF Bootstrap, TypeInv, HolderInv
  <2>2. Manifest[target].configuration \in ConfigurationContract
    BY <2>1, ManifestTyped
  <2>3. TypeOK' /\ pc' \in {"record_configuration", "error"} /\ UNCHANGED <<active, operations>>
    BY <1>12, <2>2 DEF Bootstrap, RunBootstrap, TypeInv, TypeOK, durable, process
  <2> QED BY <2>1, <2>3 DEF TypeInv, HolderInv
<1>13. CASE RecordConfigurationContract
  <2>1. active \in Operation /\ op \in Record /\ target \in Release
    BY <1>13, ActiveRecord DEF RecordConfigurationContract, TypeInv, HolderInv
  <2>2. [runtime EXCEPT !.configuration = Manifest[target].configuration] \in RuntimeContracts
    BY <2>1, ManifestTyped DEF TypeInv, TypeOK, RuntimeContracts
  <2> QED BY <1>13, <2>2, RuntimeStepType DEF RecordConfigurationContract
<1>14. CASE RecordTargetPlugins
  BY <1>14, PluginStepType DEF RecordTargetPlugins
<1>15. CASE ResolveConfiguration
  <2>1. active \in Operation /\ op \in Record /\ target \in Release
    BY <1>15, ActiveRecord DEF ResolveConfiguration, TypeInv, HolderInv
  <2>2. [op EXCEPT !.configuration = None] \in Record
    BY <2>1, ManifestTyped
       DEF Record, DatabaseTransition, ConfigurationTransition, TypeInv, TypeOK,
           RuntimeContracts, Kind
  <2> QED BY <1>15, <2>2, RecordStepType DEF ResolveConfiguration
<1>16. CASE Replan
  BY <1>16, ObserveType DEF Replan
<1> QED BY <1>1, <1>2, <1>3, <1>4, <1>5, <1>6, <1>7, <1>8, <1>9, <1>10, <1>11,
           <1>12, <1>13, <1>14, <1>15, <1>16
    DEF ApplyStep

\* The exception handlers and the end of a worker.
LEMMA HandlerStepType == TypeInv /\ HandlerStep => TypeInv'
<1> SUFFICES ASSUME TypeInv, HandlerStep PROVE TypeInv'
  OBVIOUS
<1> USE DEF HeldLabel, PlainLabel, DatabaseLabel, ConfigurationLabel, Label, WorkerLabel,
            ApplyLabel, SwitchLabel, HandlerLabel, ReconcileLabel, Status, Transitions
<1>1. CASE Incompatible
  BY <1>1, EnterStepType DEF Incompatible, EnterStatus
<1>2. CASE ApplyFailed
  <2>1. CASE UNCHANGED <<operations, budget>> /\ pc' \in {"rolling_back", "release"}
    BY <1>2, <2>1 DEF ApplyFailed, TypeInv, TypeOK, HolderInv, durable, host, process
  <2>2. CASE ~ (UNCHANGED <<operations, budget>> /\ pc' \in {"rolling_back", "release"})
    BY <1>2, <2>2, EnterStepType DEF ApplyFailed
  <2> QED BY <2>1, <2>2
<1>3. CASE RollbackFailed
  <2>1. CASE UNCHANGED <<operations, budget>> /\ pc' \in {"rolling_back", "release"}
    BY <1>3, <2>1 DEF RollbackFailed, TypeInv, TypeOK, HolderInv, durable, host, process
  <2>2. CASE ~ (UNCHANGED <<operations, budget>> /\ pc' \in {"rolling_back", "release"})
    BY <1>3, <2>2, EnterStepType DEF RollbackFailed
  <2> QED BY <2>1, <2>2
<1>4. CASE EnterRollingBack
  BY <1>4, EnterStepType DEF EnterRollingBack, EnterStatus
<1>5. CASE Restore
  BY <1>5, RecreateStepType DEF Restore, TypeInv, TypeOK
<1>6. CASE VerifyRestored
  BY <1>6, ObserveType DEF VerifyRestored
<1>7. CASE RecordRestoredPlugins
  BY <1>7, PluginStepType DEF RecordRestoredPlugins
<1>8. CASE FinishRestore
  BY <1>8, EnterStepType DEF FinishRestore, EnterStatus
<1>9. CASE RestoreFailed
  BY <1>9, EnterStepType DEF RestoreFailed, EnterStatus
<1>10. CASE WorkerFailed
  <2>1. CASE UNCHANGED <<operations, budget>> /\ pc' \in {"rolling_back", "release"}
    BY <1>10, <2>1 DEF WorkerFailed, TypeInv, TypeOK, HolderInv, durable, host, process
  <2>2. CASE ~ (UNCHANGED <<operations, budget>> /\ pc' \in {"rolling_back", "release"})
    BY <1>10, <2>2, EnterStepType DEF WorkerFailed, RecoveredStatus
  <2> QED BY <2>1, <2>2
<1>11. CASE ReleaseLock
  BY <1>11, ExecutorAssumption DEF ReleaseLock, TypeInv, TypeOK, HolderInv, durable, host
<1> QED BY <1>1, <1>2, <1>3, <1>4, <1>5, <1>6, <1>7, <1>8, <1>9, <1>10, <1>11
    DEF HandlerStep

\* The steps of reconcile.
LEMMA ReconcileStepType == TypeInv /\ ReconcileStep => TypeInv'
<1> SUFFICES ASSUME TypeInv, ReconcileStep PROVE TypeInv'
  OBVIOUS
<1> USE DEF HeldLabel, PlainLabel, DatabaseLabel, ConfigurationLabel, Label, WorkerLabel,
            ApplyLabel, SwitchLabel, HandlerLabel, ReconcileLabel, Status, Transitions
<1>1. CASE ReconcileReceipt
  <2>1. active \in Operation /\ op \in Record /\ target \in Release
    BY <1>1, ActiveRecord DEF ReconcileReceipt, Observe, TypeInv, HolderInv
  <2>2. TypeOK' /\ UNCHANGED <<active, operations>>
    <3>1. pc' \in Label
      BY <1>1 DEF ReconcileReceipt, Observe, Resolve
    <3>2. UNCHANGED <<operations, durable, host, process, budget>>
      BY <1>1 DEF ReconcileReceipt, Observe
    <3> HIDE DEF Label
    <3> QED BY <3>1, <3>2 DEF TypeInv, TypeOK, durable, host, process
  <2>3. pc' \in DatabaseLabel => op.database # None
    BY <1>1 DEF ReconcileReceipt, Observe, Resolve
  <2>4. pc' \in ConfigurationLabel => op.configuration # None
    BY <1>1 DEF ReconcileReceipt, Observe, Resolve
  <2> QED BY <2>1, <2>2, <2>3, <2>4 DEF TypeInv, HolderInv, op
<1>2. CASE ResolveUncertainDatabase
  <2>1. active \in Operation /\ op \in Record /\ target \in Release
    BY <1>2, ActiveRecord DEF ResolveUncertainDatabase, TypeInv, HolderInv
  <2>2. op.database # None
    BY <1>2 DEF ResolveUncertainDatabase, TypeInv, HolderInv
  <2>3. op.database.before \in DatabaseContract /\ op.database.after \in DatabaseContract
    BY <2>1, <2>2 DEF Record, DatabaseTransition
  <2>4. \A d \in DatabaseContract : [runtime EXCEPT !.database = d] \in RuntimeContracts
    BY DEF TypeInv, TypeOK, RuntimeContracts
  <2>5. /\ runtime' \in RuntimeContracts /\ budget' \in Budget
        /\ pc' \in {"clear_database", "release"}
    BY <1>2, <2>3, <2>4, WriteFilesType DEF ResolveUncertainDatabase, TypeInv, TypeOK
  <2> QED BY <1>2, <2>1, <2>2, <2>5
             DEF ResolveUncertainDatabase, TypeInv, TypeOK, HolderInv, host, process, op
<1>3. CASE ClearDatabase
  <2>1. active \in Operation /\ op \in Record /\ target \in Release
    BY <1>3, ActiveRecord DEF ClearDatabase, TypeInv, HolderInv
  <2>2. [op EXCEPT !.database = None] \in Record
    BY <2>1 DEF Record
  <2>3. Resolve \in Label
    BY DEF Resolve
  <2>4. /\ operations' \in [Operation -> Record] /\ budget' \in Budget
        /\ pc' \in {Resolve, "release"}
        /\ \/ operations' = operations
           \/ operations' = [operations EXCEPT ![active] = [op EXCEPT !.database = None]]
    BY <1>3, <2>1, <2>2, <2>3, WriteRecordType DEF ClearDatabase, TypeInv
  <2>5. op'.configuration = op.configuration
    BY <1>3, <2>1, <2>4 DEF ClearDatabase, TypeInv, TypeOK, op, process, Record
  <2> QED BY <1>3, <2>1, <2>4, <2>5
             DEF ClearDatabase, TypeInv, TypeOK, HolderInv, durable, host, process, Resolve
<1>4. CASE ResolveUncertainConfiguration
  <2>1. active \in Operation /\ op \in Record /\ target \in Release
    BY <1>4, ActiveRecord DEF ResolveUncertainConfiguration, TypeInv, HolderInv
  <2>2. Manifest[target].configuration \in ConfigurationContract
    BY <2>1, ManifestTyped
  <2>3. TypeOK' /\ UNCHANGED <<active, operations>>
    BY <1>4, <2>2
       DEF ResolveUncertainConfiguration, RunBootstrap, TypeInv, TypeOK, durable, process
  <2>4. pc' \in ConfigurationLabel \cup {"release"} /\ op.configuration # None
    BY <1>4 DEF ResolveUncertainConfiguration, RunBootstrap, TypeInv, HolderInv
  <2> QED BY <2>1, <2>3, <2>4 DEF TypeInv, HolderInv, op
<1>5. CASE RecordUncertainConfiguration
  <2>1. active \in Operation /\ op \in Record /\ target \in Release
    BY <1>5, ActiveRecord DEF RecordUncertainConfiguration, TypeInv, HolderInv
  <2>2. op.configuration # None
    BY <1>5 DEF RecordUncertainConfiguration, TypeInv, HolderInv
  <2>3. op.configuration.after \in ConfigurationContract
    BY <2>1, <2>2 DEF Record, ConfigurationTransition
  <2>4. [runtime EXCEPT !.configuration = op.configuration.after, !.plugins = enabled]
          \in RuntimeContracts
    BY <2>3 DEF TypeInv, TypeOK, RuntimeContracts
  <2>5. /\ runtime' \in RuntimeContracts /\ budget' \in Budget
        /\ pc' \in {"clear_configuration", "release"}
    BY <1>5, <2>4, WriteFilesType DEF RecordUncertainConfiguration, TypeInv, TypeOK
  <2> QED BY <1>5, <2>1, <2>2, <2>5
             DEF RecordUncertainConfiguration, TypeInv, TypeOK, HolderInv, host, process,
                 op
<1>6. CASE ClearConfiguration
  <2>1. active \in Operation /\ op \in Record /\ target \in Release
    BY <1>6, ActiveRecord DEF ClearConfiguration, TypeInv, HolderInv
  <2>2. [op EXCEPT !.configuration = None] \in Record
    BY <2>1 DEF Record
  <2>3. CASE PlanAllowed(runtime, target)
    BY <1>6, <2>2, <2>3, RecordStepType DEF ClearConfiguration
  <2>4. CASE ~ PlanAllowed(runtime, target)
    BY <1>6, <2>1, <2>4
       DEF ClearConfiguration, TypeInv, TypeOK, HolderInv, durable, host, process
  <2> QED BY <2>3, <2>4
<1>7. CASE ReconcilePlan
  BY <1>7, ObserveType DEF ReconcilePlan
<1>8. CASE ReconcileSwitch
  BY <1>8, RecreateStepType DEF ReconcileSwitch, TypeInv, TypeOK
<1>9. CASE ReconcileHealth
  BY <1>9, ObserveType DEF ReconcileHealth
<1>10. CASE ReconcileRuntime
  <2>1. [runtime EXCEPT !.plugins = enabled] \in RuntimeContracts
    BY DEF TypeInv, TypeOK, RuntimeContracts
  <2>2. CASE CurrentAccepted
    BY <1>10, <2>1, <2>2, RuntimeStepType DEF ReconcileRuntime
  <2>3. CASE ~ CurrentAccepted
    BY <1>10, <2>3 DEF ReconcileRuntime, TypeInv, TypeOK, HolderInv, host, process
  <2> QED BY <2>2, <2>3
<1>11. CASE ReconcileLocator
  BY <1>11, LocatorStepType DEF ReconcileLocator, TypeInv, TypeOK
<1>12. CASE Reconciled
  BY <1>12, EnterStepType DEF Reconciled, EnterStatus
<1> QED BY <1>1, <1>2, <1>3, <1>4, <1>5, <1>6, <1>7, <1>8, <1>9, <1>10, <1>11,
           <1>12
    DEF ReconcileStep

\* The restart of the agent and its recovery.
LEMMA RecoveryStepType == TypeInv /\ RecoveryStep => TypeInv'
<1> SUFFICES ASSUME TypeInv, RecoveryStep PROVE TypeInv'
  OBVIOUS
<1> USE DEF HeldLabel, PlainLabel, DatabaseLabel, ConfigurationLabel, Label, WorkerLabel,
            ApplyLabel, SwitchLabel, HandlerLabel, ReconcileLabel, Status, Transitions
<1>1. CASE Restart
  BY <1>1, ExecutorAssumption DEF Restart, TypeInv, TypeOK, HolderInv, durable, host
<1>2. CASE RecoverOperation
  <2>1. PICK o \in Operation :
          LET written == [operations EXCEPT ![o].status = RecoveredStatus(operations[o])]
          IN  \/ operations' = written /\ UNCHANGED <<agent, pc, budget>>
              \/ /\ operations' \in {operations, written}
                 /\ agent' = "down" /\ pc' = "unlocked" /\ Fault
    BY <1>2 DEF RecoverOperation
  <2>2. [operations EXCEPT ![o].status = RecoveredStatus(operations[o])]
          \in [Operation -> Record]
    BY DEF RecoveredStatus, TypeInv, TypeOK, Record
  <2>3. operations' \in [Operation -> Record] /\ budget' \in Budget
    BY <2>1, <2>2, ExecutorAssumption DEF Fault, Budget, TypeInv, TypeOK
  <2> QED
    BY <1>2, <2>1, <2>3 DEF RecoverOperation, TypeInv, TypeOK, HolderInv, durable, host
<1>3. CASE Serve
  BY <1>3, ExecutorAssumption DEF Serve, TypeInv, TypeOK, HolderInv, durable, host
<1> QED BY <1>1, <1>2, <1>3
    DEF RecoveryStep

\* Admission creates a well-typed record, or none.
LEMMA AdmitType ==
  ASSUME TypeInv, NEW o \in Operation, NEW kind \in Kind, NEW release \in Release,
         Admit(o, kind, release)
  PROVE  TypeInv'
<1> DEFINE written == [operations EXCEPT ![o] = NewRecord(kind, release)]
<1>1. NewRecord(kind, release) \in Record
  BY DEF NewRecord, Record, Status, Transitions
<1>2. written \in [Operation -> Record]
      /\ [written EXCEPT ![o].status = "failed_pre_switch"] \in [Operation -> Record]
  BY <1>1 DEF TypeInv, TypeOK, Record, Status, Transitions
<1>3. operations' \in [Operation -> Record] /\ budget' \in Budget
  BY <1>2, ExecutorAssumption DEF Admit, Fault, Budget, TypeInv, TypeOK
<1>4. (pc' = "begin" /\ active' = o) \/ (pc' = "unlocked" /\ active' = active)
  BY DEF Admit
<1> QED
  BY <1>3, <1>4
     DEF Admit, TypeInv, TypeOK, HolderInv, durable, host, HeldLabel, DatabaseLabel,
         ConfigurationLabel, Label, WorkerLabel, SwitchLabel

\* Operations begin, processes die, the world moves.
LEMMA EnvironmentType == TypeInv /\ Environment => TypeInv'
<1> SUFFICES ASSUME TypeInv, Environment PROVE TypeInv'
  OBVIOUS
<1> USE DEF HeldLabel, PlainLabel, DatabaseLabel, ConfigurationLabel, Label, WorkerLabel,
            ApplyLabel, SwitchLabel, HandlerLabel, ReconcileLabel, Status, Transitions
<1>1. CASE StartApply
  BY <1>1, AdmitType DEF StartApply, Kind
<1>2. CASE StartRollback
  <2>1. slots.previous \in Release
    BY <1>2 DEF StartRollback, TypeInv, TypeOK
  <2> QED BY <1>2, <2>1, AdmitType DEF StartRollback, Kind
<1>3. CASE StartReconcile
  BY <1>3 DEF StartReconcile, TypeInv, TypeOK, HolderInv, durable, host
<1>4. CASE KillAgent
  <2>1. budget' \in Budget
    BY <1>4, ExecutorAssumption DEF KillAgent, Crash, Budget, TypeInv, TypeOK
  <2>2. UNCHANGED <<operations, durable, host, base>>
    BY <1>4 DEF KillAgent, Crash
  <2>3. /\ agent' \in {"up", "starting", "down"}
        /\ (pc' = "unlocked" /\ active' = None) \/ UNCHANGED <<pc, active>>
    BY <1>4 DEF KillAgent, TypeInv, TypeOK
  <2> QED BY <2>1, <2>2, <2>3 DEF TypeInv, TypeOK, HolderInv, durable, host, op
<1>5. CASE KillReconcile
  <2>1. budget' \in Budget
    BY <1>5, ExecutorAssumption DEF KillReconcile, Crash, Budget, TypeInv, TypeOK
  <2>2. UNCHANGED <<operations, durable, host, base>>
    BY <1>5 DEF KillReconcile, Crash
  <2>3. /\ agent' \in {"up", "starting", "down"}
        /\ (pc' = "unlocked" /\ active' = None) \/ UNCHANGED <<pc, active>>
    BY <1>5 DEF KillReconcile, TypeInv, TypeOK
  <2> QED BY <2>1, <2>2, <2>3 DEF TypeInv, TypeOK, HolderInv, durable, host, op
<1>6. CASE EnablePlugins
  <2>1. app["api"] \in Release
    BY <1>6 DEF EnablePlugins, TypeInv, TypeOK, Service
  <2>2. enabled' \in SUBSET PluginApi
    BY <1>6, <2>1, ManifestTyped DEF EnablePlugins
  <2> QED BY <1>6, <2>2 DEF EnablePlugins, TypeInv, TypeOK, HolderInv, durable, process, op
<1>7. CASE JobApplies
  BY <1>7 DEF JobApplies, TypeInv, TypeOK, HolderInv, durable, process, op
<1> QED BY <1>1, <1>2, <1>3, <1>4, <1>5, <1>6, <1>7
    DEF Environment

-----------------------------------------------------------------------------
(* Type correctness.                                                         *)

\* No step, stuttering included, breaks the typing invariant.
LEMMA StepType == TypeInv /\ [Next]_vars => TypeInv'
<1> SUFFICES ASSUME TypeInv, [Next]_vars PROVE TypeInv'
  OBVIOUS
<1>1. CASE UNCHANGED vars
  BY <1>1 DEF TypeInv, TypeOK, HolderInv, vars, durable, host, process, op
<1>2. CASE Next
  BY <1>2, SharedStepType, ApplyStepType, HandlerStepType, ReconcileStepType,
     RecoveryStepType, EnvironmentType DEF Next
<1> QED BY <1>1, <1>2

\* Every reachable state is well typed, and whoever holds the update lock works
\* on an operation of the journal whose pending transitions are still recorded.
THEOREM TypeCorrect == Spec => []TypeInv
<1>1. Init => TypeInv
  BY InitType
<1>2. TypeInv /\ [Next]_vars => TypeInv'
  BY StepType
<1> QED BY <1>1, <1>2, PTL DEF Spec

\* TypeOK, the type invariant of every run.
THEOREM TypeOKHolds == Spec => []TypeOK
<1>1. TypeInv => TypeOK
  BY DEF TypeInv
<1> QED BY <1>1, TypeCorrect, PTL
-----------------------------------------------------------------------------
(* The journal: safety of UpdateExecutor and its refinement of HostMutation.  *)

MigratingLabel == {"quiesce", "migrate", "record_database", "resolve_database"}

BootstrappingLabel ==
  {"bootstrap", "record_configuration", "record_target_plugins",
   "resolve_configuration", "replan"}

HealthLabel ==
  {"verify_health", "record_previous_plugins", "promote", "publish", "publish_error",
   "finish"}

RestoreLabel == {"restore", "verify_restored", "record_restored", "restored"}

ReceiptLabel == {"inspect", "plan", "backup", "dump", "pulling"}

\* What a record says when the holder of the lock is at a label: its status, that
\* the step belongs to its kind, and its recovery receipt.
Fits(label, record) ==
  /\ label \in MigratingLabel              => record.status = "migrating"
  /\ label \in BootstrappingLabel          => record.status = "bootstrapping"
  /\ label \in {"switch", "verifying_health"} => record.status = "switching"
  /\ label \in HealthLabel                 => record.status = "verifying_health"
  /\ label \in RestoreLabel                => record.status = "rolling_back"
  /\ label \in ReconcileLabel              => record.status = "manual_recovery_required"
  /\ label \in ApplyLabel                  => record.kind = "apply_update"
  /\ label \in ReceiptLabel /\ record.kind = "apply_update" => record.bound

\* The statuses an apply enters before it writes its recovery receipt.
Unreceipted == {"absent", "idle", "preflight", "fetching", "verifying", "failed_pre_switch"}

\* Past those an apply has its receipt; a rollback has no contract transition.
RecordInv(record) ==
  /\ record.kind = "apply_update" /\ record.status \notin Unreceipted => record.bound
  /\ record.kind = "rollback_previous" => record.database = None /\ record.configuration = None

JournalInv ==
  /\ \A o \in Operation : RecordInv(operations[o])
  /\ Fits(pc, op)
  /\ pc \in {"unlocked", "recovering"} => active = None

Inv == TypeInv /\ JournalInv

\* Labels a failed step leaves for, where the record may say anything.
FailedLabel == {"error", "worker_error", "restore_error", "release"}

-----------------------------------------------------------------------------
(* The three shapes of a step of the holder.                                 *)

\* A record may say anything at the labels of the handlers.
LEMMA FailedFits ==
  ASSUME NEW label \in FailedLabel, NEW record
  PROVE  Fits(label, record) /\ label \in HeldLabel
BY DEF Fits, FailedLabel, MigratingLabel, BootstrappingLabel, HealthLabel, RestoreLabel,
       ReceiptLabel, ReconcileLabel, ApplyLabel, HeldLabel, Label, WorkerLabel, HandlerLabel

\* The journal is left alone and the next label fits the record.
LEMMA MoveJournal ==
  ASSUME Inv, UNCHANGED <<operations, active>>, pc' \in HeldLabel, Fits(pc', op)
  PROVE  JournalInv'
<1>1. op' = op
  BY DEF op
<1> QED BY <1>1 DEF Inv, JournalInv, HeldLabel, Fits

\* The active record is rewritten.
LEMMA RecordJournal ==
  ASSUME Inv, pc \in HeldLabel, NEW r \in Record, NEW next \in HeldLabel,
         NEW failed \in FailedLabel, WriteRecord(r, next, failed), UNCHANGED active,
         RecordInv(r), Fits(next, r)
  PROVE  JournalInv'
<1>1. active \in Operation /\ TypeOK
  BY DEF Inv, TypeInv, HolderInv
<1>2. next \in Label /\ failed \in Label
  BY FailedFits DEF HeldLabel
<1>3. pc' \in {next, failed}
      /\ (operations' = operations \/ operations' = [operations EXCEPT ![active] = r])
  BY <1>1, <1>2, WriteRecordType
<1>4. \A o \in Operation : RecordInv(operations'[o])
  BY <1>1, <1>3 DEF Inv, JournalInv, TypeOK
<1>5. pc' = next \/ pc' = failed
  BY <1>3
<1>6. pc' = next /\ pc' \notin FailedLabel => op' = r
  BY <1>1, FailedFits DEF WriteRecord, op, TypeOK
<1>7. Fits(pc', op')
  BY <1>5, <1>6, FailedFits
<1> QED BY <1>4, <1>5, <1>7, FailedFits DEF JournalInv, HeldLabel, Fits

\* The active operation enters a status.  The edges of the automaton make the
\* receipt follow: only "backup", "pulling" and "adopting" leave the statuses
\* that need none.
LEMMA EnterJournal ==
  ASSUME Inv, pc \in HeldLabel, NEW status \in Status, NEW next \in HeldLabel,
         NEW failed \in FailedLabel, Enter(status, next, failed), UNCHANGED active,
         status \in {"backup", "pulling", "adopting"} /\ Applying => op.bound,
         Fits(next, [op EXCEPT !.status = status])
  PROVE  JournalInv'
<1> DEFINE r == [op EXCEPT !.status = status]
<1>1. active \in Operation /\ TypeOK /\ op \in Record
  BY ActiveRecord DEF Inv, TypeInv, HolderInv
<1>2. CASE CanEnter(op, status) /\ WriteRecord(r, next, failed)
  <2>1. r \in Record
    BY <1>1 DEF Record
  <2>2. RecordInv(op)
    BY <1>1 DEF Inv, JournalInv, op
  <2>3. Applying /\ op.status \in Unreceipted =>
          status \in Unreceipted \cup {"backup", "pulling", "adopting"}
    BY <1>2 DEF CanEnter, Unreceipted, Status, Transitions
  <2>4. r.kind = op.kind /\ r.bound = op.bound /\ r.status = status
        /\ r.database = op.database /\ r.configuration = op.configuration
    BY <1>1 DEF Record
  <2>5. RecordInv(r)
    BY <2>2, <2>3, <2>4 DEF RecordInv, Applying, Unreceipted
  <2> QED BY <1>2, <2>1, <2>5, RecordJournal
<1>3. CASE pc' = failed /\ UNCHANGED <<operations, budget>>
  BY <1>3, FailedFits, MoveJournal
<1> QED BY <1>2, <1>3 DEF Enter
-----------------------------------------------------------------------------
(* Every step keeps the journal invariant.                                   *)

\* The record the holder works on.
LEMMA ActiveFits ==
  ASSUME Inv
  PROVE  /\ pc \in HeldLabel => active \in Operation /\ op \in Record /\ RecordInv(op)
         /\ Fits(pc, op)
BY ActiveRecord DEF Inv, TypeInv, HolderInv, JournalInv, op

\* The steps of a worker that apply and rollback share.
LEMMA SharedJournal == Inv /\ SharedStep => JournalInv'
<1> SUFFICES ASSUME Inv, SharedStep PROVE JournalInv'
  OBVIOUS
<1> USE DEF Fits, MigratingLabel, BootstrappingLabel, HealthLabel, RestoreLabel,
            ReceiptLabel, FailedLabel, HeldLabel, Label, WorkerLabel, ApplyLabel, SwitchLabel,
            HandlerLabel, ReconcileLabel, Status, Transitions
<1>0. Fits(pc, op)
  BY ActiveFits
<1>1. CASE Begin
  BY <1>1, <1>0, MoveJournal DEF Begin, process, host, durable
<1>2. CASE EnterPreflight
  BY <1>2, <1>0, EnterJournal DEF EnterPreflight, EnterStatus, process
<1>3. CASE CheckHost
  BY <1>3, <1>0, MoveJournal DEF CheckHost, Observe, process
<1>4. CASE EnterFetching
  BY <1>4, <1>0, EnterJournal DEF EnterFetching, EnterStatus, process
<1>5. CASE Fetch
  BY <1>5, <1>0, MoveJournal DEF Fetch, Observe, process
<1>6. CASE EnterVerifying
  BY <1>6, <1>0, EnterJournal DEF EnterVerifying, EnterStatus, process
<1>7. CASE VerifyRelease
  BY <1>7, <1>0, MoveJournal DEF VerifyRelease, Observe, process, Applying
<1>8. CASE InspectPlugins
  BY <1>8, <1>0, MoveJournal DEF InspectPlugins, RecordPlugins, WriteRuntime, process
<1>9. CASE Plan
  BY <1>9, <1>0, MoveJournal DEF Plan, Observe, process, Applying
<1>10. CASE EnterPulling
  BY <1>10, <1>0, EnterJournal DEF EnterPulling, EnterStatus, process, Applying
<1>11. CASE Pull
  BY <1>11, <1>0, MoveJournal DEF Pull, Observe, process, Applying
<1>12. CASE EnterSwitching
  BY <1>12, <1>0, EnterJournal DEF EnterSwitching, EnterStatus, process
<1>13. CASE Switch
  BY <1>13, <1>0, MoveJournal DEF Switch, Recreate, process
<1>14. CASE EnterVerifyingHealth
  BY <1>14, <1>0, EnterJournal DEF EnterVerifyingHealth, EnterStatus, process
<1>15. CASE VerifyHealth
  BY <1>15, <1>0, MoveJournal DEF VerifyHealth, Observe, process
<1>16. CASE RecordPreviousPlugins
  BY <1>16, <1>0, MoveJournal DEF RecordPreviousPlugins, RecordPlugins, WriteRuntime, process
<1>17. CASE Promote
  BY <1>17, <1>0, MoveJournal DEF Promote, WriteSlots, process
<1>18. CASE PublishLocator
  BY <1>18, <1>0, MoveJournal DEF PublishLocator, WriteLocator, process
<1>19. CASE PublishFailed
  BY <1>19, <1>0, EnterJournal DEF PublishFailed, process
<1>20. CASE Finish
  BY <1>20, <1>0, EnterJournal DEF Finish, process
<1> QED
  BY <1>1, <1>2, <1>3, <1>4, <1>5, <1>6, <1>7, <1>8, <1>9, <1>10, <1>11, <1>12, <1>13,
     <1>14, <1>15, <1>16, <1>17, <1>18, <1>19, <1>20 DEF SharedStep

\* The steps of apply alone.
LEMMA ApplyJournal == Inv /\ ApplyStep => JournalInv'
<1> SUFFICES ASSUME Inv, ApplyStep PROVE JournalInv'
  OBVIOUS
<1> USE DEF Fits, MigratingLabel, BootstrappingLabel, HealthLabel, RestoreLabel,
            ReceiptLabel, FailedLabel, HeldLabel, Label, WorkerLabel, ApplyLabel, SwitchLabel,
            HandlerLabel, ReconcileLabel, Status, Transitions
<1>0. Fits(pc, op)
  BY ActiveFits
<1>1. CASE BindRecoveryTarget
  <2> DEFINE r == [op EXCEPT !.bound = TRUE]
  <2>1. op \in Record /\ RecordInv(op)
    BY <1>1, ActiveFits DEF BindRecoveryTarget
  <2>2. r \in Record /\ RecordInv(r) /\ r.bound
    BY <2>1 DEF Record, RecordInv
  <2> QED BY <1>1, <1>0, <2>2, RecordJournal DEF BindRecoveryTarget, process
<1>2. CASE EnterBackup
  BY <1>2, <1>0, EnterJournal DEF EnterBackup, EnterStatus, process, Applying
<1>3. CASE BackupDatabase
  BY <1>3, <1>0, MoveJournal DEF BackupDatabase, Observe, process
<1>4. CASE MarkDatabasePending
  <2> DEFINE r == [op EXCEPT !.database =
                    [before |-> runtime.database, after |-> Manifest[target].database]]
  <2>1. op \in Record /\ target \in Release /\ RecordInv(op)
    BY <1>4, ActiveFits, ActiveRecord DEF MarkDatabasePending, Inv, TypeInv
  <2>2. r \in Record
    BY <2>1, ManifestTyped DEF Record, DatabaseTransition, Inv, TypeInv, TypeOK,
                              RuntimeContracts
  <2>3. RecordInv(r) /\ r.status = op.status /\ r.kind = op.kind
    BY <1>4, <1>0, <2>1 DEF MarkDatabasePending, Record, RecordInv
  <2> QED BY <1>4, <1>0, <2>2, <2>3, RecordJournal DEF MarkDatabasePending, process
<1>5. CASE EnterMigrating
  BY <1>5, <1>0, EnterJournal DEF EnterMigrating, EnterStatus, process
<1>6. CASE QuiesceWriters
  BY <1>6, <1>0, MoveJournal DEF QuiesceWriters, process
<1>7. CASE Migrate
  BY <1>7, <1>0, MoveJournal DEF Migrate, process
<1>8. CASE RecordDatabaseContract
  BY <1>8, <1>0, MoveJournal DEF RecordDatabaseContract, WriteRuntime, process
<1>9. CASE ResolveDatabase
  <2> DEFINE r == [op EXCEPT !.database = None]
  <2>1. op \in Record /\ RecordInv(op)
    BY <1>9, ActiveFits DEF ResolveDatabase
  <2>2. r \in Record /\ RecordInv(r) /\ r.status = op.status /\ r.kind = op.kind
    BY <2>1 DEF Record, RecordInv
  <2> QED BY <1>9, <1>0, <2>2, RecordJournal DEF ResolveDatabase, process
<1>10. CASE MarkConfigurationPending
  <2> DEFINE r == [op EXCEPT !.configuration =
                    [before |-> runtime.configuration,
                     after  |-> Manifest[target].configuration]]
  <2>1. op \in Record /\ target \in Release /\ RecordInv(op)
    BY <1>10, ActiveFits, ActiveRecord DEF MarkConfigurationPending, Inv, TypeInv
  <2>2. r \in Record
    BY <2>1, ManifestTyped DEF Record, ConfigurationTransition, Inv, TypeInv, TypeOK,
                              RuntimeContracts
  <2>3. RecordInv(r) /\ r.status = op.status /\ r.kind = op.kind
    BY <1>10, <1>0, <2>1 DEF MarkConfigurationPending, Record, RecordInv
  <2> QED BY <1>10, <1>0, <2>2, <2>3, RecordJournal DEF MarkConfigurationPending, process
<1>11. CASE EnterBootstrapping
  BY <1>11, <1>0, EnterJournal DEF EnterBootstrapping, EnterStatus, process
<1>12. CASE Bootstrap
  BY <1>12, <1>0, MoveJournal DEF Bootstrap, RunBootstrap, process
<1>13. CASE RecordConfigurationContract
  BY <1>13, <1>0, MoveJournal DEF RecordConfigurationContract, WriteRuntime, process
<1>14. CASE RecordTargetPlugins
  BY <1>14, <1>0, MoveJournal DEF RecordTargetPlugins, RecordPlugins, WriteRuntime, process
<1>15. CASE ResolveConfiguration
  <2> DEFINE r == [op EXCEPT !.configuration = None]
  <2>1. op \in Record /\ RecordInv(op)
    BY <1>15, ActiveFits DEF ResolveConfiguration
  <2>2. r \in Record /\ RecordInv(r) /\ r.status = op.status /\ r.kind = op.kind
    BY <2>1 DEF Record, RecordInv
  <2> QED BY <1>15, <1>0, <2>2, RecordJournal DEF ResolveConfiguration, process
<1>16. CASE Replan
  BY <1>16, <1>0, MoveJournal DEF Replan, Observe, process
<1> QED
  BY <1>1, <1>2, <1>3, <1>4, <1>5, <1>6, <1>7, <1>8, <1>9, <1>10, <1>11, <1>12, <1>13,
     <1>14, <1>15, <1>16 DEF ApplyStep

\* The exception handlers and the end of a worker.
LEMMA HandlerJournal == Inv /\ HandlerStep => JournalInv'
<1> SUFFICES ASSUME Inv, HandlerStep PROVE JournalInv'
  OBVIOUS
<1> USE DEF Fits, MigratingLabel, BootstrappingLabel, HealthLabel, RestoreLabel,
            ReceiptLabel, FailedLabel, HeldLabel, Label, WorkerLabel, ApplyLabel, SwitchLabel,
            HandlerLabel, ReconcileLabel, Status, Transitions
<1>0. Fits(pc, op)
  BY ActiveFits
<1>1. CASE Incompatible
  BY <1>1, <1>0, EnterJournal DEF Incompatible, process
<1>2. CASE ApplyFailed
  <2>1. CASE pc' = "rolling_back" /\ UNCHANGED operations
    BY <1>2, <2>1, MoveJournal DEF ApplyFailed, process
  <2>2. CASE ~ (pc' = "rolling_back" /\ UNCHANGED operations)
    BY <1>2, <2>2, EnterJournal DEF ApplyFailed, process
  <2> QED BY <2>1, <2>2
<1>3. CASE RollbackFailed
  <2>1. CASE pc' = "rolling_back" /\ UNCHANGED operations
    BY <1>3, <2>1, MoveJournal DEF RollbackFailed, process
  <2>2. CASE ~ (pc' = "rolling_back" /\ UNCHANGED operations)
    BY <1>3, <2>2, EnterJournal DEF RollbackFailed, process
  <2> QED BY <2>1, <2>2
<1>4. CASE EnterRollingBack
  BY <1>4, <1>0, EnterJournal DEF EnterRollingBack, process
<1>5. CASE Restore
  BY <1>5, <1>0, MoveJournal DEF Restore, Recreate, process
<1>6. CASE VerifyRestored
  BY <1>6, <1>0, MoveJournal DEF VerifyRestored, Observe, process
<1>7. CASE RecordRestoredPlugins
  BY <1>7, <1>0, MoveJournal DEF RecordRestoredPlugins, RecordPlugins, WriteRuntime, process
<1>8. CASE FinishRestore
  BY <1>8, <1>0, EnterJournal DEF FinishRestore, process
<1>9. CASE RestoreFailed
  BY <1>9, <1>0, EnterJournal DEF RestoreFailed, process
<1>10. CASE WorkerFailed
  <2>1. CASE op.status \in TerminalStates
    BY <1>10, <2>1, MoveJournal DEF WorkerFailed, process
  <2>2. CASE op.status \notin TerminalStates
    BY <1>10, <2>2, EnterJournal DEF WorkerFailed, process, RecoveredStatus
  <2> QED BY <2>1, <2>2
<1>11. CASE ReleaseLock
  BY <1>11 DEF ReleaseLock, Inv, JournalInv
<1> QED
  BY <1>1, <1>2, <1>3, <1>4, <1>5, <1>6, <1>7, <1>8, <1>9, <1>10, <1>11 DEF HandlerStep

\* The steps of reconcile.
LEMMA ReconcileJournal == Inv /\ ReconcileStep => JournalInv'
<1> SUFFICES ASSUME Inv, ReconcileStep PROVE JournalInv'
  OBVIOUS
<1> USE DEF Fits, MigratingLabel, BootstrappingLabel, HealthLabel, RestoreLabel,
            ReceiptLabel, FailedLabel, HeldLabel, Label, WorkerLabel, ApplyLabel, SwitchLabel,
            HandlerLabel, ReconcileLabel, Status, Transitions
<1>0. Fits(pc, op)
  BY ActiveFits
<1>1. CASE ReconcileReceipt
  BY <1>1, <1>0, MoveJournal DEF ReconcileReceipt, Observe, process, Resolve
<1>2. CASE ResolveUncertainDatabase
  BY <1>2, <1>0, MoveJournal DEF ResolveUncertainDatabase, WriteRuntime, process
<1>3. CASE ClearDatabase
  <2> DEFINE r == [op EXCEPT !.database = None]
  <2>1. op \in Record /\ RecordInv(op)
    BY <1>3, ActiveFits DEF ClearDatabase
  <2>2. r \in Record /\ RecordInv(r) /\ r.status = op.status /\ r.kind = op.kind
    BY <2>1 DEF Record, RecordInv
  <2>3. Resolve \in HeldLabel /\ Fits(Resolve, r)
    BY <1>3, <1>0, <2>2 DEF ClearDatabase, Resolve
  <2> QED BY <1>3, <2>2, <2>3, RecordJournal DEF ClearDatabase, process
<1>4. CASE ResolveUncertainConfiguration
  BY <1>4, <1>0, MoveJournal DEF ResolveUncertainConfiguration, RunBootstrap, process
<1>5. CASE RecordUncertainConfiguration
  BY <1>5, <1>0, MoveJournal DEF RecordUncertainConfiguration, WriteRuntime, process
<1>6. CASE ClearConfiguration
  <2> DEFINE r == [op EXCEPT !.configuration = None]
  <2>1. op \in Record /\ RecordInv(op)
    BY <1>6, ActiveFits DEF ClearConfiguration
  <2>2. r \in Record /\ RecordInv(r) /\ r.status = op.status /\ r.kind = op.kind
    BY <2>1 DEF Record, RecordInv
  <2>3. CASE PlanAllowed(runtime, target)
    BY <1>6, <1>0, <2>2, <2>3, RecordJournal DEF ClearConfiguration, process
  <2>4. CASE ~ PlanAllowed(runtime, target)
    BY <1>6, <1>0, <2>4, MoveJournal DEF ClearConfiguration, process
  <2> QED BY <2>3, <2>4
<1>7. CASE ReconcilePlan
  BY <1>7, <1>0, MoveJournal DEF ReconcilePlan, Observe, process
<1>8. CASE ReconcileSwitch
  BY <1>8, <1>0, MoveJournal DEF ReconcileSwitch, Recreate, process
<1>9. CASE ReconcileHealth
  BY <1>9, <1>0, MoveJournal DEF ReconcileHealth, Observe, process
<1>10. CASE ReconcileRuntime
  BY <1>10, <1>0, MoveJournal DEF ReconcileRuntime, WriteRuntime, process
<1>11. CASE ReconcileLocator
  BY <1>11, <1>0, MoveJournal DEF ReconcileLocator, WriteLocator, process
<1>12. CASE Reconciled
  BY <1>12, <1>0, EnterJournal DEF Reconciled, process
<1> QED
  BY <1>1, <1>2, <1>3, <1>4, <1>5, <1>6, <1>7, <1>8, <1>9, <1>10, <1>11, <1>12
     DEF ReconcileStep

\* The restart of the agent and its recovery: what it finds past the pre-switch
\* phase has its receipt, so what it blocks has it too.
LEMMA RecoveryJournal == Inv /\ RecoveryStep => JournalInv'
<1> SUFFICES ASSUME Inv, RecoveryStep PROVE JournalInv'
  OBVIOUS
<1> USE DEF Fits, MigratingLabel, BootstrappingLabel, HealthLabel, RestoreLabel,
            ReceiptLabel, FailedLabel, HeldLabel, Label, WorkerLabel, ApplyLabel, SwitchLabel,
            HandlerLabel, ReconcileLabel, Status, Transitions
<1>1. CASE Restart \/ Serve
  BY <1>1 DEF Restart, Serve, Inv, JournalInv
<1>2. CASE RecoverOperation
  <2>1. PICK o \in Operation :
          /\ Incomplete(operations[o])
          /\ operations' \in {operations, [operations EXCEPT
                                ![o].status = RecoveredStatus(operations[o])]}
          /\ pc' \in {"recovering", "unlocked"} /\ active' = active
    BY <1>2 DEF RecoverOperation
  <2> DEFINE r == [operations[o] EXCEPT !.status = RecoveredStatus(operations[o])]
  <2>2. operations[o] \in Record /\ RecordInv(operations[o])
    BY DEF Inv, TypeInv, TypeOK, JournalInv
  <2>3. RecordInv(r)
    BY <2>1, <2>2
       DEF Record, RecordInv, RecoveredStatus, PreSwitchRecovery, Unreceipted, Incomplete,
           TerminalStates
  <2>4. \A x \in Operation : RecordInv(operations'[x])
    BY <2>1, <2>3 DEF Inv, TypeInv, TypeOK, JournalInv
  <2> QED BY <1>2, <2>1, <2>4 DEF RecoverOperation, Inv, JournalInv
<1> QED BY <1>1, <1>2 DEF RecoveryStep

\* Admission writes a new record, which needs no receipt yet.
LEMMA AdmitJournal ==
  ASSUME Inv, NEW o \in Operation, NEW kind \in Kind, NEW release \in Release,
         Admit(o, kind, release)
  PROVE  JournalInv'
<1> DEFINE written == [operations EXCEPT ![o] = NewRecord(kind, release)]
           aborted == [written EXCEPT ![o].status = "failed_pre_switch"]
<1>1. operations' \in {operations, written, aborted}
  BY DEF Admit
<1>2. /\ RecordInv(NewRecord(kind, release))
      /\ RecordInv([NewRecord(kind, release) EXCEPT !.status = "failed_pre_switch"])
  BY DEF RecordInv, NewRecord, Unreceipted
<1>3. \A x \in Operation : RecordInv(operations'[x])
  BY <1>1, <1>2 DEF Inv, JournalInv, TypeInv, TypeOK
<1>4. pc' = "begin" \/ (pc' = "unlocked" /\ active' = active /\ pc = "unlocked")
  BY DEF Admit
<1>5. Fits(pc', op')
  BY <1>4 DEF Fits, MigratingLabel, BootstrappingLabel, HealthLabel, RestoreLabel,
              ReceiptLabel, ApplyLabel, ReconcileLabel
<1> QED BY <1>3, <1>4, <1>5 DEF Inv, JournalInv

\* Operations begin, processes die, the world moves.
LEMMA EnvironmentJournal == Inv /\ Environment => JournalInv'
<1> SUFFICES ASSUME Inv, Environment PROVE JournalInv'
  OBVIOUS
<1>1. CASE StartApply
  BY <1>1, AdmitJournal DEF StartApply, Kind
<1>2. CASE StartRollback
  <2>1. slots.previous \in Release
    BY <1>2 DEF StartRollback, Inv, TypeInv, TypeOK
  <2> QED BY <1>2, <2>1, AdmitJournal DEF StartRollback, Kind
<1>3. CASE StartReconcile
  BY <1>3 DEF StartReconcile, Inv, JournalInv, op, Fits, MigratingLabel, BootstrappingLabel,
              HealthLabel, RestoreLabel, ReceiptLabel, ApplyLabel
<1>4. CASE KillAgent \/ KillReconcile
  <2>1. UNCHANGED operations
    BY <1>4 DEF KillAgent, KillReconcile, Crash
  <2>2. (pc' = "unlocked" /\ active' = None) \/ UNCHANGED <<pc, active>>
    BY <1>4 DEF KillAgent, KillReconcile
  <2>3. CASE UNCHANGED <<pc, active>>
    BY <2>1, <2>3 DEF Inv, JournalInv, op
  <2>4. CASE pc' = "unlocked" /\ active' = None
    BY <2>1, <2>4 DEF Inv, JournalInv, Fits, MigratingLabel, BootstrappingLabel,
                      HealthLabel, RestoreLabel, ReceiptLabel, ApplyLabel, ReconcileLabel
  <2> QED BY <2>2, <2>3, <2>4
<1>5. CASE EnablePlugins \/ JobApplies
  <2>1. UNCHANGED <<operations, pc, active>>
    BY <1>5 DEF EnablePlugins, JobApplies, process
  <2> QED BY <2>1 DEF Inv, JournalInv, op
<1> QED BY <1>1, <1>2, <1>3, <1>4, <1>5 DEF Environment

\* Type and journal invariant together are inductive.
LEMMA StepInv == Inv /\ [Next]_vars => Inv'
<1> SUFFICES ASSUME Inv, [Next]_vars PROVE Inv'
  OBVIOUS
<1>1. TypeInv'
  BY StepType DEF Inv
<1>2. CASE UNCHANGED vars
  BY <1>1, <1>2 DEF Inv, JournalInv, vars, process, op
<1>3. CASE Next
  BY <1>1, <1>3, SharedJournal, ApplyJournal, HandlerJournal, ReconcileJournal,
     RecoveryJournal, EnvironmentJournal DEF Inv, Next
<1> QED BY <1>2, <1>3

\* Status, kind and receipt of the journal entry always tell which step an
\* operation can be in.
THEOREM JournalCorrect == Spec => []Inv
<1>1. Init => Inv
  <2> SUFFICES ASSUME Init PROVE Inv
    OBVIOUS
  <2>1. \A o \in Operation : RecordInv(operations[o])
    BY DEF Init, RecordInv, NewRecord, Unreceipted
  <2>2. Fits(pc, op)
    BY DEF Init, Fits, MigratingLabel, BootstrappingLabel, HealthLabel, RestoreLabel,
           ReceiptLabel, ApplyLabel, ReconcileLabel
  <2> QED BY <2>1, <2>2, InitType DEF Inv, JournalInv, Init
<1> QED BY <1>1, StepInv, PTL DEF Spec

-----------------------------------------------------------------------------
(* What the invariant is for.                                                *)

\* An apply that needs manual recovery has the receipt reconcile reads, whatever
\* failed and wherever the agent was killed.
THEOREM ReceiptIsKept == Spec => []BlockedApplyHasReceipt
<1>1. Inv => BlockedApplyHasReceipt
  BY DEF Inv, JournalInv, RecordInv, Unreceipted, BlockedApplyHasReceipt
<1> QED BY <1>1, JournalCorrect, PTL
\* The live contracts, and with them all that an operation does to the host.
live  == <<applied, configured, runtime.database, runtime.configuration>>
world == <<slots, locator, app, live>>

\* The statuses under which the host is changed.
Touching ==
  {"migrating", "bootstrapping", "switching", "verifying_health", "rolling_back",
   "manual_recovery_required"}

\* A step that may change the host: the journal stays as it is, and its entry
\* says that the host may be touched, the contracts only by an apply.
Touches ==
  /\ active \in Operation /\ UNCHANGED <<operations, active>>
  /\ op.status \in Touching
  /\ Applying \/ UNCHANGED live

\* Recording the plugin generations changes no contract.
LEMMA PluginsKeepWorld ==
  ASSUME Inv, NEW label, NEW next, NEW failed, RecordPlugins(label, next, failed)
  PROVE  UNCHANGED world
<1>1. [runtime EXCEPT !.plugins = enabled].database = runtime.database
      /\ [runtime EXCEPT !.plugins = enabled].configuration = runtime.configuration
  BY DEF Inv, TypeInv, TypeOK, RuntimeContracts
<1> QED BY <1>1 DEF RecordPlugins, WriteRuntime, world, live, host

\* A worker changes the host only under a status that says so.
LEMMA WorkerTouches ==
  ASSUME Inv, SharedStep \/ ApplyStep \/ HandlerStep
  PROVE  UNCHANGED world \/ Touches
<1> USE DEF host, durable, process, world, live
<1>1. pc \in HeldLabel /\ Fits(pc, op) => active \in Operation /\ op \in Record
  BY ActiveFits
<1>2. CASE SharedStep
  <2>1. CASE Switch \/ PublishLocator \/ Promote
    BY <2>1, ActiveFits
       DEF Switch, PublishLocator, Promote, Touches, Touching, Fits, HealthLabel, HeldLabel,
           Label, WorkerLabel, SwitchLabel
  <2>2. CASE InspectPlugins \/ RecordPreviousPlugins
    BY <2>2, PluginsKeepWorld DEF InspectPlugins, RecordPreviousPlugins
  <2>3. CASE ~ (Switch \/ PublishLocator \/ Promote \/ InspectPlugins
                \/ RecordPreviousPlugins)
    BY <1>2, <2>3
       DEF SharedStep, Begin, EnterPreflight, CheckHost, EnterFetching, Fetch, EnterVerifying,
           VerifyRelease, Plan, EnterPulling, Pull, EnterSwitching, EnterVerifyingHealth,
           VerifyHealth, PublishFailed, Finish, EnterStatus, Observe
  <2> QED BY <2>1, <2>2, <2>3
<1>3. CASE ApplyStep
  <2>1. CASE QuiesceWriters \/ Migrate \/ RecordDatabaseContract \/ Bootstrap
             \/ RecordConfigurationContract
    BY <2>1, ActiveFits
       DEF QuiesceWriters, Migrate, RecordDatabaseContract, Bootstrap,
           RecordConfigurationContract, Touches, Touching, Fits, MigratingLabel,
           BootstrappingLabel, HeldLabel, Label, WorkerLabel, ApplyLabel, Applying
  <2>2. CASE RecordTargetPlugins
    BY <2>2, PluginsKeepWorld DEF RecordTargetPlugins
  <2>3. CASE ~ (QuiesceWriters \/ Migrate \/ RecordDatabaseContract \/ Bootstrap
                \/ RecordConfigurationContract \/ RecordTargetPlugins)
    BY <1>3, <2>3
       DEF ApplyStep, BindRecoveryTarget, EnterBackup, BackupDatabase, MarkDatabasePending,
           EnterMigrating, ResolveDatabase, MarkConfigurationPending, EnterBootstrapping,
           ResolveConfiguration, Replan, EnterStatus, Observe
  <2> QED BY <2>1, <2>2, <2>3
<1>4. CASE HandlerStep
  <2>1. CASE Restore
    BY <2>1, ActiveFits
       DEF Restore, Touches, Touching, Fits, RestoreLabel, HeldLabel, Label, WorkerLabel,
           HandlerLabel
  <2>2. CASE RecordRestoredPlugins
    BY <2>2, PluginsKeepWorld DEF RecordRestoredPlugins
  <2>3. CASE ~ (Restore \/ RecordRestoredPlugins)
    BY <1>4, <2>3
       DEF HandlerStep, Incompatible, ApplyFailed, RollbackFailed, EnterRollingBack,
           VerifyRestored, FinishRestore, RestoreFailed, WorkerFailed, ReleaseLock, Observe
  <2> QED BY <2>1, <2>2, <2>3
<1> QED BY <1>2, <1>3, <1>4

\* reconcile touches the host of a blocked operation, and changes a contract only
\* where a transition is pending, hence never for a rollback.
LEMMA ReconcileTouches ==
  ASSUME Inv, ReconcileStep
  PROVE  UNCHANGED world \/ Touches
<1> USE DEF host, durable, process, world, live
<1>1. pc \in ReconcileLabel
  BY DEF ReconcileStep, ReconcileReceipt, ResolveUncertainDatabase, ClearDatabase,
         ResolveUncertainConfiguration, RecordUncertainConfiguration, ClearConfiguration,
         ReconcilePlan, ReconcileSwitch, ReconcileHealth, ReconcileRuntime,
         ReconcileLocator, Reconciled, Observe, ReconcileLabel
<1>2. active \in Operation /\ op \in Record /\ RecordInv(op)
      /\ op.status = "manual_recovery_required"
  BY <1>1, ActiveFits DEF Fits, HeldLabel, Label, ReconcileLabel
<1>3. CASE ResolveUncertainDatabase \/ ResolveUncertainConfiguration
           \/ RecordUncertainConfiguration
  <2>1. op.database # None \/ op.configuration # None
    BY <1>3 DEF Inv, TypeInv, HolderInv, DatabaseLabel, ConfigurationLabel,
                ResolveUncertainDatabase, ResolveUncertainConfiguration,
                RecordUncertainConfiguration
  <2>2. Applying
    BY <1>2, <2>1 DEF RecordInv, Record, Kind, Applying
  <2> QED
    BY <1>2, <1>3, <2>2
       DEF ResolveUncertainDatabase, ResolveUncertainConfiguration,
           RecordUncertainConfiguration, Touches, Touching
<1>4. CASE ReconcileSwitch \/ ReconcileLocator
  BY <1>2, <1>4 DEF ReconcileSwitch, ReconcileLocator, Touches, Touching
<1>5. CASE ReconcileRuntime
  <2>1. [runtime EXCEPT !.plugins = enabled].database = runtime.database
        /\ [runtime EXCEPT !.plugins = enabled].configuration = runtime.configuration
    BY DEF Inv, TypeInv, TypeOK, RuntimeContracts
  <2> QED BY <1>5, <2>1 DEF ReconcileRuntime, WriteRuntime
<1>6. CASE ReconcileReceipt \/ ClearDatabase \/ ClearConfiguration \/ ReconcilePlan
           \/ ReconcileHealth \/ Reconciled
  BY <1>6 DEF ReconcileReceipt, ClearDatabase, ClearConfiguration, ReconcilePlan,
              ReconcileHealth, Reconciled, Observe
<1> QED BY <1>3, <1>4, <1>5, <1>6 DEF ReconcileStep

\* Nobody but the holder of the lock changes the host, a job left behind by a
\* killed docker client apart.
LEMMA StepTouches ==
  ASSUME Inv, [Next]_vars
  PROVE  UNCHANGED world \/ Touches \/ JobApplies
<1> USE DEF host, durable, process, world, live
<1>1. CASE UNCHANGED vars
  BY <1>1 DEF vars
<1>2. CASE SharedStep \/ ApplyStep \/ HandlerStep
  BY <1>2, WorkerTouches
<1>3. CASE ReconcileStep
  BY <1>3, ReconcileTouches
<1>4. CASE RecoveryStep
  BY <1>4 DEF RecoveryStep, Restart, RecoverOperation, Serve
<1>5. CASE Environment
  BY <1>5 DEF Environment, StartApply, StartRollback, Admit, StartReconcile, KillAgent,
              KillReconcile, Crash, EnablePlugins
<1> QED BY <1>1, <1>2, <1>3, <1>4, <1>5 DEF Next

\* A job that applies a migration is one migration shorter.
LEMMA JobShrinks == JobApplies => job' # job
BY DEF JobApplies

\* Until the journal entry of an operation leaves the pre-switch phase, nothing a
\* failed_pre_switch verdict would have to undo has been done.
THEOREM NothingToUndo == Spec => PreSwitchChangesNothing
<1>1. ASSUME Inv, [Next]_vars, active # None, active' = active,
             op.status \in PreSwitchRecovery, job' = job
      PROVE  UNCHANGED <<slots, locator, app, applied, configured,
                         runtime.database, runtime.configuration>>
  BY <1>1, StepTouches, JobShrinks DEF Touches, Touching, PreSwitchRecovery, world, live
<1>2. Inv /\ [Next]_vars =>
        ((active # None /\ active' = active /\ op.status \in PreSwitchRecovery /\ job' = job)
         => UNCHANGED <<slots, locator, app, applied, configured,
                        runtime.database, runtime.configuration>>)
  BY <1>1
<1> QED BY <1>2, JournalCorrect, PTL DEF Spec, PreSwitchChangesNothing

\* An application rollback leaves the live contracts alone, reconcile of it
\* included.
THEOREM RollbackIsApplicationOnly == Spec => RollbackKeepsContracts
<1>1. Inv /\ [Next]_vars =>
        ((active # None /\ ~ Applying /\ job' = job) =>
           UNCHANGED <<applied, configured, runtime.database, runtime.configuration>>)
  BY StepTouches, JobShrinks DEF Touches, world, live
<1> QED BY <1>1, JournalCorrect, PTL DEF Spec, RollbackKeepsContracts
-----------------------------------------------------------------------------
(* Refinement of HostMutation, as long as killing a docker client also stops  *)
(* its container: otherwise a job goes on after its operation is over.        *)

phases == [o \in Operation |-> AbstractPhase(operations[o].status)]

\* What an edge of the status automaton is to HostMutation.
LEMMA EdgePhase ==
  ASSUME NEW record \in Record, NEW status \in Status, CanEnter(record, status)
  PROVE  \/ AbstractPhase(status) = AbstractPhase(record.status)
         \/ /\ AbstractPhase(record.status) = "prepared"
            /\ AbstractPhase(status) \in {"aborted", "committed"}
         \/ /\ AbstractPhase(record.status) = "committed"
            /\ AbstractPhase(status) \in {"finished", "blocked"}
         \/ /\ AbstractPhase(record.status) = "blocked"
            /\ AbstractPhase(status) = "finished"
<1> USE DEF CanEnter, Status, Transitions, AbstractPhase, PreSwitchRecovery, TerminalStates
<1>1. CASE record.status \in {"idle", "preflight", "fetching", "verifying", "backup"}
  BY <1>1
<1>2. CASE record.status \in {"pulling", "migrating", "bootstrapping", "switching"}
  BY <1>2
<1>3. CASE record.status \in {"verifying_health", "rolling_back", "adopting",
                            "manual_recovery_required"}
  BY <1>3
<1>4. CASE record.status \in {"succeeded", "failed_pre_switch", "failed_post_switch",
                            "rolled_back", "reconciled"}
  BY <1>4
<1> QED BY <1>1, <1>2, <1>3, <1>4

\* Rewriting one record moves one phase.
LEMMA OnePhase ==
  ASSUME Inv, NEW o \in Operation, NEW r, operations' = [operations EXCEPT ![o] = r]
  PROVE  phases' = [phases EXCEPT ![o] = AbstractPhase(r.status)]
BY DEF phases, Inv, TypeInv, TypeOK

\* What a step does to the journal and to the holder of the lock.
Rewrites ==
  /\ active \in Operation /\ UNCHANGED <<active, world>>
  /\ \E r \in Record :
       /\ operations' = [operations EXCEPT ![active] = r]
       /\ r.status = op.status \/ (r.status \in Status /\ CanEnter(op, r.status))

Recovers ==
  /\ UNCHANGED <<active, world>> /\ active = None
  /\ \E o \in Operation : \E r \in Record :
       /\ operations' = [operations EXCEPT ![o] = r]
       /\ r.status \in Status /\ CanEnter(operations[o], r.status)
       /\ r.status \in {"failed_pre_switch", "manual_recovery_required"}

Admits ==
  /\ active = None /\ ~ RecoveryBlocked /\ UNCHANGED world
  /\ \E o \in Operation : \E r \in Record :
       /\ operations[o].status = "absent"
       /\ operations' = [operations EXCEPT ![o] = r]
       /\ \/ r.status = "idle" /\ active' \in {None, o}
          \/ r.status = "failed_pre_switch" /\ active' = None

Takes ==
  /\ active = None /\ UNCHANGED <<operations, world>>
  /\ active' \in Operation /\ operations[active'].status = "manual_recovery_required"

Lets == active' = None /\ UNCHANGED <<operations, world>>

Keeps == UNCHANGED <<operations, active>>

\* Entering a status, and rewriting a pending transition or the receipt.
LEMMA EnterRewrites ==
  ASSUME Inv, active \in Operation, UNCHANGED <<active, world>>,
         NEW next, NEW failed
  PROVE  /\ \A status \in Status : Enter(status, next, failed) => Keeps \/ Rewrites
         /\ \A r \in Record : WriteRecord(r, next, failed) /\ r.status = op.status
              => Keeps \/ Rewrites
<1>1. op \in Record
  BY ActiveRecord DEF Inv, TypeInv
<1>2. ASSUME NEW status \in Status, Enter(status, next, failed) PROVE Keeps \/ Rewrites
  <2>1. CASE UNCHANGED operations
    BY <2>1 DEF Keeps
  <2>2. CASE operations' # operations
    <3> DEFINE r == [op EXCEPT !.status = status]
    <3>1. CanEnter(op, status) /\ operations' = [operations EXCEPT ![active] = r]
      BY <1>2, <2>2 DEF Enter, WriteRecord
    <3>2. r \in Record /\ r.status = status
      BY <1>1 DEF Record
    <3> QED BY <3>1, <3>2 DEF Rewrites
  <2> QED BY <2>1, <2>2
<1>3. ASSUME NEW r \in Record, WriteRecord(r, next, failed), r.status = op.status
      PROVE  Keeps \/ Rewrites
  BY <1>3 DEF WriteRecord, Keeps, Rewrites
<1> QED BY <1>2, <1>3
\* The steps of a worker rewrite the record of their operation, or nothing.
LEMMA WorkerRewrites ==
  ASSUME Inv, SharedStep \/ ApplyStep \/ HandlerStep
  PROVE  Keeps \/ Rewrites \/ Lets
<1> USE DEF Status, Transitions
<1>1. pc \in WorkerLabel => active \in Operation /\ op \in Record
  BY ActiveFits DEF HeldLabel, Label, WorkerLabel, ApplyLabel, SwitchLabel, HandlerLabel
<1>2. CASE SharedStep
  <2>1. CASE EnterPreflight \/ EnterFetching \/ EnterVerifying \/ EnterPulling
             \/ EnterSwitching \/ EnterVerifyingHealth \/ PublishFailed \/ Finish
    BY <1>1, <2>1, EnterRewrites
       DEF EnterPreflight, EnterFetching, EnterVerifying, EnterPulling, EnterSwitching,
           EnterVerifyingHealth, PublishFailed, Finish, EnterStatus, WorkerLabel, SwitchLabel,
           world, live, durable, host, process
  <2>2. CASE ~ (EnterPreflight \/ EnterFetching \/ EnterVerifying \/ EnterPulling
                \/ EnterSwitching \/ EnterVerifyingHealth \/ PublishFailed \/ Finish)
    BY <1>2, <2>2
       DEF SharedStep, Begin, CheckHost, Fetch, VerifyRelease, InspectPlugins, Plan, Pull,
           Switch, VerifyHealth, RecordPreviousPlugins, Promote, PublishLocator, Observe,
           RecordPlugins, process, Keeps
  <2> QED BY <2>1, <2>2
<1>3. CASE ApplyStep
  <2>1. CASE EnterBackup \/ EnterMigrating \/ EnterBootstrapping
    BY <1>1, <2>1, EnterRewrites
       DEF EnterBackup, EnterMigrating, EnterBootstrapping, EnterStatus, WorkerLabel,
           ApplyLabel, world, live, durable, host, process
  <2>2. CASE BindRecoveryTarget
    <3>1. op \in Record /\ [op EXCEPT !.bound = TRUE] \in Record
          /\ [op EXCEPT !.bound = TRUE].status = op.status
      BY <1>1, <2>2 DEF BindRecoveryTarget, WorkerLabel, ApplyLabel, Record
    <3> QED
      BY <1>1, <2>2, <3>1, EnterRewrites
         DEF BindRecoveryTarget, WorkerLabel, ApplyLabel, world, live, durable, host, process
  <2>3. CASE MarkDatabasePending
    <3> DEFINE r == [op EXCEPT !.database = [before |-> runtime.database,
                                             after  |-> Manifest[target].database]]
    <3>1. active \in Operation /\ op \in Record /\ target \in Release
      BY <1>1, <2>3, ActiveRecord DEF MarkDatabasePending, WorkerLabel, ApplyLabel, Inv, TypeInv
    <3>2. r \in Record /\ r.status = op.status
      BY <3>1, ManifestTyped DEF Record, DatabaseTransition, Inv, TypeInv, TypeOK,
                                RuntimeContracts
    <3> QED
      BY <2>3, <3>1, <3>2, EnterRewrites
         DEF MarkDatabasePending, world, live, durable, host, process
  <2>4. CASE MarkConfigurationPending
    <3> DEFINE r == [op EXCEPT !.configuration =
                      [before |-> runtime.configuration,
                       after  |-> Manifest[target].configuration]]
    <3>1. active \in Operation /\ op \in Record /\ target \in Release
      BY <1>1, <2>4, ActiveRecord
         DEF MarkConfigurationPending, WorkerLabel, ApplyLabel, Inv, TypeInv
    <3>2. r \in Record /\ r.status = op.status
      BY <3>1, ManifestTyped DEF Record, ConfigurationTransition, Inv, TypeInv, TypeOK,
                                RuntimeContracts
    <3> QED
      BY <2>4, <3>1, <3>2, EnterRewrites
         DEF MarkConfigurationPending, world, live, durable, host, process
  <2>5. CASE ResolveDatabase \/ ResolveConfiguration
    <3>1. active \in Operation /\ op \in Record
      BY <1>1, <2>5 DEF ResolveDatabase, ResolveConfiguration, WorkerLabel, ApplyLabel
    <3>2. /\ [op EXCEPT !.database = None] \in Record
          /\ [op EXCEPT !.database = None].status = op.status
          /\ [op EXCEPT !.configuration = None] \in Record
          /\ [op EXCEPT !.configuration = None].status = op.status
      BY <3>1 DEF Record
    <3> QED
      BY <2>5, <3>1, <3>2, EnterRewrites
         DEF ResolveDatabase, ResolveConfiguration, world, live, durable, host, process
  <2>6. CASE QuiesceWriters \/ Migrate \/ RecordDatabaseContract \/ Bootstrap \/ Replan
             \/ RecordConfigurationContract \/ RecordTargetPlugins \/ BackupDatabase
    BY <2>6 DEF QuiesceWriters, Migrate, RecordDatabaseContract, Bootstrap, Replan,
                RecordConfigurationContract, RecordTargetPlugins, BackupDatabase, Observe,
                RecordPlugins, process, Keeps
  <2> QED BY <1>3, <2>1, <2>2, <2>3, <2>4, <2>5, <2>6 DEF ApplyStep
<1>4. CASE HandlerStep
  <2>1. CASE UNCHANGED operations
    BY <1>4, <2>1
       DEF HandlerStep, Incompatible, ApplyFailed, RollbackFailed, EnterRollingBack, Restore,
           VerifyRestored, RecordRestoredPlugins, FinishRestore, RestoreFailed, WorkerFailed,
           ReleaseLock, Observe, RecordPlugins, process, Keeps, Lets, world, live, durable,
           host
  <2>2. CASE operations' # operations
    BY <1>1, <1>4, <2>2, EnterRewrites
       DEF HandlerStep, Incompatible, ApplyFailed, RollbackFailed, EnterRollingBack, Restore,
           VerifyRestored, RecordRestoredPlugins, FinishRestore, RestoreFailed, WorkerFailed,
           ReleaseLock, Observe, RecordPlugins, RecoveredStatus, WorkerLabel, HandlerLabel,
           process, world, live, durable, host
  <2> QED BY <2>1, <2>2
<1> QED BY <1>2, <1>3, <1>4

\* So do the steps of reconcile.
LEMMA ReconcileRewrites ==
  ASSUME Inv, ReconcileStep
  PROVE  Keeps \/ Rewrites
<1> USE DEF Status, Transitions
<1>1. CASE Reconciled
  <2>1. active \in Operation
    BY <1>1 DEF Reconciled, HeldLabel, Label, ReconcileLabel, Inv, TypeInv, HolderInv
  <2> QED
    BY <1>1, <2>1, EnterRewrites DEF Reconciled, world, live, durable, host, process
<1>2. CASE ClearDatabase \/ ClearConfiguration
  <2>1. active \in Operation /\ op \in Record
    BY <1>2, ActiveFits DEF ClearDatabase, ClearConfiguration, HeldLabel, Label, ReconcileLabel
  <2>2. /\ [op EXCEPT !.database = None] \in Record
        /\ [op EXCEPT !.database = None].status = op.status
        /\ [op EXCEPT !.configuration = None] \in Record
        /\ [op EXCEPT !.configuration = None].status = op.status
    BY <2>1 DEF Record
  <2> QED
    BY <1>2, <2>1, <2>2, EnterRewrites
       DEF ClearDatabase, ClearConfiguration, Keeps, world, live, durable, host, process
<1>3. CASE ~ (Reconciled \/ ClearDatabase \/ ClearConfiguration)
  BY <1>3
     DEF ReconcileStep, ReconcileReceipt, ResolveUncertainDatabase,
         ResolveUncertainConfiguration, RecordUncertainConfiguration, ReconcilePlan,
         ReconcileSwitch, ReconcileHealth, ReconcileRuntime, ReconcileLocator, Observe,
         process, Keeps
<1> QED BY <1>1, <1>2, <1>3
\* Recovery settles one operation at a time; nobody holds an operation meanwhile.
LEMMA RecoveryRewrites ==
  ASSUME Inv, RecoveryStep
  PROVE  Keeps \/ Recovers
<1> USE DEF durable, host, world, live
<1>1. CASE Restart \/ Serve
  BY <1>1 DEF Restart, Serve, Keeps
<1>2. CASE RecoverOperation
  <2>1. PICK o \in Operation :
          /\ CanEnter(operations[o], RecoveredStatus(operations[o]))
          /\ operations' \in {operations, [operations EXCEPT
                                ![o].status = RecoveredStatus(operations[o])]}
    BY <1>2 DEF RecoverOperation
  <2> DEFINE r == [operations[o] EXCEPT !.status = RecoveredStatus(operations[o])]
  <2>2. RecoveredStatus(operations[o])
          \in Status \cap {"failed_pre_switch", "manual_recovery_required"}
    BY DEF RecoveredStatus, Status, Transitions
  <2>3. r \in Record /\ r.status = RecoveredStatus(operations[o])
    BY <2>2 DEF Record, Inv, TypeInv, TypeOK
  <2>4. active = None /\ UNCHANGED <<active, world>>
    BY <1>2 DEF RecoverOperation, Inv, JournalInv
  <2>5. CASE UNCHANGED operations
    BY <2>4, <2>5 DEF Keeps
  <2>6. CASE operations' = [operations EXCEPT ![o] = r]
    BY <2>1, <2>2, <2>3, <2>4, <2>6 DEF Recovers
  <2> QED BY <2>1, <2>5, <2>6
<1> QED BY <1>1, <1>2 DEF RecoveryStep

\* Admission creates an operation only while none is blocked and none is held.
LEMMA AdmitAdmits ==
  ASSUME Inv, NEW o \in Operation, NEW kind \in Kind, NEW release \in Release,
         Admit(o, kind, release)
  PROVE  Keeps \/ Admits
<1> DEFINE r == NewRecord(kind, release)
           s == [NewRecord(kind, release) EXCEPT !.status = "failed_pre_switch"]
<1>1. /\ active = None /\ ~ RecoveryBlocked /\ operations[o].status = "absent"
      /\ UNCHANGED world
  BY DEF Admit, Inv, JournalInv, durable, host, world, live
<1>2. r \in Record /\ r.status = "idle" /\ s \in Record /\ s.status = "failed_pre_switch"
  BY DEF NewRecord, Record, Status, Transitions
<1>3. [[operations EXCEPT ![o] = r] EXCEPT ![o].status = "failed_pre_switch"]
        = [operations EXCEPT ![o] = s]
  BY DEF Inv, TypeInv, TypeOK
<1>4. \/ UNCHANGED <<operations, active>>
      \/ operations' = [operations EXCEPT ![o] = r] /\ active' \in {None, o}
      \/ operations' = [operations EXCEPT ![o] = s] /\ active' = None
  BY <1>1, <1>3 DEF Admit
<1> QED BY <1>1, <1>2, <1>4 DEF Keeps, Admits

\* The rest: reconcile takes a blocked operation, a kill lets go of the lock.
LEMMA EnvironmentRewrites ==
  ASSUME Inv, Environment
  PROVE  Keeps \/ Admits \/ Takes \/ Lets
<1>1. CASE StartApply
  BY <1>1, AdmitAdmits DEF StartApply, Kind
<1>2. CASE StartRollback
  <2>1. slots.previous \in Release
    BY <1>2 DEF StartRollback, Inv, TypeInv, TypeOK
  <2> QED BY <1>2, <2>1, AdmitAdmits DEF StartRollback, Kind
<1>3. CASE StartReconcile
  BY <1>3 DEF StartReconcile, Takes, Inv, JournalInv, durable, host, world, live
<1>4. CASE KillAgent \/ KillReconcile
  BY <1>4 DEF KillAgent, KillReconcile, Crash, Keeps, Lets, durable, host, world, live
<1>5. CASE EnablePlugins \/ JobApplies
  BY <1>5 DEF EnablePlugins, JobApplies, Keeps, process
<1> QED BY <1>1, <1>2, <1>3, <1>4, <1>5 DEF Environment

\* Every step is one of these six.
LEMMA StepRewrites ==
  ASSUME Inv, [Next]_vars
  PROVE  Keeps \/ Rewrites \/ Lets \/ Recovers \/ Admits \/ Takes
<1>1. CASE UNCHANGED vars
  BY <1>1 DEF vars, process, Keeps
<1>2. CASE Next
  BY <1>2, WorkerRewrites, ReconcileRewrites, RecoveryRewrites, EnvironmentRewrites DEF Next
<1> QED BY <1>1, <1>2

\* The abstract host is made of typed parts, and moves only with world.
AbstractWorld ==
  [current |-> slots.current, previous |-> slots.previous, locator |-> locator,
   database |-> runtime.database, configuration |-> runtime.configuration,
   applied |-> applied, configured |-> configured, app |-> app]

\* The mapped host is one of HostWorld.
LEMMA WorldType == TypeInv => AbstractWorld \in HostWorld
BY DEF TypeInv, TypeOK, AbstractWorld, HostWorld, RuntimeContracts

\* Each of the six kinds of step is a step of HostMutation, or stutters.
LEMMA KeepsRefines ==
  ASSUME Inv, Inv', [Next]_vars, Keeps, ~ JobApplies
  PROVE  [Abstract!Next]_Abstract!vars
<1>1. phases' = phases
  BY DEF Keeps, phases
<1>2. CASE UNCHANGED world
  BY <1>1, <1>2 DEF Keeps, phases, world, live, Abstract!vars
<1>3. CASE Touches
  <2>1. phases[active] \in {"committed", "blocked"} /\ active \in Operation
    BY <1>3 DEF Touches, Touching, phases, AbstractPhase, PreSwitchRecovery, TerminalStates, op
  <2>2. AbstractWorld' \in HostWorld
    <3>1. TypeInv'
      BY DEF Inv
    <3> QED BY <3>1 DEF TypeInv, TypeOK, AbstractWorld, HostWorld, RuntimeContracts
  <2>3. Abstract!Mutate(active)
    BY <1>1, <2>1, <2>2 DEF Abstract!Mutate, phases, AbstractWorld, Keeps
  <2> QED BY <2>1, <2>3 DEF Abstract!Next
<1> QED BY <1>2, <1>3, StepTouches
\* A status entered is a step of its operation, or none.
LEMMA RewritesRefines ==
  ASSUME Inv, Rewrites
  PROVE  [Abstract!Next]_Abstract!vars
<1>1. PICK r \in Record :
        /\ operations' = [operations EXCEPT ![active] = r]
        /\ r.status = op.status \/ (r.status \in Status /\ CanEnter(op, r.status))
  BY DEF Rewrites
<1>2. active \in Operation /\ active' = active /\ op \in Record /\ active # None
  BY ActiveRecord, ExecutorAssumption DEF Rewrites, Inv, TypeInv
<1>3. phases' = [phases EXCEPT ![active] = AbstractPhase(r.status)]
  BY <1>1, <1>2, OnePhase
<1>4. phases[active] = AbstractPhase(op.status)
  BY <1>2 DEF phases, op
<1>5. AbstractWorld' = AbstractWorld
  BY DEF Rewrites, AbstractWorld, world, live
<1>6. CASE AbstractPhase(r.status) = AbstractPhase(op.status)
  <2>1. phases' = phases
    BY <1>2, <1>3, <1>4, <1>6 DEF phases
  <2> QED BY <1>2, <1>5, <2>1 DEF phases, AbstractWorld, Abstract!vars
<1>7. CASE AbstractPhase(op.status) = "prepared" /\ AbstractPhase(r.status) = "aborted"
  <2>1. Abstract!Abort(active)
    BY <1>2, <1>3, <1>4, <1>5, <1>7 DEF Abstract!Abort, Abstract!Moves, phases, AbstractWorld
  <2> QED BY <1>2, <2>1 DEF Abstract!Next
<1>8. CASE AbstractPhase(op.status) = "prepared" /\ AbstractPhase(r.status) = "committed"
  <2>1. Abstract!Commit(active)
    BY <1>2, <1>3, <1>4, <1>5, <1>8 DEF Abstract!Commit, Abstract!Moves, phases, AbstractWorld
  <2> QED BY <1>2, <2>1 DEF Abstract!Next
<1>9. CASE AbstractPhase(op.status) \in {"committed", "blocked"}
           /\ AbstractPhase(r.status) = "finished"
  <2>1. Abstract!Finish(active)
    BY <1>2, <1>3, <1>4, <1>5, <1>9 DEF Abstract!Finish, Abstract!Moves, phases, AbstractWorld
  <2> QED BY <1>2, <2>1 DEF Abstract!Next
<1>10. CASE AbstractPhase(op.status) = "committed" /\ AbstractPhase(r.status) = "blocked"
  <2>1. Abstract!Block(active)
    BY <1>2, <1>3, <1>4, <1>5, <1>10 DEF Abstract!Block, Abstract!Moves, phases, AbstractWorld
  <2> QED BY <1>2, <2>1 DEF Abstract!Next
<1> QED BY <1>1, <1>2, <1>6, <1>7, <1>8, <1>9, <1>10, EdgePhase

\* Recovery aborts what touched nothing and blocks the rest.
LEMMA RecoversRefines ==
  ASSUME Inv, Recovers
  PROVE  [Abstract!Next]_Abstract!vars
<1>1. PICK o \in Operation, r \in Record :
        /\ operations' = [operations EXCEPT ![o] = r]
        /\ r.status \in Status /\ CanEnter(operations[o], r.status)
        /\ r.status \in {"failed_pre_switch", "manual_recovery_required"}
  BY DEF Recovers
<1>2. phases' = [phases EXCEPT ![o] = AbstractPhase(r.status)]
  BY <1>1, OnePhase
<1>3. phases[o] = AbstractPhase(operations[o].status) /\ operations[o] \in Record
  BY DEF phases, Inv, TypeInv, TypeOK
<1>4. AbstractWorld' = AbstractWorld /\ active' = active /\ active = None
  BY DEF Recovers, AbstractWorld, world, live
<1>5. AbstractPhase(r.status) \in {"aborted", "blocked"}
  BY <1>1 DEF AbstractPhase, PreSwitchRecovery, TerminalStates
<1>6. CASE AbstractPhase(r.status) = phases[o]
  <2>1. phases' = phases
    BY <1>2, <1>6 DEF phases
  <2> QED BY <1>4, <2>1 DEF phases, AbstractWorld, Abstract!vars
<1>7. CASE phases[o] = "prepared" /\ AbstractPhase(r.status) = "aborted"
  <2>1. Abstract!Abort(o)
    BY <1>2, <1>4, <1>7 DEF Abstract!Abort, Abstract!Moves, phases, AbstractWorld
  <2> QED BY <2>1 DEF Abstract!Next
<1>8. CASE phases[o] = "committed" /\ AbstractPhase(r.status) = "blocked"
  <2>1. Abstract!Block(o)
    BY <1>2, <1>4, <1>8 DEF Abstract!Block, Abstract!Moves, phases, AbstractWorld
  <2> QED BY <2>1 DEF Abstract!Next
<1> QED BY <1>1, <1>3, <1>5, <1>6, <1>7, <1>8, EdgePhase

\* An operation is created only while none is blocked.
LEMMA AdmitsRefines ==
  ASSUME Inv, Admits
  PROVE  [Abstract!Next]_Abstract!vars
<1>1. PICK o \in Operation, r \in Record :
        /\ operations[o].status = "absent"
        /\ operations' = [operations EXCEPT ![o] = r]
        /\ \/ r.status = "idle" /\ active' \in {None, o}
           \/ r.status = "failed_pre_switch" /\ active' = None
  BY DEF Admits
<1>2. phases' = [phases EXCEPT ![o] = AbstractPhase(r.status)]
  BY <1>1, OnePhase
<1>3. phases[o] = "new"
  BY <1>1 DEF phases, AbstractPhase, PreSwitchRecovery, TerminalStates
<1>4. AbstractWorld' = AbstractWorld /\ active = None
  BY DEF Admits, AbstractWorld, world, live
<1>5. ~ Abstract!Blocked
  BY DEF Admits, RecoveryBlocked, Abstract!Blocked, AbstractPhase, Inv, TypeInv, TypeOK, Record,
         PreSwitchRecovery, TerminalStates
<1>6. \/ AbstractPhase(r.status) = "prepared" /\ active' \in {None, o}
      \/ AbstractPhase(r.status) = "aborted" /\ active' = None
  BY <1>1 DEF AbstractPhase, PreSwitchRecovery, TerminalStates
<1>7. Abstract!Begin(o)
  BY <1>2, <1>3, <1>4, <1>5, <1>6 DEF Abstract!Begin, Abstract!Moves, phases, AbstractWorld
<1> QED BY <1>7 DEF Abstract!Next

\* reconcile takes a blocked operation; a killed process lets go.
LEMMA TakesRefines ==
  ASSUME Inv, Takes \/ Lets
  PROVE  [Abstract!Next]_Abstract!vars
<1>1. phases' = phases /\ AbstractWorld' = AbstractWorld
  BY DEF Takes, Lets, phases, AbstractWorld, world, live
<1>2. CASE Takes
  <2>1. phases[active'] = "blocked"
    BY <1>2 DEF Takes, phases, AbstractPhase, PreSwitchRecovery, TerminalStates
  <2>2. Abstract!Take(active')
    BY <1>1, <1>2, <2>1 DEF Takes, Abstract!Take, phases, AbstractWorld
  <2> QED BY <1>2, <2>2 DEF Takes, Abstract!Next
<1>3. CASE Lets
  BY <1>1, <1>3 DEF Lets, Abstract!Unlock, Abstract!Next, phases, AbstractWorld
<1> QED BY <1>2, <1>3

\* No container goes on without a client.
JobInv == ~ JobsOutliveClient /\ job = {}

\* A container that ends with its client is never left behind.
LEMMA NoStrayJob == JobInv /\ [Next]_vars => JobInv'
<1> SUFFICES ASSUME JobInv, [Next]_vars PROVE JobInv'
  OBVIOUS
<1>1. CASE UNCHANGED job
  BY <1>1 DEF JobInv
<1>2. CASE Migrate
  BY <1>2 DEF Migrate, JobInv
<1>3. CASE JobApplies
  BY <1>3 DEF JobApplies, JobInv
<1> QED
  BY <1>1, <1>2, <1>3
     DEF vars, host, Next, SharedStep, ApplyStep, HandlerStep, ReconcileStep, RecoveryStep,
         Environment, Begin, EnterPreflight, CheckHost, EnterFetching, Fetch,
         EnterVerifying, VerifyRelease, InspectPlugins, Plan, EnterPulling, Pull,
         EnterSwitching, Switch, EnterVerifyingHealth, VerifyHealth, RecordPreviousPlugins,
         Promote, PublishLocator, PublishFailed, Finish, BindRecoveryTarget, EnterBackup,
         BackupDatabase, MarkDatabasePending, EnterMigrating, QuiesceWriters,
         RecordDatabaseContract, ResolveDatabase, MarkConfigurationPending,
         EnterBootstrapping, Bootstrap, RecordConfigurationContract, RecordTargetPlugins,
         ResolveConfiguration, Replan, Incompatible, ApplyFailed, RollbackFailed,
         EnterRollingBack, Restore, VerifyRestored, RecordRestoredPlugins, FinishRestore,
         RestoreFailed, WorkerFailed, ReleaseLock, ReconcileReceipt,
         ResolveUncertainDatabase, ClearDatabase, ResolveUncertainConfiguration,
         RecordUncertainConfiguration, ClearConfiguration, ReconcilePlan, ReconcileSwitch,
         ReconcileHealth, ReconcileRuntime, ReconcileLocator, Reconciled, Restart,
         RecoverOperation, Serve, StartApply, StartRollback, Admit, StartReconcile,
         KillAgent, KillReconcile, Crash, EnablePlugins, EnterStatus, Observe,
         RecordPlugins

\* Without container jobs that outlive their client, every behaviour of the
\* executor is one of HostMutation: only the operation that holds the lock, and
\* whose journal entry says so, ever changes the host.
THEOREM ExecutorImplementsHostMutation ==
  ~ JobsOutliveClient /\ Spec => ImplementsHostMutation
<1>1. ~ JobsOutliveClient /\ Init => JobInv /\ Abstract!Init
  <2> SUFFICES ASSUME ~ JobsOutliveClient, Init PROVE JobInv /\ Abstract!Init
    OBVIOUS
  <2>1. phases = [o \in Operation |-> "new"]
    BY DEF Init, phases, AbstractPhase, NewRecord, PreSwitchRecovery, TerminalStates
  <2>2. AbstractWorld \in HostWorld
    BY InitType, WorldType
  <2> QED BY <2>1, <2>2 DEF Init, Abstract!Init, phases, AbstractWorld, JobInv
<1>2. JobInv /\ [Next]_vars => JobInv'
  BY NoStrayJob
<1>3. Inv /\ Inv' /\ JobInv /\ [Next]_vars => [Abstract!Next]_Abstract!vars
  <2> SUFFICES ASSUME Inv, Inv', JobInv, [Next]_vars
               PROVE  [Abstract!Next]_Abstract!vars
    OBVIOUS
  <2>1. ~ JobApplies
    BY DEF JobApplies, JobInv
  <2> QED
    BY <2>1, StepRewrites, KeepsRefines, RewritesRefines, RecoversRefines, AdmitsRefines,
       TakesRefines
<1> QED
  BY <1>1, <1>2, <1>3, JournalCorrect, PTL DEF Spec, ImplementsHostMutation, Abstract!Spec

-----------------------------------------------------------------------------
(* The recovery barrier.                                                     *)

\* The labels a worker reaches only past the barrier it reads in Begin.
PastBarrier == (ApplyLabel \cup SwitchLabel) \ {"begin", "publish_error"}

\* Nobody else writes the journal while a worker runs, so the barrier it found
\* down is still down when it promotes.
BarrierInv == pc \in PastBarrier => ~ RecoveryBlocked

\* Entering any status but the barrier's raises no barrier.
LEMMA EnterBarrier ==
  ASSUME Inv, ~ RecoveryBlocked, NEW status \in Status \ {"manual_recovery_required"},
         NEW next, NEW failed, Enter(status, next, failed)
  PROVE  ~ RecoveryBlocked'
<1>1. \/ UNCHANGED operations
      \/ operations' = [operations EXCEPT ![active] = [op EXCEPT !.status = status]]
  BY DEF Enter, WriteRecord
<1>2. CASE UNCHANGED operations
  BY <1>2 DEF RecoveryBlocked
<1>3. CASE operations' = [operations EXCEPT ![active] = [op EXCEPT !.status = status]]
  BY <1>3 DEF RecoveryBlocked, op, Inv, TypeInv, TypeOK, Record
<1> QED BY <1>1, <1>2, <1>3

\* Only the promotion changes the slots.
LEMMA SlotsMove == [Next]_vars /\ pc # "promote" => UNCHANGED slots
BY DEF vars, durable, Next, SharedStep, ApplyStep, HandlerStep, ReconcileStep, RecoveryStep,
       Environment, Begin, EnterPreflight, CheckHost, EnterFetching, Fetch,
       EnterVerifying, VerifyRelease, InspectPlugins, Plan, EnterPulling, Pull,
       EnterSwitching, Switch, EnterVerifyingHealth, VerifyHealth, RecordPreviousPlugins,
       Promote, PublishLocator, PublishFailed, Finish, BindRecoveryTarget, EnterBackup,
       BackupDatabase, MarkDatabasePending, EnterMigrating, QuiesceWriters, Migrate,
       RecordDatabaseContract, ResolveDatabase, MarkConfigurationPending,
       EnterBootstrapping, Bootstrap, RecordConfigurationContract, RecordTargetPlugins,
       ResolveConfiguration, Replan, Incompatible, ApplyFailed, RollbackFailed,
       EnterRollingBack, Restore, VerifyRestored, RecordRestoredPlugins, FinishRestore,
       RestoreFailed, WorkerFailed, ReleaseLock, ReconcileReceipt,
       ResolveUncertainDatabase, ClearDatabase, ResolveUncertainConfiguration,
       RecordUncertainConfiguration, ClearConfiguration, ReconcilePlan, ReconcileSwitch,
       ReconcileHealth, ReconcileRuntime, ReconcileLocator, Reconciled, Restart,
       RecoverOperation, Serve, StartApply, StartRollback, Admit, StartReconcile,
       KillAgent, KillReconcile, Crash, EnablePlugins, JobApplies, EnterStatus, Observe,
       RecordPlugins

\* The shared steps: Begin reads the barrier, the others enter no status that
\* raises it, but for the one that answers a failed publication and then stops.
LEMMA SharedBarrier ==
  ASSUME Inv, BarrierInv, SharedStep, pc' \in PastBarrier
  PROVE  ~ RecoveryBlocked'
<1> USE DEF PastBarrier, ApplyLabel, SwitchLabel, Status, Transitions
<1>1. CASE Begin
  BY <1>1 DEF Begin, RecoveryBlocked
<1>2. CASE EnterPreflight \/ EnterFetching \/ EnterVerifying \/ EnterPulling
           \/ EnterSwitching \/ EnterVerifyingHealth \/ Finish
  BY <1>2, EnterBarrier
     DEF EnterPreflight, EnterFetching, EnterVerifying, EnterPulling, EnterSwitching,
         EnterVerifyingHealth, Finish, EnterStatus, BarrierInv
<1>3. CASE PublishFailed
  BY <1>3 DEF PublishFailed, Enter, WriteRecord
<1>4. CASE CheckHost \/ Fetch \/ VerifyRelease \/ InspectPlugins \/ Plan \/ Pull \/ Switch
           \/ VerifyHealth \/ RecordPreviousPlugins \/ Promote \/ PublishLocator
  BY <1>4
     DEF CheckHost, Fetch, VerifyRelease, InspectPlugins, Plan, Pull, Switch, VerifyHealth,
         RecordPreviousPlugins, Promote, PublishLocator, Observe, RecordPlugins, BarrierInv,
         RecoveryBlocked
<1> QED BY <1>1, <1>2, <1>3, <1>4 DEF SharedStep

\* The steps of apply alone: receipt and pending transitions leave the status.
LEMMA ApplyBarrier ==
  ASSUME Inv, BarrierInv, ApplyStep
  PROVE  ~ RecoveryBlocked'
<1> USE DEF PastBarrier, ApplyLabel, SwitchLabel, Status, Transitions
<1>1. pc \in PastBarrier
  BY DEF ApplyStep, BindRecoveryTarget, EnterBackup, BackupDatabase, MarkDatabasePending,
         EnterMigrating, QuiesceWriters, Migrate, RecordDatabaseContract, ResolveDatabase,
         MarkConfigurationPending, EnterBootstrapping, Bootstrap,
         RecordConfigurationContract, RecordTargetPlugins, ResolveConfiguration, Replan,
         EnterStatus, Observe, RecordPlugins
<1>2. ~ RecoveryBlocked
  BY <1>1 DEF BarrierInv
<1>3. CASE EnterBackup \/ EnterMigrating \/ EnterBootstrapping
  BY <1>2, <1>3, EnterBarrier DEF EnterBackup, EnterMigrating, EnterBootstrapping, EnterStatus
<1>4. CASE BindRecoveryTarget \/ MarkDatabasePending \/ ResolveDatabase
           \/ MarkConfigurationPending \/ ResolveConfiguration
  <2>1. op \in Record
    BY <1>1, ActiveFits DEF HeldLabel, Label, WorkerLabel
  <2>2. \/ UNCHANGED operations
        \/ \E r : operations' = [operations EXCEPT ![active] = r] /\ r.status = op.status
    BY <1>4, <2>1
       DEF BindRecoveryTarget, MarkDatabasePending, ResolveDatabase,
           MarkConfigurationPending, ResolveConfiguration, WriteRecord, Record
  <2> QED BY <1>2, <2>2 DEF RecoveryBlocked, op, Inv, TypeInv, TypeOK
<1>5. CASE UNCHANGED operations
  BY <1>2, <1>5 DEF RecoveryBlocked
<1> QED
  BY <1>3, <1>4, <1>5
     DEF ApplyStep, BackupDatabase, QuiesceWriters, Migrate, RecordDatabaseContract,
         Bootstrap, RecordConfigurationContract, RecordTargetPlugins, Replan, Observe,
         RecordPlugins

\* Everybody else is elsewhere.
LEMMA BarrierStep == Inv /\ BarrierInv /\ [Next]_vars => BarrierInv'
<1> SUFFICES ASSUME Inv, BarrierInv, [Next]_vars, pc' \in PastBarrier
             PROVE  ~ RecoveryBlocked'
  BY DEF BarrierInv
<1>1. CASE UNCHANGED <<operations, pc>>
  BY <1>1 DEF BarrierInv, RecoveryBlocked
<1>2. CASE SharedStep \/ ApplyStep
  BY <1>2, SharedBarrier, ApplyBarrier
<1>3. CASE HandlerStep \/ ReconcileStep \/ RecoveryStep
  BY <1>3
     DEF HandlerStep, Incompatible, ApplyFailed, RollbackFailed, EnterRollingBack, Restore,
         VerifyRestored, RecordRestoredPlugins, FinishRestore, RestoreFailed, WorkerFailed,
         ReleaseLock, ReconcileStep, ReconcileReceipt, ResolveUncertainDatabase,
         ClearDatabase, ResolveUncertainConfiguration, RecordUncertainConfiguration,
         ClearConfiguration, ReconcilePlan, ReconcileSwitch, ReconcileHealth,
         ReconcileRuntime, ReconcileLocator, Reconciled, RecoveryStep, Restart,
         RecoverOperation, Serve, Observe, RecordPlugins, Enter, WriteRecord, WriteRuntime,
         WriteLocator, Recreate, RunBootstrap, Resolve, BarrierInv, RecoveryBlocked,
         PastBarrier, ApplyLabel, SwitchLabel
<1>4. CASE Environment
  BY <1>1, <1>4
     DEF Environment, StartApply, StartRollback, Admit, StartReconcile, KillAgent,
         KillReconcile, Crash, EnablePlugins, JobApplies, PastBarrier, ApplyLabel, SwitchLabel
<1> QED BY <1>1, <1>2, <1>3, <1>4 DEF Next, vars

\* While an operation needs manual recovery CURRENT does not change and no other
\* operation comes into being: the promotion is reached only past the barrier,
\* and nobody but admission brings a record into being.
THEOREM BarrierIsKept == Spec => BarrierHolds
<1>1. Init => BarrierInv
  BY DEF Init, BarrierInv, PastBarrier, ApplyLabel, SwitchLabel
<1>2. ASSUME Inv, BarrierInv, [Next]_vars, RecoveryBlocked PROVE UNCHANGED slots
  <2>1. pc # "promote"
    BY <1>2 DEF BarrierInv, PastBarrier, ApplyLabel, SwitchLabel
  <2> QED BY <1>2, <2>1, SlotsMove
<1>3. ASSUME Inv, [Next]_vars, RecoveryBlocked, NEW o \in Operation,
             operations[o].status = "absent"
      PROVE  operations'[o].status = "absent"
  <2>1. CASE Keeps \/ Lets \/ Takes
    BY <1>3, <2>1 DEF Keeps, Lets, Takes
  <2>2. CASE Rewrites
    BY <1>3, <2>2 DEF Rewrites, CanEnter, op, Status, Transitions, Inv, TypeInv, TypeOK
  <2>3. CASE Recovers
    BY <1>3, <2>3 DEF Recovers, CanEnter, Status, Transitions, Inv, TypeInv, TypeOK
  <2>4. CASE Admits
    BY <1>3, <2>4 DEF Admits
  <2> QED BY <1>3, <2>1, <2>2, <2>3, <2>4, StepRewrites
<1>4. Inv /\ BarrierInv /\ [Next]_vars =>
        ((\E b \in Operation : operations[b].status = "manual_recovery_required") =>
           /\ UNCHANGED slots
           /\ \A o \in Operation :
                operations[o].status = "absent" => operations'[o].status = "absent")
  BY <1>2, <1>3 DEF RecoveryBlocked
<1> QED BY <1>1, <1>4, BarrierStep, JournalCorrect, PTL DEF Spec, BarrierHolds
=============================================================================
