--------------------------- MODULE InitialAdoption ---------------------------
(* The one-time adoption of a running installation (updater/runtime.py): the  *)
(* first CURRENT, the first contract record and, last, the locator by which   *)
(* the instance is found; and the reconcile command that completes or refuses *)
(* an adoption that was cut off.  Every command and the agent take the same   *)
(* update lock; a step is one durable write, and any process may die between  *)
(* two of them.                                                               *)
EXTENDS OperationStore

CONSTANTS
  Operation,     \* operation ids
  Command,       \* host command lines: the installer, adopt-current, reconcile
  NeedsLocator,  \* whether a host runtime is built from the published locator,
                 \* as production_runtime does, or beside it, as in the tests
  MaxFaults,     \* bound: failed durable writes in a behaviour
  MaxKills       \* bound: killed processes in a behaviour

ASSUME AdoptionAssumption ==
  /\ NeedsLocator \in BOOLEAN /\ MaxFaults \in Nat /\ MaxKills \in Nat
  /\ None \notin Release \cup Operation \cup Command \cup RuntimeContracts \cup {"agent"}
  /\ "agent" \notin Command

VARIABLES
  journal,  \* the adoptions on record
  slots,    \* CURRENT and PREVIOUS
  runtime,  \* runtime.json: the recorded contracts
  locator,  \* the release named by the instance locator
  host,     \* the release that runs, its live contracts and enabled plugins
  command,  \* what each command line is doing
  agent,    \* the agent service: "down", "starting" or "up"
  lock,     \* who holds update.lock
  budget    \* remaining faults and kills

published == <<slots, runtime, locator>>
vars == <<journal, published, host, command, agent, lock, budget>>

\* The steps of adopt_initial_release, then those of its reconciliation.
AdoptionSteps ==
  {"checking", "creating", "preflight", "fetching", "verifying", "binding", "adopting",
   "handling"}
SharedSteps == {"importing", "initializing", "publishing", "closing"}
ReconcileSteps == {"waiting", "rechecking"}

Idle == [step |-> "idle", reconciling |-> FALSE, target |-> None, op |-> None, plugins |-> {}]

AdoptionRecord ==
  [status : Status \cup {"absent"}, target : Release \cup {None}, bound : BOOLEAN]
CommandLine ==
  [step : AdoptionSteps \cup SharedSteps \cup ReconcileSteps \cup {"idle"},
   reconciling : BOOLEAN, target : Release \cup {None}, op : Operation \cup {None},
   plugins : SUBSET PluginApi]

AdoptionTypeOK ==
  /\ journal \in [Operation -> AdoptionRecord]
  /\ slots \in [current : Release \cup {None}, previous : Release \cup {None}]
  /\ runtime \in RuntimeContracts \cup {None}
  /\ locator \in Release \cup {None}
  /\ host \in [release : Release, live : RuntimeContracts]
  /\ command \in [Command -> CommandLine]
  /\ agent \in {"down", "starting", "up"}
  /\ lock \in Command \cup {"agent", None}
  /\ budget \in [faults : 0..MaxFaults, kills : 0..MaxKills]

\* What a release writes as its contracts, with these plugins enabled.
ContractsOf(r, plugins) ==
  [database |-> Manifest[r].database, configuration |-> Manifest[r].configuration,
   plugins |-> plugins]

\* The installer has started a release and nothing has been adopted.
AdoptionInit ==
  /\ journal = [o \in Operation |-> [status |-> "absent", target |-> None, bound |-> FALSE]]
  /\ slots = [current |-> None, previous |-> None]
  /\ runtime = None
  /\ locator = None
  /\ \E r \in Release : host = [release |-> r, live |-> ContractsOf(r, {})]
  /\ command = [c \in Command |-> Idle]
  /\ agent = "down"
  /\ lock = None
  /\ budget = [faults |-> MaxFaults, kills |-> MaxKills]

-----------------------------------------------------------------------------
(* Steps of a command line. *)

Fault == budget.faults > 0 /\ budget' = [budget EXCEPT !.faults = @ - 1]
Dies == budget.kills > 0 /\ budget' = [budget EXCEPT !.kills = @ - 1]

At(c, step) == command' = [command EXCEPT ![c].step = step] /\ UNCHANGED lock
Leave(c) == command' = [command EXCEPT ![c] = Idle] /\ lock' = None

\* An error ends a reconciliation and goes to the handler of an adoption.
Raise(c) == IF command[c].reconciling THEN Leave(c) ELSE At(c, "handling")

\* A durable write; one that raises may have taken effect all the same.
Attempt(c, file, written, next) ==
  \/ file' = written /\ At(c, next) /\ UNCHANGED budget
  \/ file' \in {file, written} /\ Fault /\ Raise(c)

Recorded(o, status) == [journal EXCEPT ![o].status = status]

RecoveryBlocked == \E o \in Operation : journal[o].status = "manual_recovery_required"

(* _verify_initial_adoption: exactly this release runs, on its own contracts  *)
(* and with plugins it supports.                                              *)
Verified(r) ==
  /\ host.release = r
  /\ host.live = ContractsOf(r, host.live.plugins)
  /\ host.live.plugins \subseteq Manifest[r].supportedApis

-----------------------------------------------------------------------------
(* adopt_initial_release *)

\* The bound IdLeft: an adoption starts while an operation id is left.
IdLeft == \E o \in Operation : journal[o].status = "absent"

AdoptStart(c) ==
  /\ command[c].step = "idle" /\ lock = None /\ IdLeft
  /\ \E r \in Release :
       command' = [command EXCEPT ![c] = [Idle EXCEPT !.step = "checking", !.target = r]]
  /\ lock' = c
  /\ UNCHANGED <<journal, published, host, agent, budget>>

(* The checks before the first record.  A valid locator passes them: only a   *)
(* broken one is refused here, an existing one when it is to be published.    *)
Check(c) ==
  /\ command[c].step = "checking"
  /\ IF /\ Verified(command[c].target) /\ ~RecoveryBlocked
        /\ slots = [current |-> None, previous |-> None] /\ runtime = None
     THEN /\ command' = [command EXCEPT ![c].step = "creating", ![c].plugins = host.live.plugins]
          /\ UNCHANGED lock
     ELSE Leave(c)
  /\ UNCHANGED <<journal, published, host, agent, budget>>

\* The handler knows of no operation when create raises, though it may exist.
Create(c) ==
  /\ command[c].step = "creating"
  /\ \E o \in Operation :
       LET created == [journal EXCEPT ![o] =
                         [status |-> "idle", target |-> command[c].target, bound |-> FALSE]]
       IN  /\ journal[o].status = "absent"
           /\ \/ /\ journal' = created
                 /\ command' = [command EXCEPT ![c].step = "preflight", ![c].op = o]
                 /\ UNCHANGED <<lock, budget>>
              \/ journal' \in {journal, created} /\ Fault /\ Leave(c)
  /\ UNCHANGED <<published, host, agent>>

Enter(c, status, next) ==
  /\ command[c].step = status
  /\ CanEnter(journal[command[c].op], status)
  /\ Attempt(c, journal, Recorded(command[c].op, status), next)
  /\ UNCHANGED <<published, host, agent>>

\* Mutant: the target is never bound to the operation.
MutantBindRecoveryTarget(c) ==
  /\ command[c].step = "binding" /\ At(c, "adopting")
  /\ UNCHANGED <<journal, published, host, agent, budget>>

BindRecoveryTarget(c) ==
  /\ command[c].step = "binding"
  /\ Attempt(c, journal, [journal EXCEPT ![command[c].op].bound = TRUE], "adopting")
  /\ UNCHANGED <<published, host, agent>>

\* A reconciliation comes here with no CURRENT or with the one it compared.
ImportCurrent(c) ==
  /\ command[c].step = "importing"
  /\ IF slots.current = None
     THEN Attempt(c, slots, [slots EXCEPT !.current = command[c].target], "initializing")
     ELSE At(c, "initializing") /\ UNCHANGED <<slots, budget>>
  /\ UNCHANGED <<journal, runtime, locator, host, agent>>

InitializeFromManifest(c) ==
  LET expected == ContractsOf(command[c].target, command[c].plugins) IN
  /\ command[c].step = "initializing"
  /\ IF runtime = None THEN Attempt(c, runtime, expected, "publishing")
     ELSE /\ IF runtime = expected THEN At(c, "publishing") ELSE Raise(c)
          /\ UNCHANGED <<runtime, budget>>
  /\ UNCHANGED <<journal, slots, locator, host, agent>>

PublishInstanceLocator(c) ==
  /\ command[c].step = "publishing"
  /\ IF locator = None THEN Attempt(c, locator, command[c].target, "closing")
     ELSE /\ IF command[c].reconciling /\ locator = command[c].target
             THEN At(c, "closing") ELSE Raise(c)
          /\ UNCHANGED <<locator, budget>>
  /\ UNCHANGED <<journal, slots, runtime, host, agent>>

\* The last transition; the journal refuses to settle an operation twice.
Close(c) ==
  LET o == command[c].op
      status == IF command[c].reconciling THEN "reconciled" ELSE "succeeded"
  IN  /\ command[c].step = "closing"
      /\ IF CanEnter(journal[o], status)
         THEN \/ journal' = Recorded(o, status) /\ Leave(c) /\ UNCHANGED budget
              \/ journal' \in {journal, Recorded(o, status)} /\ Fault /\ Raise(c)
         ELSE Raise(c) /\ UNCHANGED <<journal, budget>>
      /\ UNCHANGED <<published, host, agent>>

\* The handler of an adoption: its own transition may be refused or fail.
Handle(c) ==
  LET o == command[c].op
      status == IF journal[o].status = "adopting" THEN "manual_recovery_required"
                ELSE "failed_pre_switch"
  IN  /\ command[c].step = "handling"
      /\ IF CanEnter(journal[o], status)
         THEN \/ journal' = Recorded(o, status) /\ UNCHANGED budget
              \/ journal' \in {journal, Recorded(o, status)} /\ Fault
         ELSE UNCHANGED <<journal, budget>>
      /\ Leave(c)
      /\ UNCHANGED <<published, host, agent>>

Adopt(c) ==
  \/ AdoptStart(c) \/ Check(c) \/ Create(c)
  \/ Enter(c, "preflight", "fetching") \/ Enter(c, "fetching", "verifying")
  \/ Enter(c, "verifying", "binding") \/ BindRecoveryTarget(c)
  \/ Enter(c, "adopting", "importing") \/ Handle(c)

-----------------------------------------------------------------------------
(* reconcile, for an adoption *)

RuntimeBuilds == NeedsLocator => locator # None

\* The record is read before the lock is taken.
ReconcileStart(c) ==
  /\ command[c].step = "idle" /\ RuntimeBuilds
  /\ \E o \in Operation :
       /\ journal[o].status = "manual_recovery_required" /\ journal[o].bound
       /\ command' = [command EXCEPT ![c] =
            [Idle EXCEPT !.step = "waiting", !.reconciling = TRUE, !.op = o,
                         !.target = journal[o].target]]
  /\ UNCHANGED <<journal, published, host, agent, lock, budget>>

\* The lock is taken without waiting.
ReconcileLock(c) ==
  /\ command[c].step = "waiting"
  /\ IF lock = None
     THEN command' = [command EXCEPT ![c].step = "rechecking"] /\ lock' = c
     ELSE command' = [command EXCEPT ![c] = Idle] /\ UNCHANGED lock
  /\ UNCHANGED <<journal, published, host, agent, budget>>

\* Mutant: an instance that has been updated since is not told apart.
MutantRecheck(c) ==
  LET r == command[c].target IN
  /\ command[c].step = "rechecking"
  /\ IF Verified(r) /\ slots.current \in {None, r}
     THEN /\ command' = [command EXCEPT ![c].step = "importing", ![c].plugins = host.live.plugins]
          /\ UNCHANGED lock
     ELSE Leave(c)
  /\ UNCHANGED <<journal, published, host, agent, budget>>

Recheck(c) ==
  LET r == command[c].target IN
  /\ command[c].step = "rechecking"
  /\ IF Verified(r) /\ slots.previous = None /\ slots.current \in {None, r}
     THEN /\ command' = [command EXCEPT ![c].step = "importing", ![c].plugins = host.live.plugins]
          /\ UNCHANGED lock
     ELSE Leave(c)
  /\ UNCHANGED <<journal, published, host, agent, budget>>

Reconcile(c) == ReconcileStart(c) \/ ReconcileLock(c) \/ Recheck(c)

Publish(c) ==
  ImportCurrent(c) \/ InitializeFromManifest(c) \/ PublishInstanceLocator(c) \/ Close(c)

\* A killed command line: the kernel drops its lock.
Kill(c) ==
  /\ command[c].step # "idle" /\ Dies
  /\ command' = [command EXCEPT ![c] = Idle]
  /\ lock' = IF lock = c THEN None ELSE lock
  /\ UNCHANGED <<journal, published, host, agent>>

-----------------------------------------------------------------------------
(* The agent service, and the host around both. *)

AgentStart ==
  /\ agent = "down" /\ lock = None /\ RuntimeBuilds
  /\ agent' = "starting" /\ lock' = "agent"
  /\ UNCHANGED <<journal, published, host, command, budget>>

\* recover_incomplete, one operation at a time; a failed write ends the service.
AgentRecovers ==
  /\ agent = "starting"
  /\ \E o \in Operation :
       LET recovered == Recorded(o, RecoveredStatus(journal[o])) IN
       /\ Incomplete(journal[o])
       /\ \/ journal' = recovered /\ UNCHANGED <<agent, lock, budget>>
          \/ journal' \in {journal, recovered} /\ Fault /\ agent' = "down" /\ lock' = None
  /\ UNCHANGED <<published, host, command>>

AgentServes ==
  /\ agent = "starting" /\ \A o \in Operation : ~Incomplete(journal[o])
  /\ agent' = "up" /\ lock' = None
  /\ UNCHANGED <<journal, published, host, command, budget>>

AgentDies ==
  /\ agent # "down" /\ Dies
  /\ agent' = "down"
  /\ lock' = IF lock = "agent" THEN None ELSE lock
  /\ UNCHANGED <<journal, published, host, command>>

(* An update or a rollback by the agent, as one step: what UpdateExecutor     *)
(* does to slots, contracts, locator and application when nothing fails.      *)
Switch(r, live) ==
  /\ agent = "up" /\ lock = None /\ ~RecoveryBlocked
  /\ runtime # None /\ locator # None /\ slots.current = locator
  /\ r # slots.current /\ PlanAllowed(host.live, r)
  /\ slots' = [current |-> r, previous |-> slots.current]
  /\ runtime' = live /\ locator' = r
  /\ host' = [release |-> r, live |-> live]
  /\ UNCHANGED <<journal, command, agent, lock, budget>>

ApplyUpdate ==
  \E r \in Release :
    Switch(r, [database |-> IF MigrationRequired(r) THEN Manifest[r].database
                           ELSE host.live.database,
               configuration |-> Manifest[r].configuration, plugins |-> host.live.plugins])

RollbackPrevious == slots.previous # None /\ Switch(slots.previous, host.live)

\* Staff enable and disable plugins that the running release supports.
TogglePlugins ==
  /\ \E plugins \in SUBSET Manifest[host.release].supportedApis :
       host' = [host EXCEPT !.live.plugins = plugins]
  /\ UNCHANGED <<journal, published, command, agent, lock, budget>>

AdoptionNext ==
  \/ \E c \in Command : Adopt(c) \/ Reconcile(c) \/ Publish(c) \/ Kill(c)
  \/ AgentStart \/ AgentRecovers \/ AgentServes \/ AgentDies
  \/ ApplyUpdate \/ RollbackPrevious \/ TogglePlugins

AdoptionSpec == AdoptionInit /\ [][AdoptionNext]_vars
-----------------------------------------------------------------------------
(* Properties. *)

\* Operations whose recovery would still complete what is published.
Answering ==
  {o \in Operation : /\ journal[o].status \in {"adopting", "manual_recovery_required"}
                     /\ journal[o].bound /\ journal[o].target = slots.current}

(* What an adoption has published is true of the running application, in the  *)
(* order CURRENT, contracts, locator; and until the locator is there, an      *)
(* operation that is open or blocked carries the manifest reconcile needs,    *)
(* wherever commands died and writes failed (adopt_initial_release).          *)
WholeOrOnRecord ==
  /\ slots.current # None => slots.current = host.release
  /\ runtime # None =>
       /\ slots.current # None
       /\ runtime.database = host.live.database
       /\ runtime.configuration = host.live.configuration
  /\ locator # None => runtime # None /\ locator = slots.current
  /\ slots.current # None /\ locator = None => Answering # {}

(* An adoption is declared complete, by its own command or by reconcile, only *)
(* over the release that runs: CURRENT and the locator name it, there is no   *)
(* PREVIOUS and its contracts are the live ones; also when another command    *)
(* or an update came between the record and the lock.                         *)
ClosedIsWhole ==
  [][\A o \in Operation :
       /\ journal'[o].status \in {"succeeded", "reconciled"}
       /\ journal'[o].status # journal[o].status
       => LET r == journal[o].target IN
          /\ slots' = [current |-> r, previous |-> None] /\ locator' = r
          /\ host'.release = r /\ host'.live = ContractsOf(r, host'.live.plugins)
          /\ runtime' # None /\ runtime' = ContractsOf(r, runtime'.plugins)]_vars

(* "After the first durable mutation a failure enters the global barrier;     *)
(* only an operation-bound host reconcile recovers" (docs/update-agent-v1.md  *)
(* 150): a blocked adoption can be taken up by the reconcile command.         *)
BarrierCanBeLifted == RecoveryBlocked => RuntimeBuilds
=============================================================================
