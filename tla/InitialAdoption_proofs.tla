----------------------- MODULE InitialAdoption_proofs -----------------------
(* Proofs about InitialAdoption for any number of commands, operations,       *)
(* releases, faults and kills, with and without a locator to build from.      *)
EXTENDS InitialAdoption, TLAPS

Busy == AdoptionSteps \cup SharedSteps \cup {"rechecking"}

\* Who is past the lock has it.
LockInv ==
  /\ \A c \in Command : command[c].step \in Busy <=> lock = c
  /\ agent = "starting" <=> lock = "agent"

\* Statuses from which nothing but a reconciliation leads on.
Blocked == {"manual_recovery_required", "reconciled"}

\* What a command knows about the record it works on.
RecordInv(c) ==
  LET step == command[c].step
      o    == command[c].op
  IN  /\ step \in AdoptionSteps => ~command[c].reconciling
      /\ step \in ReconcileSteps => command[c].reconciling
      /\ step # "idle" => command[c].target \in Release
      /\ step \notin {"idle", "checking", "creating"} =>
           o \in Operation /\ journal[o].status # "absent" /\ journal[o].target = command[c].target
      /\ step \in ReconcileSteps \cup SharedSteps /\ command[c].reconciling =>
           journal[o].bound /\ journal[o].status \in Blocked
      /\ step = "adopting" => journal[o].bound
      /\ step \in SharedSteps /\ ~command[c].reconciling =>
           journal[o].bound /\ journal[o].status = "adopting"

\* What the checks of a command have found and its lock has kept.
HostInv(c) ==
  LET step == command[c].step
      r    == command[c].target
  IN  /\ step \in Busy \ {"checking", "rechecking", "handling"} =>
           /\ host.release = r
           /\ host.live.database = Manifest[r].database
           /\ host.live.configuration = Manifest[r].configuration
      /\ step \in AdoptionSteps \ {"checking", "handling"} =>
           slots.current = None /\ slots.previous = None
      /\ step = "importing" => slots.current \in {None, r} /\ slots.previous = None
      /\ step \in {"initializing", "publishing", "closing"} =>
           slots.current = r /\ slots.previous = None
      /\ step \in {"publishing", "closing"} => runtime = ContractsOf(r, command[c].plugins)
      /\ step = "closing" => locator = r

RecordedTargets ==
  \A o \in Operation : journal[o].status # "absent" => journal[o].target \in Release

\* An adoption is settled only once its locator is there.
SettledInv ==
  \A o \in Operation : journal[o].status \in {"succeeded", "reconciled"} => locator # None

IInv ==
  /\ AdoptionTypeOK /\ LockInv /\ RecordedTargets /\ SettledInv /\ WholeOrOnRecord
  /\ \A c \in Command : RecordInv(c) /\ HostInv(c)

-----------------------------------------------------------------------------
(* Facts about the journal's automaton and about releases. *)

LEMMA StatusFacts ==
  /\ "absent" \notin Status
  /\ {"idle", "preflight", "fetching", "verifying", "adopting", "succeeded", "reconciled",
      "failed_pre_switch", "manual_recovery_required"} \subseteq Status
  BY DEF Status, Transitions

LEMMA Leads ==
  ASSUME NEW record \in AdoptionRecord, NEW status, CanEnter(record, status)
  PROVE  /\ record.status \notin {"absent", "reconciled"}
         /\ record.status = "adopting" => status \in {"succeeded", "manual_recovery_required"}
         /\ record.status = "manual_recovery_required" => status = "reconciled"
  BY DEF CanEnter, Status, Transitions

LEMMA Recovers ==
  ASSUME NEW record \in AdoptionRecord, Incomplete(record)
  PROVE  /\ RecoveredStatus(record) \in {"failed_pre_switch", "manual_recovery_required"}
         /\ record.status \notin Blocked \cup {"absent"}
         /\ record.status = "adopting" => RecoveredStatus(record) = "manual_recovery_required"
  BY DEF Incomplete, RecoveredStatus, PreSwitchRecovery, TerminalStates, Status, Transitions,
         Blocked

LEMMA ManifestTyped ==
  ASSUME NEW r \in Release
  PROVE  /\ Manifest[r].database \in DatabaseContract
         /\ Manifest[r].configuration \in ConfigurationContract
         /\ Manifest[r].supportedApis \subseteq PluginApi
  BY ManifestAssumption DEF ManifestType

LEMMA ContractsTyped ==
  ASSUME NEW r \in Release, NEW plugins \in SUBSET PluginApi
  PROVE  /\ ContractsOf(r, plugins) \in RuntimeContracts
         /\ ContractsOf(r, plugins).database = Manifest[r].database
         /\ ContractsOf(r, plugins).configuration = Manifest[r].configuration
         /\ ContractsOf(r, plugins).plugins = plugins
         /\ ContractsOf(r, plugins) # None
  BY ManifestTyped, AdoptionAssumption DEF ContractsOf, RuntimeContracts

-----------------------------------------------------------------------------
(* What a step does to the records and what follows from it. *)

\* No step forgets a record, its target or its manifest, or lifts a barrier
\* but by reconciliation.
JournalStep ==
  /\ journal' \in [Operation -> AdoptionRecord] /\ RecordedTargets'
  /\ \A o \in Operation : journal[o].status # "absent" =>
       /\ journal'[o].status # "absent" /\ journal'[o].target = journal[o].target
       /\ journal[o].bound => journal'[o].bound
       /\ journal[o].status \in Blocked => journal'[o].status \in Blocked

\* What the stores say stays true.
StoresStep == SettledInv' /\ WholeOrOnRecord'

Nowhere == UNCHANGED published /\ UNCHANGED host

LEMMA Still ==
  ASSUME IInv, UNCHANGED journal, Nowhere
  PROVE  JournalStep /\ StoresStep
  BY DEF IInv, AdoptionTypeOK, JournalStep, RecordedTargets, StoresStep, Nowhere, published,
         SettledInv, WholeOrOnRecord, Answering

\* A record that some statuses of which are rewritten by recovery or the automaton.
LEMMA Rewritten ==
  ASSUME IInv, NEW o \in Operation, NEW status \in Status, Nowhere,
         journal' = Recorded(o, status),
         journal[o].status # "absent",
         journal[o].status \in Blocked => status \in Blocked,
         status \in {"succeeded", "reconciled"} \/
           journal[o].status \in {"adopting", "manual_recovery_required"} =>
           status = "manual_recovery_required" \/ locator # None
  PROVE  JournalStep /\ StoresStep
<1>1. /\ journal' \in [Operation -> AdoptionRecord]
      /\ journal'[o].status = status /\ journal'[o].target = journal[o].target
      /\ journal'[o].bound = journal[o].bound
      /\ \A p \in Operation \ {o} : journal'[p] = journal[p]
  BY DEF IInv, AdoptionTypeOK, AdoptionRecord, Recorded
<1>2. JournalStep
  BY <1>1, StatusFacts DEF IInv, JournalStep, RecordedTargets
<1>3. SettledInv'
  BY <1>1 DEF IInv, SettledInv, Nowhere, published
<1>4. ASSUME locator = None, NEW p \in Answering PROVE p \in Answering'
  BY <1>1, <1>4 DEF Answering, Nowhere, published
<1>5. WholeOrOnRecord'
  BY <1>4 DEF IInv, WholeOrOnRecord, Nowhere, published
<1> QED BY <1>2, <1>3, <1>5 DEF StoresStep

\* A transition of the automaton, written or not.
LEMMA Entered ==
  ASSUME IInv, NEW o \in Operation, NEW status \in Status, Nowhere,
         CanEnter(journal[o], status), journal' \in {journal, Recorded(o, status)},
         status \in {"succeeded", "reconciled"} => locator # None
  PROVE  JournalStep /\ StoresStep
<1>1. CASE journal' = journal
  BY <1>1, Still
<1>2. CASE journal' = Recorded(o, status)
  <2>1. journal[o] \in AdoptionRecord
    BY DEF IInv, AdoptionTypeOK
  <2> QED BY <1>2, <2>1, Leads, Rewritten DEF Blocked
<1> QED BY <1>1, <1>2

-----------------------------------------------------------------------------
(* What a step does to its command line. *)

Steps == AdoptionSteps \cup SharedSteps \cup ReconcileSteps \cup {"idle"}

Others(c) == \A d \in Command \ {c} : command'[d] = command[d]

\* The command goes on to another step with what it knows.
Goes(c, step) ==
  /\ command'[c].step = step
  /\ command'[c].reconciling = command[c].reconciling
  /\ command'[c].target = command[c].target
  /\ command'[c].op = command[c].op
  /\ command'[c].plugins = command[c].plugins
  /\ lock' = lock

\* The command gives up or is done.
Quits(c) == command'[c] = Idle /\ lock' = None

CommandsTyped == command' \in [Command -> CommandLine] /\ lock' \in Command \cup {"agent", None}

LEMMA IdleTyped == Idle \in CommandLine /\ Idle.step = "idle"
  BY DEF Idle, CommandLine

LEMMA AtGoes ==
  ASSUME AdoptionTypeOK, NEW c \in Command, NEW step \in Steps, At(c, step)
  PROVE  Goes(c, step) /\ Others(c) /\ CommandsTyped
  BY DEF AdoptionTypeOK, CommandLine, At, Steps, Goes, Others, CommandsTyped

LEMMA LeaveQuits ==
  ASSUME AdoptionTypeOK, NEW c \in Command, Leave(c)
  PROVE  Quits(c) /\ Others(c) /\ CommandsTyped
  BY IdleTyped DEF AdoptionTypeOK, Leave, Quits, Others, CommandsTyped

LEMMA RaiseMoves ==
  ASSUME AdoptionTypeOK, NEW c \in Command, Raise(c)
  PROVE  /\ Others(c) /\ CommandsTyped
         /\ IF command[c].reconciling THEN Quits(c) ELSE Goes(c, "handling")
  BY AtGoes, LeaveQuits DEF Raise, Steps, AdoptionSteps

\* The lock is kept by the one who goes on and given back by the one who quits.
LEMMA LockKept ==
  ASSUME IInv, NEW c \in Command, lock = c, Others(c), UNCHANGED agent,
         \/ command'[c].step \in Busy /\ lock' = lock
         \/ command'[c].step \notin Busy /\ lock' = None
  PROVE  LockInv'
<1>1. c # "agent" /\ c # None /\ None # "agent"
  BY AdoptionAssumption
<1>2. \A d \in Command : None # d
  BY AdoptionAssumption
<1> QED BY <1>1, <1>2 DEF IInv, LockInv, Others

\* Nobody else is past the lock, so nobody else knows anything that changed.
LEMMA OthersKept ==
  ASSUME IInv, JournalStep, NEW d \in Command, lock # d, command'[d] = command[d]
  PROVE  RecordInv(d)' /\ HostInv(d)'
<1>1. command[d].step \notin Busy
  BY DEF IInv, LockInv
<1>2. command'[d].step \in {"idle", "waiting"}
  BY <1>1 DEF IInv, AdoptionTypeOK, CommandLine, Busy, ReconcileSteps
<1>3. HostInv(d)'
  BY <1>2 DEF HostInv, Busy, AdoptionSteps, SharedSteps
<1>4. RecordInv(d)
  BY DEF IInv
<1>5. CASE command[d].step = "idle"
  BY <1>5, <1>3 DEF RecordInv, AdoptionSteps, SharedSteps, ReconcileSteps
<1>6. CASE command[d].step = "waiting"
  <2>1. /\ command[d].reconciling /\ command[d].target \in Release
        /\ command[d].op \in Operation /\ journal[command[d].op].status # "absent"
        /\ journal[command[d].op].target = command[d].target
        /\ journal[command[d].op].bound /\ journal[command[d].op].status \in Blocked
    BY <1>4, <1>6 DEF RecordInv, ReconcileSteps
  <2>2. /\ journal'[command[d].op].status # "absent"
        /\ journal'[command[d].op].target = command[d].target
        /\ journal'[command[d].op].bound /\ journal'[command[d].op].status \in Blocked
    BY <2>1 DEF JournalStep
  <2> QED BY <1>3, <1>6, <2>1, <2>2 DEF RecordInv, AdoptionSteps, SharedSteps
<1> QED BY <1>2, <1>5, <1>6

LEMMA QuitsKeeps ==
  ASSUME IInv, NEW c \in Command, lock = c, Quits(c), Others(c), JournalStep, UNCHANGED agent
  PROVE  LockInv' /\ \A d \in Command : RecordInv(d)' /\ HostInv(d)'
<1>1. command'[c].step = "idle"
  BY IdleTyped DEF Quits
<1>2. LockInv'
  BY <1>1, LockKept DEF Quits, Busy, AdoptionSteps, SharedSteps
<1>3. RecordInv(c)' /\ HostInv(c)'
  BY <1>1 DEF RecordInv, HostInv, Busy, AdoptionSteps, SharedSteps, ReconcileSteps
<1>4. ASSUME NEW d \in Command \ {c} PROVE RecordInv(d)' /\ HostInv(d)'
  BY OthersKept DEF Others
<1> QED BY <1>2, <1>3, <1>4

\* The record of a command stays its record.
LEMMA RecordKept ==
  ASSUME IInv, NEW c \in Command, JournalStep,
         command[c].step \notin {"idle", "checking", "creating"}
  PROVE  /\ command[c].op \in Operation /\ command[c].target \in Release
         /\ journal[command[c].op].status # "absent"
         /\ journal'[command[c].op].status # "absent"
         /\ journal'[command[c].op].target = command[c].target
         /\ journal[command[c].op].bound => journal'[command[c].op].bound
         /\ journal[command[c].op].status \in Blocked =>
              journal'[command[c].op].status \in Blocked
  BY DEF IInv, RecordInv, JournalStep

LEMMA RaiseKeeps ==
  ASSUME IInv, NEW c \in Command, lock = c, Raise(c), JournalStep, UNCHANGED agent,
         command[c].step \notin {"idle", "checking", "creating"}
  PROVE  /\ CommandsTyped
         /\ LockInv' /\ \A d \in Command : RecordInv(d)' /\ HostInv(d)'
<1>0. AdoptionTypeOK
  BY DEF IInv
<1>1. CASE command[c].reconciling
  BY <1>0, <1>1, RaiseMoves, QuitsKeeps
<1>2. CASE ~command[c].reconciling
  <2>1. Goes(c, "handling") /\ Others(c) /\ CommandsTyped
    BY <1>0, <1>2, RaiseMoves
  <2>2. LockInv'
    BY <2>1, LockKept DEF Goes, Busy, AdoptionSteps
  <2>3. RecordInv(c)'
    BY <1>2, <2>1, RecordKept DEF RecordInv, Goes, AdoptionSteps, SharedSteps, ReconcileSteps
  <2>4. HostInv(c)'
    BY <2>1 DEF HostInv, Goes, Busy, AdoptionSteps, SharedSteps
  <2>5. ASSUME NEW d \in Command \ {c} PROVE RecordInv(d)' /\ HostInv(d)'
    BY <2>1, OthersKept DEF Others
  <2> QED BY <2>1, <2>2, <2>3, <2>4, <2>5
<1> QED BY <1>1, <1>2

LEMMA Onward ==
  ASSUME IInv, NEW c \in Command, lock = c, NEW step \in Busy, At(c, step), JournalStep,
         UNCHANGED agent, RecordInv(c)', HostInv(c)'
  PROVE  /\ CommandsTyped
         /\ LockInv' /\ \A d \in Command : RecordInv(d)' /\ HostInv(d)'
<1>1. Goes(c, step) /\ Others(c) /\ CommandsTyped
  BY AtGoes DEF IInv, Busy, Steps, ReconcileSteps
<1>2. LockInv'
  BY <1>1, LockKept DEF Goes
<1>3. ASSUME NEW d \in Command \ {c} PROVE RecordInv(d)' /\ HostInv(d)'
  BY <1>1, OthersKept DEF Others
<1> QED BY <1>1, <1>2, <1>3

LEMMA LeaveKeeps ==
  ASSUME IInv, NEW c \in Command, lock = c, Leave(c), JournalStep, UNCHANGED agent
  PROVE  /\ CommandsTyped
         /\ LockInv' /\ \A d \in Command : RecordInv(d)' /\ HostInv(d)'
  BY LeaveQuits, QuitsKeeps DEF IInv

BudgetTyped == budget' \in [faults : 0..MaxFaults, kills : 0..MaxKills]

LEMMA BudgetKept ==
  ASSUME AdoptionTypeOK, Fault \/ Dies \/ UNCHANGED budget
  PROVE  BudgetTyped
  BY AdoptionAssumption DEF AdoptionTypeOK, Fault, Dies, BudgetTyped

StoresTyped ==
  /\ slots' \in [current : Release \cup {None}, previous : Release \cup {None}]
  /\ runtime' \in RuntimeContracts \cup {None}
  /\ locator' \in Release \cup {None}
  /\ host' \in [release : Release, live : RuntimeContracts]

LEMMA NowhereTyped ==
  ASSUME AdoptionTypeOK, Nowhere
  PROVE  StoresTyped
  BY DEF AdoptionTypeOK, Nowhere, published, StoresTyped

LEMMA Assemble ==
  ASSUME AdoptionTypeOK, JournalStep, StoresStep, CommandsTyped, StoresTyped, BudgetTyped,
         agent' \in {"down", "starting", "up"},
         LockInv', \A d \in Command : RecordInv(d)' /\ HostInv(d)'
  PROVE  IInv'
  BY DEF IInv, AdoptionTypeOK, JournalStep, StoresStep, CommandsTyped, StoresTyped, BudgetTyped

LEMMA Holder ==
  ASSUME IInv, NEW c \in Command, command[c].step \in Busy
  PROVE  lock = c
  BY DEF IInv, LockInv

-----------------------------------------------------------------------------
(* The adoption, step by step. *)

LEMMA AdoptStartStep ==
  ASSUME IInv, NEW c \in Command, AdoptStart(c)
  PROVE  IInv'
<1>1. PICK r \in Release :
        command' = [command EXCEPT ![c] = [Idle EXCEPT !.step = "checking", !.target = r]]
  BY DEF AdoptStart
<1>2. /\ lock = None /\ lock' = c /\ UNCHANGED journal /\ Nowhere
      /\ UNCHANGED agent /\ UNCHANGED budget
  BY DEF AdoptStart, Nowhere, published
<1>3. AdoptionTypeOK
  BY DEF IInv
<1>4. JournalStep /\ StoresStep
  BY <1>2, Still
<1>5. /\ CommandsTyped /\ Others(c)
      /\ command'[c] = [Idle EXCEPT !.step = "checking", !.target = r]
  BY <1>1, <1>2, <1>3 DEF AdoptionTypeOK, CommandLine, Idle, AdoptionSteps, CommandsTyped, Others
<1>6. command'[c].step = "checking" /\ ~command'[c].reconciling /\ command'[c].target = r
  BY <1>5 DEF Idle
<1>7. None \notin Command /\ "agent" # c /\ None # "agent"
  BY AdoptionAssumption
<1>8. LockInv'
  BY <1>2, <1>5, <1>6, <1>7 DEF IInv, LockInv, Others, Busy, AdoptionSteps
<1>9. RecordInv(c)' /\ HostInv(c)'
  BY <1>6 DEF RecordInv, HostInv, Busy, AdoptionSteps, SharedSteps, ReconcileSteps
<1>10. ASSUME NEW d \in Command \ {c} PROVE RecordInv(d)' /\ HostInv(d)'
  BY <1>2, <1>4, <1>5, <1>7, OthersKept DEF Others
<1>11. agent' \in {"down", "starting", "up"}
  BY <1>2, <1>3 DEF AdoptionTypeOK
<1> QED
  BY <1>2, <1>3, <1>4, <1>5, <1>8, <1>9, <1>10, <1>11, BudgetKept, NowhereTyped, Assemble

\* A command whose checks have passed notes the enabled plugins.
LEMMA Learns ==
  ASSUME AdoptionTypeOK, NEW c \in Command, NEW step \in Steps, UNCHANGED lock,
         command' = [command EXCEPT ![c].step = step, ![c].plugins = host.live.plugins]
  PROVE  /\ CommandsTyped /\ Others(c)
         /\ command'[c].step = step
         /\ command'[c].reconciling = command[c].reconciling
         /\ command'[c].target = command[c].target
         /\ command'[c].op = command[c].op
<1>1. host.live.plugins \in SUBSET PluginApi /\ command[c] \in CommandLine
  BY DEF AdoptionTypeOK, RuntimeContracts
<1>2. [command[c] EXCEPT !.step = step, !.plugins = host.live.plugins] \in CommandLine
  BY <1>1 DEF CommandLine, Steps
<1>3. command' = [command EXCEPT ![c] =
        [command[c] EXCEPT !.step = step, !.plugins = host.live.plugins]]
  BY DEF AdoptionTypeOK
<1>4. command'[c] = [command[c] EXCEPT !.step = step, !.plugins = host.live.plugins]
  BY <1>3 DEF AdoptionTypeOK
<1>5. CommandsTyped /\ Others(c)
  BY <1>2, <1>3 DEF AdoptionTypeOK, CommandsTyped, Others
<1> DEFINE new == [command[c] EXCEPT !.step = step, !.plugins = host.live.plugins]
<1>6. /\ new.step = step /\ new.reconciling = command[c].reconciling
      /\ new.target = command[c].target /\ new.op = command[c].op
  BY <1>1 DEF CommandLine
<1> QED BY <1>4, <1>5, <1>6

LEMMA CheckStep ==
  ASSUME IInv, NEW c \in Command, Check(c)
  PROVE  IInv'
<1>1. /\ command[c].step = "checking" /\ UNCHANGED journal /\ Nowhere
      /\ UNCHANGED agent /\ UNCHANGED budget
  BY DEF Check, Nowhere, published
<1>2. AdoptionTypeOK /\ lock = c
  BY <1>1, Holder DEF IInv, Busy, AdoptionSteps
<1>3. JournalStep /\ StoresStep
  BY <1>1, Still
<1>4. agent' \in {"down", "starting", "up"} /\ BudgetTyped /\ StoresTyped
  BY <1>1, <1>2, BudgetKept, NowhereTyped DEF AdoptionTypeOK
<1>5. CASE Leave(c)
  BY <1>1, <1>2, <1>3, <1>4, <1>5, LeaveKeeps, Assemble
<1>6. CASE /\ Verified(command[c].target)
           /\ slots = [current |-> None, previous |-> None]
           /\ command' = [command EXCEPT ![c].step = "creating", ![c].plugins = host.live.plugins]
           /\ UNCHANGED lock
  <2>1. /\ CommandsTyped /\ Others(c)
        /\ command'[c].step = "creating"
        /\ command'[c].reconciling = command[c].reconciling
        /\ command'[c].target = command[c].target
    BY <1>2, <1>6, Learns DEF Steps, AdoptionSteps
  <2>2. LockInv'
    BY <1>1, <1>2, <1>6, <2>1, LockKept DEF Busy, AdoptionSteps
  <2>3. RecordInv(c)
    BY DEF IInv
  <2>4. RecordInv(c)'
    BY <1>1, <2>1, <2>3 DEF RecordInv, AdoptionSteps, SharedSteps, ReconcileSteps
  <2>5. command[c].target \in Release
    BY <1>1, <2>3 DEF RecordInv
  <2>6. /\ host.release = command[c].target
        /\ host.live.database = Manifest[command[c].target].database
        /\ host.live.configuration = Manifest[command[c].target].configuration
    BY <1>6 DEF Verified, ContractsOf
  <2>7. HostInv(c)'
    BY <1>1, <1>6, <2>1, <2>6 DEF HostInv, Nowhere, published, Busy, AdoptionSteps, SharedSteps
  <2>8. ASSUME NEW d \in Command \ {c} PROVE RecordInv(d)' /\ HostInv(d)'
    BY <1>2, <1>3, <2>1, OthersKept DEF Others
  <2> QED BY <1>2, <1>3, <1>4, <2>1, <2>2, <2>4, <2>7, <2>8, Assemble
<1> QED BY <1>5, <1>6 DEF Check

\* The frame of a step that writes a record and goes on.
LEMMA EnterStep ==
  ASSUME IInv, NEW c \in Command, NEW status \in Status, NEW next \in Busy, Nowhere,
         UNCHANGED agent, lock = c,
         command[c].step \notin {"idle", "checking", "creating"},
         CanEnter(journal[command[c].op], status),
         status \notin {"succeeded", "reconciled"},
         Attempt(c, journal, Recorded(command[c].op, status), next),
         journal' = Recorded(command[c].op, status) /\ At(c, next) =>
           RecordInv(c)' /\ HostInv(c)'
  PROVE  IInv'
<1>1. AdoptionTypeOK /\ command[c].op \in Operation
  BY DEF IInv, RecordInv
<1>2. journal' \in {journal, Recorded(command[c].op, status)}
  BY DEF Attempt
<1>3. JournalStep /\ StoresStep
  BY <1>1, <1>2, Entered
<1>4. /\ agent' \in {"down", "starting", "up"} /\ StoresTyped
      /\ BudgetTyped
  BY <1>1, BudgetKept, NowhereTyped DEF AdoptionTypeOK, Attempt
<1>5. CASE journal' = Recorded(command[c].op, status) /\ At(c, next)
  BY <1>1, <1>3, <1>4, <1>5, Onward, Assemble
<1>6. CASE Raise(c)
  BY <1>1, <1>3, <1>4, <1>6, RaiseKeeps, Assemble
<1> QED BY <1>5, <1>6 DEF Attempt

\* What a transition writes.
LEMMA Written ==
  ASSUME AdoptionTypeOK, NEW o \in Operation, NEW status, journal' = Recorded(o, status)
  PROVE  /\ journal'[o].status = status /\ journal'[o].target = journal[o].target
         /\ journal'[o].bound = journal[o].bound
  BY DEF AdoptionTypeOK, AdoptionRecord, Recorded

\* The transitions before CURRENT: nothing but the status changes.
LEMMA EarlyEnterStep ==
  ASSUME IInv, NEW c \in Command,
         \/ Enter(c, "preflight", "fetching") \/ Enter(c, "fetching", "verifying")
         \/ Enter(c, "verifying", "binding")
  PROVE  IInv'
<1>1. ASSUME NEW status \in {"preflight", "fetching", "verifying"},
             NEW next \in {"fetching", "verifying", "binding"}, Enter(c, status, next)
      PROVE  IInv'
  <2>1. /\ command[c].step = status /\ Nowhere /\ UNCHANGED agent
        /\ CanEnter(journal[command[c].op], status)
        /\ Attempt(c, journal, Recorded(command[c].op, status), next)
    BY <1>1 DEF Enter, Nowhere, published
  <2>2. lock = c
    BY <2>1, Holder DEF Busy, AdoptionSteps
  <2>3. AdoptionTypeOK /\ RecordInv(c) /\ HostInv(c)
    BY DEF IInv
  <2>4. /\ command[c].op \in Operation /\ command[c].target \in Release
        /\ ~command[c].reconciling /\ journal[command[c].op].target = command[c].target
    BY <2>1, <2>3 DEF RecordInv, AdoptionSteps
  <2>5. ASSUME journal' = Recorded(command[c].op, status), At(c, next)
        PROVE  RecordInv(c)' /\ HostInv(c)'
    <3>1. Goes(c, next)
      BY <2>3, <2>5, AtGoes DEF Steps, AdoptionSteps
    <3>2. /\ journal'[command[c].op].status = status
          /\ journal'[command[c].op].target = command[c].target
      BY <2>3, <2>4, <2>5, Written
    <3>3. RecordInv(c)'
      BY <2>4, <3>1, <3>2, StatusFacts
      DEF RecordInv, Goes, AdoptionSteps, SharedSteps, ReconcileSteps
    <3>4. HostInv(c)'
      BY <2>1, <2>3, <3>1
      DEF HostInv, Goes, Nowhere, published, Busy, AdoptionSteps, SharedSteps
    <3> QED BY <3>3, <3>4
  <2> QED BY <2>1, <2>2, <2>5, EnterStep, StatusFacts DEF Busy, AdoptionSteps
<1> QED BY <1>1

LEMMA AdoptingStep ==
  ASSUME IInv, NEW c \in Command, Enter(c, "adopting", "importing")
  PROVE  IInv'
<1>1. /\ command[c].step = "adopting" /\ Nowhere /\ UNCHANGED agent
      /\ CanEnter(journal[command[c].op], "adopting")
      /\ Attempt(c, journal, Recorded(command[c].op, "adopting"), "importing")
  BY DEF Enter, Nowhere, published
<1>2. lock = c
  BY <1>1, Holder DEF Busy, AdoptionSteps
<1>3. AdoptionTypeOK /\ RecordInv(c) /\ HostInv(c)
  BY DEF IInv
<1>4. /\ command[c].op \in Operation /\ command[c].target \in Release
      /\ ~command[c].reconciling /\ journal[command[c].op].target = command[c].target
      /\ journal[command[c].op].bound
  BY <1>1, <1>3 DEF RecordInv, AdoptionSteps
<1>5. ASSUME journal' = Recorded(command[c].op, "adopting"), At(c, "importing")
      PROVE  RecordInv(c)' /\ HostInv(c)'
  <2>1. Goes(c, "importing")
    BY <1>3, <1>5, AtGoes DEF Steps, SharedSteps
  <2>2. /\ journal'[command[c].op].status = "adopting" /\ journal'[command[c].op].bound
        /\ journal'[command[c].op].target = command[c].target
    BY <1>3, <1>4, <1>5, Written
  <2>3. RecordInv(c)'
    BY <1>4, <2>1, <2>2 DEF RecordInv, Goes, AdoptionSteps, SharedSteps, ReconcileSteps
  <2>4. HostInv(c)'
    BY <1>1, <1>3, <2>1
    DEF HostInv, Goes, Nowhere, published, Busy, AdoptionSteps, SharedSteps
  <2> QED BY <2>3, <2>4
<1> QED BY <1>1, <1>2, <1>5, EnterStep, StatusFacts DEF Busy, SharedSteps

LEMMA CreateStep ==
  ASSUME IInv, NEW c \in Command, Create(c)
  PROVE  IInv'
<1>1. /\ command[c].step = "creating" /\ Nowhere /\ UNCHANGED agent
  BY DEF Create, Nowhere, published
<1>2. AdoptionTypeOK /\ RecordInv(c) /\ HostInv(c) /\ lock = c
  BY <1>1, Holder DEF IInv, Busy, AdoptionSteps
<1>3. command[c].target \in Release /\ ~command[c].reconciling
  BY <1>1, <1>2 DEF RecordInv, AdoptionSteps
<1>4. PICK o \in Operation :
        LET created == [journal EXCEPT ![o] =
                          [status |-> "idle", target |-> command[c].target, bound |-> FALSE]]
        IN  /\ journal[o].status = "absent"
            /\ \/ /\ journal' = created
                  /\ command' = [command EXCEPT ![c].step = "preflight", ![c].op = o]
                  /\ UNCHANGED <<lock, budget>>
               \/ journal' \in {journal, created} /\ Fault /\ Leave(c)
  BY DEF Create
<1>5. ASSUME journal' = [journal EXCEPT ![o] =
                [status |-> "idle", target |-> command[c].target, bound |-> FALSE]]
      PROVE  /\ JournalStep /\ StoresStep
             /\ journal'[o].status = "idle" /\ journal'[o].target = command[c].target
  <2>1. /\ journal' \in [Operation -> AdoptionRecord]
        /\ journal'[o].status = "idle" /\ journal'[o].target = command[c].target
        /\ \A p \in Operation \ {o} : journal'[p] = journal[p]
    BY <1>2, <1>3, <1>5, StatusFacts DEF AdoptionTypeOK, AdoptionRecord
  <2>2. JournalStep
    BY <1>3, <1>4, <2>1 DEF IInv, JournalStep, RecordedTargets
  <2>3. SettledInv'
    BY <1>1, <2>1 DEF IInv, SettledInv, Nowhere, published
  <2>4. ASSUME NEW p \in Answering PROVE p \in Answering'
    <3>1. p # o
      BY <1>4, <2>4 DEF Answering
    <3> QED BY <1>1, <2>1, <2>4, <3>1 DEF Answering, Nowhere, published
  <2>5. WholeOrOnRecord'
    BY <1>1, <2>4 DEF IInv, WholeOrOnRecord, Nowhere, published
  <2> QED BY <2>1, <2>2, <2>3, <2>5 DEF StoresStep
<1>6. agent' \in {"down", "starting", "up"} /\ StoresTyped /\ BudgetTyped
  BY <1>1, <1>2, <1>4, BudgetKept, NowhereTyped DEF AdoptionTypeOK
<1>7. CASE /\ journal' = [journal EXCEPT ![o] =
                [status |-> "idle", target |-> command[c].target, bound |-> FALSE]]
           /\ command' = [command EXCEPT ![c].step = "preflight", ![c].op = o]
           /\ UNCHANGED lock
  <2>1. command[c] \in CommandLine
    BY <1>2 DEF AdoptionTypeOK
  <2> DEFINE new == [command[c] EXCEPT !.step = "preflight", !.op = o]
  <2>2. /\ new \in CommandLine /\ new.step = "preflight" /\ new.op = o
        /\ new.reconciling = command[c].reconciling /\ new.target = command[c].target
    BY <2>1 DEF CommandLine, AdoptionSteps
  <2>3. command' = [command EXCEPT ![c] = new]
    BY <1>2, <1>7 DEF AdoptionTypeOK
  <2> HIDE DEF new
  <2>4. command'[c] = new /\ CommandsTyped /\ Others(c)
    <3>1. command \in [Command -> CommandLine] /\ lock' \in Command \cup {"agent", None}
      BY <1>2, <1>7 DEF AdoptionTypeOK
    <3>2. command' \in [Command -> CommandLine] /\ command'[c] = new
      BY <2>2, <2>3, <3>1
    <3>3. Others(c)
      BY <2>3, <3>1 DEF Others
    <3> QED BY <3>1, <3>2, <3>3 DEF CommandsTyped
  <2>5. LockInv'
    BY <1>1, <1>2, <1>7, <2>2, <2>4, LockKept DEF Busy, AdoptionSteps
  <2>6. RecordInv(c)'
    BY <1>3, <1>5, <1>7, <2>2, <2>4, StatusFacts
    DEF RecordInv, AdoptionSteps, SharedSteps, ReconcileSteps
  <2>7. HostInv(c)'
    BY <1>1, <1>2, <2>2, <2>4
    DEF HostInv, Nowhere, published, Busy, AdoptionSteps, SharedSteps
  <2>8. JournalStep /\ StoresStep
    BY <1>5, <1>7
  <2>9. ASSUME NEW d \in Command \ {c} PROVE RecordInv(d)' /\ HostInv(d)'
    BY <1>2, <2>4, <2>8, OthersKept DEF Others
  <2> QED BY <1>2, <1>6, <2>4, <2>5, <2>6, <2>7, <2>8, <2>9, Assemble
<1>8. CASE Leave(c)
  <2>1. JournalStep /\ StoresStep
    BY <1>1, <1>4, <1>5, Still
  <2> QED BY <1>1, <1>2, <1>6, <1>8, <2>1, LeaveKeeps, Assemble
<1> QED BY <1>4, <1>7, <1>8

LEMMA BindRecoveryTargetStep ==
  ASSUME IInv, NEW c \in Command, BindRecoveryTarget(c)
  PROVE  IInv'
<1> DEFINE o == command[c].op
<1>1. /\ command[c].step = "binding" /\ Nowhere /\ UNCHANGED agent
      /\ Attempt(c, journal, [journal EXCEPT ![o].bound = TRUE], "adopting")
  BY DEF BindRecoveryTarget, Nowhere, published
<1>2. AdoptionTypeOK /\ RecordInv(c) /\ HostInv(c) /\ lock = c
  BY <1>1, Holder DEF IInv, Busy, AdoptionSteps
<1>3. /\ o \in Operation /\ command[c].target \in Release /\ ~command[c].reconciling
      /\ journal[o].target = command[c].target /\ journal[o].status # "absent"
  BY <1>1, <1>2 DEF RecordInv, AdoptionSteps
<1> HIDE DEF o
<1>4. ASSUME journal' = [journal EXCEPT ![o].bound = TRUE]
      PROVE  /\ JournalStep /\ StoresStep
             /\ journal'[o].status # "absent" /\ journal'[o].target = command[c].target
             /\ journal'[o].bound
  <2>1. /\ journal' \in [Operation -> AdoptionRecord]
        /\ journal'[o].status = journal[o].status /\ journal'[o].target = journal[o].target
        /\ journal'[o].bound
        /\ \A p \in Operation \ {o} : journal'[p] = journal[p]
    BY <1>2, <1>3, <1>4 DEF AdoptionTypeOK, AdoptionRecord
  <2>2. JournalStep
    BY <2>1 DEF IInv, JournalStep, RecordedTargets
  <2>3. SettledInv'
    BY <1>1, <2>1 DEF IInv, SettledInv, Nowhere, published
  <2>4. ASSUME NEW p \in Answering PROVE p \in Answering'
    BY <1>1, <2>1, <2>4 DEF Answering, Nowhere, published
  <2>5. WholeOrOnRecord'
    BY <1>1, <2>4 DEF IInv, WholeOrOnRecord, Nowhere, published
  <2> QED BY <1>3, <2>1, <2>2, <2>3, <2>5 DEF StoresStep
<1>5. JournalStep /\ StoresStep
  BY <1>1, <1>4, Still DEF Attempt
<1>6. agent' \in {"down", "starting", "up"} /\ StoresTyped /\ BudgetTyped
  BY <1>1, <1>2, BudgetKept, NowhereTyped DEF AdoptionTypeOK, Attempt
<1>7. CASE journal' = [journal EXCEPT ![o].bound = TRUE] /\ At(c, "adopting")
  <2>1. Goes(c, "adopting")
    BY <1>2, <1>7, AtGoes DEF Steps, AdoptionSteps
  <2>2. RecordInv(c)'
    BY <1>3, <1>4, <1>7, <2>1
    DEF RecordInv, Goes, AdoptionSteps, SharedSteps, ReconcileSteps, o
  <2>3. HostInv(c)'
    BY <1>1, <1>2, <2>1
    DEF HostInv, Goes, Nowhere, published, Busy, AdoptionSteps, SharedSteps
  <2> QED
    BY <1>1, <1>2, <1>5, <1>6, <1>7, <2>2, <2>3, Onward, Assemble DEF Busy, AdoptionSteps
<1>8. CASE Raise(c)
  BY <1>1, <1>2, <1>5, <1>6, <1>8, RaiseKeeps, Assemble
<1> QED BY <1>1, <1>7, <1>8 DEF Attempt

LEMMA HandleStep ==
  ASSUME IInv, NEW c \in Command, Handle(c)
  PROVE  IInv'
<1> DEFINE o == command[c].op
           status == IF journal[o].status = "adopting" THEN "manual_recovery_required"
                     ELSE "failed_pre_switch"
<1>1. /\ command[c].step = "handling" /\ Leave(c) /\ Nowhere /\ UNCHANGED agent
      /\ IF CanEnter(journal[o], status)
         THEN \/ journal' = Recorded(o, status) /\ UNCHANGED budget
              \/ journal' \in {journal, Recorded(o, status)} /\ Fault
         ELSE UNCHANGED <<journal, budget>>
  BY DEF Handle, Nowhere, published
<1>2. AdoptionTypeOK /\ lock = c
  BY <1>1, Holder DEF IInv, Busy, AdoptionSteps
<1>3. o \in Operation
  BY <1>1 DEF IInv, RecordInv
<1>4. status \in Status /\ status \notin {"succeeded", "reconciled"}
  BY StatusFacts
<1> HIDE DEF o, status
<1>5. JournalStep /\ StoresStep
  BY <1>1, <1>3, <1>4, Still, Entered
<1>6. agent' \in {"down", "starting", "up"} /\ StoresTyped /\ BudgetTyped
  BY <1>1, <1>2, BudgetKept, NowhereTyped DEF AdoptionTypeOK
<1> QED BY <1>1, <1>2, <1>5, <1>6, LeaveKeeps, Assemble

-----------------------------------------------------------------------------
(* What an adoption and its reconciliation publish. *)

LEMMA JournalStill ==
  ASSUME IInv, UNCHANGED journal
  PROVE  JournalStep
  BY DEF IInv, AdoptionTypeOK, JournalStep, RecordedTargets

\* What holds wherever the files are written.
LEMMA Publishing ==
  ASSUME IInv, NEW c \in Command, command[c].step \in SharedSteps
  PROVE  /\ lock = c /\ AdoptionTypeOK /\ RecordInv(c) /\ HostInv(c)
         /\ command[c].op \in Operation /\ command[c].target \in Release
         /\ command[c].plugins \in SUBSET PluginApi /\ command[c].reconciling \in BOOLEAN
         /\ journal[command[c].op].status # "absent"
         /\ journal[command[c].op].target = command[c].target
         /\ journal[command[c].op].bound
         /\ IF command[c].reconciling THEN journal[command[c].op].status \in Blocked
            ELSE journal[command[c].op].status = "adopting"
         /\ host.release = command[c].target
         /\ host.live.database = Manifest[command[c].target].database
         /\ host.live.configuration = Manifest[command[c].target].configuration
<1>1. lock = c /\ AdoptionTypeOK /\ RecordInv(c) /\ HostInv(c)
  BY Holder DEF IInv, Busy
<1>2. command[c].plugins \in SUBSET PluginApi /\ command[c].reconciling \in BOOLEAN
  BY <1>1 DEF AdoptionTypeOK, CommandLine
<1>3. command[c].step \in Busy \ {"checking", "rechecking", "handling"}
  BY DEF Busy, SharedSteps
<1>4. /\ host.release = command[c].target
      /\ host.live.database = Manifest[command[c].target].database
      /\ host.live.configuration = Manifest[command[c].target].configuration
  BY <1>1, <1>3 DEF HostInv
<1>5. command[c].step \notin {"idle", "checking", "creating"} /\ command[c].step # "idle"
  BY DEF SharedSteps
<1> QED BY <1>1, <1>2, <1>4, <1>5 DEF RecordInv

\* The records do not change while a file is written: what the command knows
\* of its own is the same at the next step.
LEMMA RecordStill ==
  ASSUME IInv, NEW c \in Command, command[c].step \in SharedSteps, UNCHANGED journal,
         NEW next \in SharedSteps, Goes(c, next)
  PROVE  RecordInv(c)'
  BY Publishing DEF RecordInv, Goes, AdoptionSteps, SharedSteps, ReconcileSteps

LEMMA ImportCurrentStep ==
  ASSUME IInv, NEW c \in Command, ImportCurrent(c)
  PROVE  IInv'
<1> DEFINE r == command[c].target
           written == [slots EXCEPT !.current = r]
<1>1. /\ command[c].step = "importing" /\ UNCHANGED <<journal, runtime, locator, host, agent>>
      /\ IF slots.current = None THEN Attempt(c, slots, written, "initializing")
         ELSE At(c, "initializing") /\ UNCHANGED <<slots, budget>>
  BY DEF ImportCurrent
<1>2. command[c].step \in SharedSteps /\ command[c].step \notin {"idle", "checking", "creating"}
  BY <1>1 DEF SharedSteps
<1>3. /\ lock = c /\ AdoptionTypeOK /\ JournalStep /\ BudgetTyped
      /\ agent' \in {"down", "starting", "up"}
  BY <1>1, <1>2, Publishing, JournalStill, BudgetKept DEF AdoptionTypeOK, Attempt
<1>4. slots.previous = None /\ slots.current \in {None, r} /\ r \in Release /\ r # None
  BY <1>1, <1>2, Publishing, AdoptionAssumption DEF HostInv
<1>5. written.current = r /\ written.previous = None
  BY <1>3, <1>4 DEF AdoptionTypeOK
<1>6. ASSUME slots.current = None, slots' = written
      PROVE  StoresStep /\ StoresTyped
  <2>1. runtime = None /\ locator = None
    BY <1>6 DEF IInv, WholeOrOnRecord
  <2>2. journal[command[c].op].status \in {"adopting", "manual_recovery_required"}
    BY <1>2, <2>1, Publishing DEF IInv, SettledInv, Blocked
  <2>3. command[c].op \in Answering'
    BY <1>1, <1>2, <1>5, <1>6, <2>2, Publishing DEF Answering
  <2>4. WholeOrOnRecord'
    BY <1>1, <1>2, <1>5, <1>6, <2>1, <2>3, Publishing DEF WholeOrOnRecord
  <2>5. SettledInv'
    BY <1>1 DEF IInv, SettledInv
  <2>6. StoresTyped
    BY <1>1, <1>3, <1>4, <1>6 DEF AdoptionTypeOK, StoresTyped
  <2> QED BY <2>4, <2>5, <2>6 DEF StoresStep
<1>7. ASSUME slots' = slots PROVE StoresStep /\ StoresTyped
  BY <1>1, <1>3, <1>7, Still, NowhereTyped DEF Nowhere, published
<1>8. StoresStep /\ StoresTyped
  BY <1>1, <1>6, <1>7 DEF Attempt
<1>9. CASE At(c, "initializing") /\ slots'.current = r /\ slots'.previous = None
  <2>1. Goes(c, "initializing")
    BY <1>3, <1>9, AtGoes DEF Steps, SharedSteps
  <2>2. RecordInv(c)'
    BY <1>1, <1>2, <2>1, RecordStill DEF SharedSteps
  <2>3. HostInv(c)'
    BY <1>1, <1>2, <1>9, <2>1, Publishing DEF HostInv, Goes, Busy, AdoptionSteps, SharedSteps
  <2> QED
    BY <1>1, <1>3, <1>8, <1>9, <2>2, <2>3, Onward, Assemble DEF Busy, SharedSteps
<1>10. CASE Raise(c)
  BY <1>1, <1>2, <1>3, <1>8, <1>10, RaiseKeeps, Assemble
<1> HIDE DEF r, written
<1> QED BY <1>1, <1>4, <1>5, <1>9, <1>10 DEF Attempt

LEMMA InitializeFromManifestStep ==
  ASSUME IInv, NEW c \in Command, InitializeFromManifest(c)
  PROVE  IInv'
<1> DEFINE r == command[c].target
           expected == ContractsOf(r, command[c].plugins)
<1>1. /\ command[c].step = "initializing" /\ UNCHANGED <<journal, slots, locator, host, agent>>
      /\ IF runtime = None THEN Attempt(c, runtime, expected, "publishing")
         ELSE /\ IF runtime = expected THEN At(c, "publishing") ELSE Raise(c)
              /\ UNCHANGED <<runtime, budget>>
  BY DEF InitializeFromManifest
<1>2. command[c].step \in SharedSteps /\ command[c].step \notin {"idle", "checking", "creating"}
  BY <1>1 DEF SharedSteps
<1>3. /\ lock = c /\ AdoptionTypeOK /\ JournalStep /\ BudgetTyped
      /\ agent' \in {"down", "starting", "up"}
  BY <1>1, <1>2, Publishing, JournalStill, BudgetKept DEF AdoptionTypeOK, Attempt
<1>4. slots.previous = None /\ slots.current = r /\ r \in Release /\ r # None
  BY <1>1, <1>2, Publishing, AdoptionAssumption DEF HostInv
<1>5. /\ expected \in RuntimeContracts /\ expected # None
      /\ expected.database = host.live.database
      /\ expected.configuration = host.live.configuration
  BY <1>2, Publishing, ContractsTyped
<1>6. ASSUME runtime = None, runtime' = expected PROVE StoresStep /\ StoresTyped
  <2>1. WholeOrOnRecord'
    BY <1>1, <1>4, <1>5, <1>6 DEF IInv, WholeOrOnRecord, Answering
  <2>2. SettledInv'
    BY <1>1 DEF IInv, SettledInv
  <2>3. StoresTyped
    BY <1>1, <1>3, <1>5, <1>6 DEF AdoptionTypeOK, StoresTyped
  <2> QED BY <2>1, <2>2, <2>3 DEF StoresStep
<1>7. ASSUME runtime' = runtime PROVE StoresStep /\ StoresTyped
  BY <1>1, <1>3, <1>7, Still, NowhereTyped DEF Nowhere, published
<1>8. StoresStep /\ StoresTyped
  BY <1>1, <1>6, <1>7 DEF Attempt
<1>9. CASE At(c, "publishing") /\ runtime' = expected
  <2>1. Goes(c, "publishing")
    BY <1>3, <1>9, AtGoes DEF Steps, SharedSteps
  <2>2. RecordInv(c)'
    BY <1>1, <1>2, <2>1, RecordStill DEF SharedSteps
  <2>3. ContractsOf(command'[c].target, command'[c].plugins) = expected
    BY <2>1 DEF Goes
  <2>4. ContractsOf(command[c].target, command[c].plugins)' =
          ContractsOf(command'[c].target, command'[c].plugins)
    BY DEF ContractsOf
  <2>5. HostInv(c)'
    BY <1>1, <1>2, <1>4, <1>9, <2>1, <2>3, <2>4, Publishing
    DEF HostInv, Goes, Busy, AdoptionSteps, SharedSteps
  <2> QED
    BY <1>1, <1>3, <1>8, <1>9, <2>2, <2>5, Onward, Assemble DEF Busy, SharedSteps
<1>10. CASE Raise(c)
  BY <1>1, <1>2, <1>3, <1>8, <1>10, RaiseKeeps, Assemble
<1> HIDE DEF r, expected
<1> QED BY <1>1, <1>9, <1>10 DEF Attempt

LEMMA PublishInstanceLocatorStep ==
  ASSUME IInv, NEW c \in Command, PublishInstanceLocator(c)
  PROVE  IInv'
<1> DEFINE r == command[c].target
<1>1. /\ command[c].step = "publishing" /\ UNCHANGED <<journal, slots, runtime, host, agent>>
      /\ IF locator = None THEN Attempt(c, locator, r, "closing")
         ELSE /\ IF command[c].reconciling /\ locator = r THEN At(c, "closing") ELSE Raise(c)
              /\ UNCHANGED <<locator, budget>>
  BY DEF PublishInstanceLocator
<1>2. command[c].step \in SharedSteps /\ command[c].step \notin {"idle", "checking", "creating"}
  BY <1>1 DEF SharedSteps
<1>3. /\ lock = c /\ AdoptionTypeOK /\ JournalStep /\ BudgetTyped
      /\ agent' \in {"down", "starting", "up"}
  BY <1>1, <1>2, Publishing, JournalStill, BudgetKept DEF AdoptionTypeOK, Attempt
<1>4. /\ slots.previous = None /\ slots.current = r /\ r \in Release /\ r # None
      /\ runtime = ContractsOf(r, command[c].plugins)
  BY <1>1, <1>2, Publishing, AdoptionAssumption DEF HostInv
<1>5. runtime # None
  BY <1>2, <1>4, Publishing, ContractsTyped
<1>6. ASSUME locator = None, locator' = r PROVE StoresStep /\ StoresTyped
  <2>1. WholeOrOnRecord'
    BY <1>1, <1>4, <1>5, <1>6 DEF IInv, WholeOrOnRecord
  <2>2. SettledInv'
    BY <1>4, <1>6 DEF SettledInv
  <2>3. StoresTyped
    BY <1>1, <1>3, <1>4, <1>6 DEF AdoptionTypeOK, StoresTyped
  <2> QED BY <2>1, <2>2, <2>3 DEF StoresStep
<1>7. ASSUME locator' = locator PROVE StoresStep /\ StoresTyped
  BY <1>1, <1>3, <1>7, Still, NowhereTyped DEF Nowhere, published
<1>8. StoresStep /\ StoresTyped
  BY <1>1, <1>6, <1>7 DEF Attempt
<1>9. CASE At(c, "closing") /\ locator' = r
  <2>1. Goes(c, "closing")
    BY <1>3, <1>9, AtGoes DEF Steps, SharedSteps
  <2>2. RecordInv(c)'
    BY <1>1, <1>2, <2>1, RecordStill DEF SharedSteps
  <2>3. ContractsOf(command[c].target, command[c].plugins)' = runtime
    BY <1>4, <2>1 DEF Goes, ContractsOf
  <2>4. HostInv(c)'
    BY <1>1, <1>2, <1>4, <1>9, <2>1, <2>3, Publishing
    DEF HostInv, Goes, Busy, AdoptionSteps, SharedSteps
  <2> QED
    BY <1>1, <1>3, <1>8, <1>9, <2>2, <2>4, Onward, Assemble DEF Busy, SharedSteps
<1>10. CASE Raise(c)
  BY <1>1, <1>2, <1>3, <1>8, <1>10, RaiseKeeps, Assemble
<1> HIDE DEF r
<1> QED BY <1>1, <1>9, <1>10 DEF Attempt

LEMMA CloseStep ==
  ASSUME IInv, NEW c \in Command, Close(c)
  PROVE  IInv'
<1> DEFINE o == command[c].op
           status == IF command[c].reconciling THEN "reconciled" ELSE "succeeded"
<1>1. /\ command[c].step = "closing" /\ Nowhere /\ UNCHANGED agent
      /\ IF CanEnter(journal[o], status)
         THEN \/ journal' = Recorded(o, status) /\ Leave(c) /\ UNCHANGED budget
              \/ journal' \in {journal, Recorded(o, status)} /\ Fault /\ Raise(c)
         ELSE Raise(c) /\ UNCHANGED <<journal, budget>>
  BY DEF Close, Nowhere, published
<1>2. command[c].step \in SharedSteps /\ command[c].step \notin {"idle", "checking", "creating"}
  BY <1>1 DEF SharedSteps
<1>3. lock = c /\ AdoptionTypeOK /\ o \in Operation
  BY <1>2, Publishing
<1>4. locator # None
  BY <1>1, <1>2, Publishing, AdoptionAssumption DEF HostInv
<1>5. status \in Status
  BY StatusFacts
<1> HIDE DEF o, status
<1>6. JournalStep /\ StoresStep
  BY <1>1, <1>3, <1>4, <1>5, Still, Entered
<1>7. agent' \in {"down", "starting", "up"} /\ StoresTyped /\ BudgetTyped
  BY <1>1, <1>3, BudgetKept, NowhereTyped DEF AdoptionTypeOK
<1>8. CASE Leave(c)
  BY <1>1, <1>3, <1>6, <1>7, <1>8, LeaveKeeps, Assemble
<1>9. CASE Raise(c)
  BY <1>1, <1>2, <1>3, <1>6, <1>7, <1>9, RaiseKeeps, Assemble
<1> QED BY <1>1, <1>8, <1>9

-----------------------------------------------------------------------------
(* Reconciliation, deaths and the agent. *)

\* A command that does nothing while the records and the host stay.
LEMMA StillKept ==
  ASSUME IInv, NEW d \in Command, command'[d] = command[d], UNCHANGED <<journal, published>>,
         host'.release = host.release, host'.live.database = host.live.database,
         host'.live.configuration = host.live.configuration
  PROVE  RecordInv(d)' /\ HostInv(d)'
<1>1. RecordInv(d) /\ HostInv(d)
  BY DEF IInv
<1>2. RecordInv(d)'
  BY <1>1 DEF RecordInv
<1>3. ContractsOf(command[d].target, command[d].plugins)' =
        ContractsOf(command[d].target, command[d].plugins)
  BY DEF ContractsOf
<1>4. HostInv(d)'
  BY <1>1, <1>3 DEF HostInv, published
<1> QED BY <1>2, <1>4

LEMMA ReconcileStartStep ==
  ASSUME IInv, NEW c \in Command, ReconcileStart(c)
  PROVE  IInv'
<1>1. /\ command[c].step = "idle" /\ UNCHANGED journal /\ Nowhere
      /\ UNCHANGED <<agent, lock, budget>>
  BY DEF ReconcileStart, Nowhere, published
<1>2. AdoptionTypeOK
  BY DEF IInv
<1>3. PICK o \in Operation :
        /\ journal[o].status = "manual_recovery_required" /\ journal[o].bound
        /\ command' = [command EXCEPT ![c] =
             [Idle EXCEPT !.step = "waiting", !.reconciling = TRUE, !.op = o,
                          !.target = journal[o].target]]
  BY DEF ReconcileStart
<1>4. JournalStep /\ StoresStep /\ StoresTyped /\ BudgetTyped
      /\ agent' \in {"down", "starting", "up"}
  BY <1>1, <1>2, Still, NowhereTyped, BudgetKept DEF AdoptionTypeOK
<1> DEFINE new == [Idle EXCEPT !.step = "waiting", !.reconciling = TRUE, !.op = o,
                               !.target = journal[o].target]
<1>5. journal[o].target \in Release \cup {None}
  BY <1>2 DEF AdoptionTypeOK, AdoptionRecord
<1>6. /\ new \in CommandLine /\ new.step = "waiting" /\ new.reconciling /\ new.op = o
      /\ new.target = journal[o].target
  BY <1>5 DEF Idle, CommandLine, ReconcileSteps
<1> HIDE DEF new
<1>7. command' = [command EXCEPT ![c] = new]
  BY <1>3 DEF new
<1>8. command'[c] = new /\ Others(c) /\ CommandsTyped
  BY <1>1, <1>2, <1>6, <1>7 DEF AdoptionTypeOK, Others, CommandsTyped
<1>9. LockInv'
  BY <1>1, <1>6, <1>8 DEF IInv, LockInv, Others, Busy, AdoptionSteps, SharedSteps
<1>10. journal[o].target \in Release
  BY <1>3 DEF IInv, RecordedTargets
<1>11. RecordInv(c)'
  BY <1>1, <1>3, <1>6, <1>8, <1>10
  DEF RecordInv, Blocked, AdoptionSteps, SharedSteps, ReconcileSteps
<1>12. HostInv(c)'
  BY <1>6, <1>8 DEF HostInv, Busy, AdoptionSteps, SharedSteps
<1>13. ASSUME NEW d \in Command \ {c} PROVE RecordInv(d)' /\ HostInv(d)'
  BY <1>1, <1>8, StillKept DEF Others, Nowhere
<1> QED BY <1>2, <1>4, <1>8, <1>9, <1>11, <1>12, <1>13, Assemble

LEMMA ReconcileLockStep ==
  ASSUME IInv, NEW c \in Command, ReconcileLock(c)
  PROVE  IInv'
<1>1. /\ command[c].step = "waiting" /\ UNCHANGED journal /\ Nowhere
      /\ UNCHANGED <<agent, budget>>
  BY DEF ReconcileLock, Nowhere, published
<1>2. AdoptionTypeOK /\ RecordInv(c)
  BY DEF IInv
<1>3. JournalStep /\ StoresStep /\ StoresTyped /\ BudgetTyped
      /\ agent' \in {"down", "starting", "up"}
  BY <1>1, <1>2, Still, NowhereTyped, BudgetKept DEF AdoptionTypeOK
<1>4. lock # c
  BY <1>1 DEF IInv, LockInv, Busy, AdoptionSteps, SharedSteps
<1>5. CASE /\ lock = None /\ lock' = c
           /\ command' = [command EXCEPT ![c].step = "rechecking"]
  <2>1. /\ CommandsTyped /\ Others(c)
        /\ command'[c].step = "rechecking"
        /\ command'[c].reconciling = command[c].reconciling
        /\ command'[c].target = command[c].target /\ command'[c].op = command[c].op
    BY <1>2, <1>5 DEF AdoptionTypeOK, CommandLine, ReconcileSteps, CommandsTyped, Others
  <2>2. None \notin Command /\ "agent" # c /\ None # "agent"
    BY AdoptionAssumption
  <2>3. LockInv'
    BY <1>1, <1>5, <2>1, <2>2 DEF IInv, LockInv, Others, Busy
  <2>4. RecordInv(c)'
    BY <1>1, <1>2, <2>1 DEF RecordInv, AdoptionSteps, SharedSteps, ReconcileSteps
  <2>5. HostInv(c)'
    BY <2>1 DEF HostInv, AdoptionSteps
  <2>6. ASSUME NEW d \in Command \ {c} PROVE RecordInv(d)' /\ HostInv(d)'
    BY <1>3, <1>5, <2>1, <2>2, OthersKept DEF Others
  <2> QED BY <1>2, <1>3, <2>1, <2>3, <2>4, <2>5, <2>6, Assemble
<1>6. CASE command' = [command EXCEPT ![c] = Idle] /\ UNCHANGED lock
  <2>1. CommandsTyped /\ Others(c) /\ command'[c].step = "idle"
    BY <1>2, <1>6, IdleTyped DEF AdoptionTypeOK, CommandsTyped, Others
  <2>2. LockInv'
    BY <1>1, <1>4, <1>6, <2>1 DEF IInv, LockInv, Others, Busy, AdoptionSteps, SharedSteps
  <2>3. RecordInv(c)' /\ HostInv(c)'
    BY <2>1 DEF RecordInv, HostInv, Busy, AdoptionSteps, SharedSteps, ReconcileSteps
  <2>4. ASSUME NEW d \in Command \ {c} PROVE RecordInv(d)' /\ HostInv(d)'
    BY <1>1, <2>1, StillKept DEF Others, Nowhere
  <2> QED BY <1>2, <1>3, <2>1, <2>2, <2>3, <2>4, Assemble
<1> QED BY <1>5, <1>6 DEF ReconcileLock

LEMMA RecheckStep ==
  ASSUME IInv, NEW c \in Command, Recheck(c)
  PROVE  IInv'
<1> DEFINE r == command[c].target
<1>1. /\ command[c].step = "rechecking" /\ UNCHANGED journal /\ Nowhere
      /\ UNCHANGED <<agent, budget>>
  BY DEF Recheck, Nowhere, published
<1>2. AdoptionTypeOK /\ RecordInv(c) /\ lock = c
  BY <1>1, Holder DEF IInv, Busy
<1>3. JournalStep /\ StoresStep /\ StoresTyped /\ BudgetTyped
      /\ agent' \in {"down", "starting", "up"}
  BY <1>1, <1>2, Still, NowhereTyped, BudgetKept DEF AdoptionTypeOK
<1>4. CASE /\ Verified(r) /\ slots.previous = None /\ slots.current \in {None, r}
           /\ command' = [command EXCEPT ![c].step = "importing", ![c].plugins = host.live.plugins]
           /\ UNCHANGED lock
  <2>1. /\ CommandsTyped /\ Others(c)
        /\ command'[c].step = "importing"
        /\ command'[c].reconciling = command[c].reconciling
        /\ command'[c].target = command[c].target /\ command'[c].op = command[c].op
    BY <1>2, <1>4, Learns DEF Steps, SharedSteps
  <2>2. LockInv'
    BY <1>1, <1>2, <1>4, <2>1, LockKept DEF Busy, SharedSteps
  <2>3. RecordInv(c)'
    BY <1>1, <1>2, <2>1 DEF RecordInv, AdoptionSteps, SharedSteps, ReconcileSteps
  <2>4. /\ host.release = r /\ host.live.database = Manifest[r].database
        /\ host.live.configuration = Manifest[r].configuration
    BY <1>4 DEF Verified, ContractsOf
  <2>5. HostInv(c)'
    BY <1>1, <1>4, <2>1, <2>4 DEF HostInv, Nowhere, published, AdoptionSteps
  <2>6. ASSUME NEW d \in Command \ {c} PROVE RecordInv(d)' /\ HostInv(d)'
    BY <1>2, <1>3, <2>1, OthersKept DEF Others
  <2> QED BY <1>2, <1>3, <2>1, <2>2, <2>3, <2>5, <2>6, Assemble
<1>5. CASE Leave(c)
  BY <1>1, <1>2, <1>3, <1>5, LeaveKeeps, Assemble
<1> QED BY <1>4, <1>5 DEF Recheck

LEMMA KillStep ==
  ASSUME IInv, NEW c \in Command, Kill(c)
  PROVE  IInv'
<1>1. /\ command[c].step # "idle" /\ Dies /\ UNCHANGED journal /\ Nowhere /\ UNCHANGED agent
      /\ command' = [command EXCEPT ![c] = Idle]
      /\ lock' = IF lock = c THEN None ELSE lock
  BY DEF Kill, Nowhere, published
<1>2. AdoptionTypeOK
  BY DEF IInv
<1>3. JournalStep /\ StoresStep /\ StoresTyped /\ BudgetTyped
      /\ agent' \in {"down", "starting", "up"}
  BY <1>1, <1>2, Still, NowhereTyped, BudgetKept DEF AdoptionTypeOK
<1>4. CASE lock = c
  BY <1>1, <1>2, <1>3, <1>4, LeaveKeeps, Assemble DEF Leave
<1>5. CASE lock # c
  <2>1. CommandsTyped /\ Others(c) /\ command'[c].step = "idle"
    BY <1>1, <1>2, <1>5, IdleTyped DEF AdoptionTypeOK, CommandsTyped, Others
  <2>2. LockInv'
    BY <1>1, <1>5, <2>1 DEF IInv, LockInv, Others, Busy, AdoptionSteps, SharedSteps
  <2>3. RecordInv(c)' /\ HostInv(c)'
    BY <2>1 DEF RecordInv, HostInv, Busy, AdoptionSteps, SharedSteps, ReconcileSteps
  <2>4. ASSUME NEW d \in Command \ {c} PROVE RecordInv(d)' /\ HostInv(d)'
    BY <1>1, <2>1, StillKept DEF Others, Nowhere
  <2> QED BY <1>2, <1>3, <2>1, <2>2, <2>3, <2>4, Assemble
<1> QED BY <1>4, <1>5

\* No command is past the lock while the agent has it or nobody has.
LEMMA AgentKeeps ==
  ASSUME IInv, lock \in {"agent", None}, lock' \in {"agent", None}, UNCHANGED command,
         lock' = "agent" <=> agent' = "starting", JournalStep
  PROVE  /\ CommandsTyped
         /\ LockInv' /\ \A d \in Command : RecordInv(d)' /\ HostInv(d)'
<1>1. \A d \in Command : d # "agent" /\ d # None
  BY AdoptionAssumption
<1>2. CommandsTyped
  BY DEF IInv, AdoptionTypeOK, CommandsTyped
<1>3. LockInv'
  BY <1>1 DEF IInv, LockInv
<1>4. ASSUME NEW d \in Command PROVE RecordInv(d)' /\ HostInv(d)'
  BY <1>1, OthersKept
<1> QED BY <1>2, <1>3, <1>4

LEMMA AgentStep ==
  ASSUME IInv, AgentStart \/ AgentServes \/ AgentDies
  PROVE  IInv'
<1>1. UNCHANGED journal /\ Nowhere /\ UNCHANGED command /\ agent' \in {"down", "starting", "up"}
  BY DEF AgentStart, AgentServes, AgentDies, Nowhere, published
<1>2. AdoptionTypeOK /\ "agent" # None /\ "agent" \notin Command
  BY AdoptionAssumption DEF IInv
<1>3. JournalStep /\ StoresStep /\ StoresTyped
  BY <1>1, <1>2, Still, NowhereTyped
<1>4. BudgetTyped
  BY <1>2, BudgetKept DEF AgentStart, AgentServes, AgentDies
<1>5. CASE AgentStart \/ AgentServes \/ lock = "agent"
  <2>1. /\ lock \in {"agent", None} /\ lock' \in {"agent", None}
        /\ lock' = "agent" <=> agent' = "starting"
    BY <1>2, <1>5 DEF AgentStart, AgentServes, AgentDies, IInv, LockInv
  <2> QED BY <1>1, <1>2, <1>3, <1>4, <2>1, AgentKeeps, Assemble
<1>6. CASE AgentDies /\ lock # "agent"
  <2>1. UNCHANGED lock /\ agent' = "down"
    BY <1>6 DEF AgentDies
  <2>2. CommandsTyped /\ LockInv'
    BY <1>1, <1>2, <1>6, <2>1 DEF IInv, LockInv, AdoptionTypeOK, CommandsTyped
  <2>3. ASSUME NEW d \in Command PROVE RecordInv(d)' /\ HostInv(d)'
    BY <1>1, StillKept DEF Nowhere
  <2> QED BY <1>1, <1>2, <1>3, <1>4, <2>2, <2>3, Assemble
<1> QED BY <1>5, <1>6

LEMMA AgentRecoversStep ==
  ASSUME IInv, AgentRecovers
  PROVE  IInv'
<1>1. /\ agent = "starting" /\ Nowhere /\ UNCHANGED command
  BY DEF AgentRecovers, Nowhere, published
<1>2. AdoptionTypeOK /\ "agent" # None /\ lock = "agent"
  BY <1>1, AdoptionAssumption DEF IInv, LockInv
<1>3. PICK o \in Operation :
        LET recovered == Recorded(o, RecoveredStatus(journal[o])) IN
        /\ Incomplete(journal[o])
        /\ \/ journal' = recovered /\ UNCHANGED <<agent, lock, budget>>
           \/ journal' \in {journal, recovered} /\ Fault /\ agent' = "down" /\ lock' = None
  BY DEF AgentRecovers
<1>4. /\ RecoveredStatus(journal[o]) \in {"failed_pre_switch", "manual_recovery_required"}
      /\ journal[o].status \notin Blocked \cup {"absent"}
      /\ journal[o].status = "adopting" =>
           RecoveredStatus(journal[o]) = "manual_recovery_required"
  <2>1. journal[o] \in AdoptionRecord
    BY <1>2 DEF AdoptionTypeOK
  <2> QED BY <1>3, <2>1, Recovers
<1>5. ASSUME journal' = Recorded(o, RecoveredStatus(journal[o]))
      PROVE  JournalStep /\ StoresStep
  <2>1. RecoveredStatus(journal[o]) \in Status
    BY <1>4, StatusFacts
  <2> QED BY <1>1, <1>4, <1>5, <2>1, Rewritten DEF Blocked
<1>6. JournalStep /\ StoresStep
  BY <1>1, <1>3, <1>5, Still
<1>7. StoresTyped /\ BudgetTyped
  BY <1>1, <1>2, <1>3, NowhereTyped, BudgetKept
<1>8. /\ lock' \in {"agent", None}
      /\ lock' = "agent" <=> agent' = "starting"
      /\ agent' \in {"down", "starting", "up"}
  BY <1>1, <1>2, <1>3
<1> QED BY <1>1, <1>2, <1>6, <1>7, <1>8, AgentKeeps, Assemble

-----------------------------------------------------------------------------
(* The host around them. *)

LEMMA SwitchStep ==
  ASSUME IInv, NEW r \in Release, NEW live \in RuntimeContracts, Switch(r, live)
  PROVE  IInv'
<1>1. /\ agent = "up" /\ lock = None /\ slots' = [current |-> r, previous |-> slots.current]
      /\ runtime' = live /\ locator' = r /\ host' = [release |-> r, live |-> live]
      /\ UNCHANGED <<journal, command, agent, lock, budget>>
  BY DEF Switch
<1>2. AdoptionTypeOK /\ "agent" # None /\ r # None /\ live # None
  BY AdoptionAssumption DEF IInv
<1>3. JournalStep /\ BudgetTyped
  BY <1>1, <1>2, JournalStill, BudgetKept
<1>4. StoresTyped
  BY <1>1, <1>2 DEF AdoptionTypeOK, StoresTyped
<1>5. StoresStep
  BY <1>1, <1>2 DEF StoresStep, SettledInv, WholeOrOnRecord
<1>6. agent' \in {"down", "starting", "up"} /\ (lock' = "agent" <=> agent' = "starting")
  BY <1>1, <1>2
<1> QED BY <1>1, <1>2, <1>3, <1>4, <1>5, <1>6, AgentKeeps, Assemble

LEMMA HostStep ==
  ASSUME IInv, ApplyUpdate \/ RollbackPrevious \/ TogglePlugins
  PROVE  IInv'
<1>1. AdoptionTypeOK
  BY DEF IInv
<1>2. host.live \in RuntimeContracts
  BY <1>1 DEF AdoptionTypeOK
<1>3. CASE ApplyUpdate
  <2>1. PICK r \in Release :
          Switch(r, [database |-> IF MigrationRequired(r) THEN Manifest[r].database
                                  ELSE host.live.database,
                     configuration |-> Manifest[r].configuration, plugins |-> host.live.plugins])
    BY <1>3 DEF ApplyUpdate
  <2>2. [database |-> IF MigrationRequired(r) THEN Manifest[r].database ELSE host.live.database,
         configuration |-> Manifest[r].configuration, plugins |-> host.live.plugins]
          \in RuntimeContracts
    BY <1>2, ManifestTyped DEF RuntimeContracts
  <2> QED BY <2>1, <2>2, SwitchStep
<1>4. CASE RollbackPrevious
  <2>1. slots.previous \in Release
    BY <1>1, <1>4 DEF RollbackPrevious, AdoptionTypeOK
  <2> QED BY <1>2, <1>4, <2>1, SwitchStep DEF RollbackPrevious
<1>5. CASE TogglePlugins
  <2>1. PICK plugins \in SUBSET Manifest[host.release].supportedApis :
          host' = [host EXCEPT !.live.plugins = plugins]
    BY <1>5 DEF TogglePlugins
  <2>2. UNCHANGED <<journal, published, command, agent, lock, budget>>
    BY <1>5 DEF TogglePlugins
  <2>3. plugins \in SUBSET PluginApi
    BY <1>1, ManifestTyped DEF AdoptionTypeOK
  <2>4. /\ host' \in [release : Release, live : RuntimeContracts]
        /\ host'.release = host.release /\ host'.live.database = host.live.database
        /\ host'.live.configuration = host.live.configuration
    BY <1>1, <2>1, <2>3 DEF AdoptionTypeOK, RuntimeContracts
  <2>5. JournalStep /\ BudgetTyped
    BY <1>1, <2>2, JournalStill, BudgetKept
  <2>6. StoresTyped /\ CommandsTyped /\ agent' \in {"down", "starting", "up"}
    BY <1>1, <2>2, <2>4 DEF AdoptionTypeOK, StoresTyped, CommandsTyped, published
  <2>7. StoresStep
    BY <2>2, <2>4 DEF IInv, StoresStep, SettledInv, WholeOrOnRecord, Answering, published
  <2>8. LockInv'
    BY <2>2 DEF IInv, LockInv
  <2>9. ASSUME NEW d \in Command PROVE RecordInv(d)' /\ HostInv(d)'
    BY <2>2, <2>4, StillKept
  <2> QED BY <1>1, <2>5, <2>6, <2>7, <2>8, <2>9, Assemble
<1> QED BY <1>3, <1>4, <1>5

-----------------------------------------------------------------------------
(* Theorems. *)

LEMMA InitInv == AdoptionInit => IInv
<1> SUFFICES ASSUME AdoptionInit PROVE IInv
  OBVIOUS
<1>1. PICK r \in Release : host = [release |-> r, live |-> ContractsOf(r, {})]
  BY DEF AdoptionInit
<1>2. ContractsOf(r, {}) \in RuntimeContracts
  BY ContractsTyped
<1>3. AdoptionTypeOK
  BY <1>1, <1>2, IdleTyped, AdoptionAssumption, StatusFacts
  DEF AdoptionInit, AdoptionTypeOK, AdoptionRecord
<1>4. \A c \in Command : command[c].step = "idle"
  BY IdleTyped DEF AdoptionInit
<1>5. None \notin Command /\ None # "agent"
  BY AdoptionAssumption
<1>6. LockInv
  BY <1>4, <1>5 DEF AdoptionInit, LockInv, Busy, AdoptionSteps, SharedSteps
<1>7. RecordedTargets /\ SettledInv
  BY DEF AdoptionInit, RecordedTargets, SettledInv
<1>8. WholeOrOnRecord
  BY DEF AdoptionInit, WholeOrOnRecord
<1>9. ASSUME NEW c \in Command PROVE RecordInv(c) /\ HostInv(c)
  BY <1>4 DEF RecordInv, HostInv, Busy, AdoptionSteps, SharedSteps, ReconcileSteps
<1> QED BY <1>3, <1>6, <1>7, <1>8, <1>9 DEF IInv

LEMMA StutterInv == ASSUME IInv, UNCHANGED vars PROVE IInv'
<1>1. UNCHANGED journal /\ Nowhere /\ UNCHANGED <<command, agent, lock, budget>>
  BY DEF vars, Nowhere, published
<1>2. AdoptionTypeOK
  BY DEF IInv
<1>3. /\ JournalStep /\ StoresStep /\ StoresTyped /\ BudgetTyped
      /\ CommandsTyped /\ agent' \in {"down", "starting", "up"}
  BY <1>1, <1>2, Still, NowhereTyped, BudgetKept DEF AdoptionTypeOK, CommandsTyped
<1>4. LockInv'
  BY <1>1 DEF IInv, LockInv
<1>5. ASSUME NEW d \in Command PROVE RecordInv(d)' /\ HostInv(d)'
  BY <1>1, StillKept DEF Nowhere
<1> QED BY <1>2, <1>3, <1>4, <1>5, Assemble

LEMMA StepInv == IInv /\ [AdoptionNext]_vars => IInv'
<1> SUFFICES ASSUME IInv, [AdoptionNext]_vars PROVE IInv'
  OBVIOUS
<1>1. ASSUME NEW c \in Command, Adopt(c) PROVE IInv'
  BY <1>1, AdoptStartStep, CheckStep, CreateStep, EarlyEnterStep, BindRecoveryTargetStep,
     AdoptingStep, HandleStep DEF Adopt
<1>2. ASSUME NEW c \in Command, Reconcile(c) PROVE IInv'
  BY <1>2, ReconcileStartStep, ReconcileLockStep, RecheckStep DEF Reconcile
<1>3. ASSUME NEW c \in Command, Publish(c) PROVE IInv'
  BY <1>3, ImportCurrentStep, InitializeFromManifestStep, PublishInstanceLocatorStep, CloseStep
  DEF Publish
<1>4. ASSUME NEW c \in Command, Kill(c) PROVE IInv'
  BY <1>4, KillStep
<1>5. CASE AgentStart \/ AgentRecovers \/ AgentServes \/ AgentDies
  BY <1>5, AgentStep, AgentRecoversStep
<1>6. CASE ApplyUpdate \/ RollbackPrevious \/ TogglePlugins
  BY <1>6, HostStep
<1>7. CASE UNCHANGED vars
  BY <1>7, StutterInv
<1> QED BY <1>1, <1>2, <1>3, <1>4, <1>5, <1>6, <1>7 DEF AdoptionNext

LEMMA Reachable == AdoptionSpec => []IInv
  BY InitInv, StepInv, PTL DEF AdoptionSpec

\* Adoption, reconciliation and the agent beside them are well typed for any
\* number of commands, operations, releases, faults and kills.
THEOREM AdoptionTypeCorrect == AdoptionSpec => []AdoptionTypeOK
<1>1. IInv => AdoptionTypeOK
  BY DEF IInv
<1> QED BY <1>1, Reachable, PTL

\* However commands died and writes failed, what is published is true of the
\* application that runs, comes in the order CURRENT, contracts, locator, and
\* without the locator a record with the manifest is there to complete it from.
THEOREM PublishedIsWholeOrOnRecord == AdoptionSpec => []WholeOrOnRecord
<1>1. IInv => WholeOrOnRecord
  BY DEF IInv
<1> QED BY <1>1, Reachable, PTL

\* The step that settles an operation as adopted.
Settles(o) ==
  /\ journal'[o].status \in {"succeeded", "reconciled"}
  /\ journal'[o].status # journal[o].status

Whole(r) ==
  /\ slots' = [current |-> r, previous |-> None] /\ locator' = r
  /\ host'.release = r /\ host'.live = ContractsOf(r, host'.live.plugins)
  /\ runtime' # None /\ runtime' = ContractsOf(r, runtime'.plugins)

\* A record that is rewritten or left alone.
LEMMA SettlesRecorded ==
  ASSUME AdoptionTypeOK, NEW o \in Operation, NEW p \in Operation, NEW status,
         journal' \in {journal, Recorded(p, status)}, Settles(o)
  PROVE  p = o /\ status \in {"succeeded", "reconciled"}
  BY DEF AdoptionTypeOK, AdoptionRecord, Recorded, Settles

LEMMA CloseSettles ==
  ASSUME IInv, NEW c \in Command, Close(c), NEW o \in Operation, Settles(o)
  PROVE  Whole(journal[o].target)
<1>1. command[c].step = "closing" /\ UNCHANGED <<slots, runtime, locator, host>>
  BY DEF Close, published
<1>2. command[c].step \in SharedSteps
  BY <1>1 DEF SharedSteps
<1>3. AdoptionTypeOK /\ command[c].op \in Operation
  BY <1>2, Publishing
<1>4. \E status : journal' \in {journal, Recorded(command[c].op, status)}
  BY DEF Close
<1>5. command[c].op = o
  BY <1>3, <1>4, SettlesRecorded
<1> DEFINE r == journal[o].target
<1>6. /\ r = command[c].target /\ r \in Release /\ command[c].plugins \in SUBSET PluginApi
      /\ host.release = r /\ host.live.database = Manifest[r].database
      /\ host.live.configuration = Manifest[r].configuration
  BY <1>2, <1>5, Publishing
<1>7. /\ slots.current = r /\ slots.previous = None /\ locator = r
      /\ runtime = ContractsOf(r, command[c].plugins)
  BY <1>1, <1>2, <1>6, Publishing DEF HostInv
<1>8. slots = [current |-> r, previous |-> None]
  BY <1>3, <1>7 DEF AdoptionTypeOK
<1>9. host.live = ContractsOf(r, host.live.plugins)
  BY <1>3, <1>6 DEF AdoptionTypeOK, RuntimeContracts, ContractsOf
<1>10. runtime # None /\ runtime = ContractsOf(r, runtime.plugins)
  BY <1>6, <1>7, ContractsTyped
<1> QED BY <1>1, <1>6, <1>7, <1>8, <1>9, <1>10 DEF Whole

LEMMA NothingElseSettles ==
  ASSUME IInv, [AdoptionNext]_vars, NEW o \in Operation, Settles(o)
  PROVE  \E c \in Command : Close(c)
<1>0. AdoptionTypeOK
  BY DEF IInv
<1>1. journal' # journal
  BY DEF Settles
<1>2. ASSUME NEW c \in Command, NEW status \in {"preflight", "fetching", "verifying", "adopting"},
             NEW next, Enter(c, status, next)
      PROVE  FALSE
  <2>1. command[c].op \in Operation
    BY <1>2 DEF Enter, IInv, RecordInv
  <2>2. journal' \in {journal, Recorded(command[c].op, status)}
    BY <1>2 DEF Enter, Attempt
  <2> QED BY <1>0, <2>1, <2>2, SettlesRecorded
<1>3. ASSUME NEW c \in Command, Create(c) PROVE FALSE
  BY <1>0, <1>3 DEF Create, AdoptionTypeOK, AdoptionRecord, Settles
<1>4. ASSUME NEW c \in Command, BindRecoveryTarget(c) PROVE FALSE
  <2>1. command[c].op \in Operation
    BY <1>4 DEF BindRecoveryTarget, IInv, RecordInv
  <2>2. journal' \in {journal, [journal EXCEPT ![command[c].op].bound = TRUE]}
    BY <1>4 DEF BindRecoveryTarget, Attempt
  <2> QED BY <1>0, <2>1, <2>2 DEF AdoptionTypeOK, AdoptionRecord, Settles
<1>5. ASSUME NEW c \in Command, Handle(c) PROVE FALSE
  <2>1. command[c].op \in Operation
    BY <1>5 DEF Handle, IInv, RecordInv
  <2>2. PICK status \in {"manual_recovery_required", "failed_pre_switch"} :
          journal' \in {journal, Recorded(command[c].op, status)}
    BY <1>5 DEF Handle
  <2> QED BY <1>0, <2>1, <2>2, SettlesRecorded
<1>6. CASE AgentRecovers
  <2>1. PICK p \in Operation :
          /\ Incomplete(journal[p])
          /\ journal' \in {journal, Recorded(p, RecoveredStatus(journal[p]))}
    BY <1>6 DEF AgentRecovers
  <2>2. RecoveredStatus(journal[p]) \notin {"succeeded", "reconciled"}
    BY DEF RecoveredStatus
  <2> QED BY <1>0, <2>1, <2>2, SettlesRecorded
<1>7. ASSUME NEW c \in Command, AdoptStart(c) \/ Check(c) \/ Reconcile(c) \/ Kill(c)
               \/ ImportCurrent(c) \/ InitializeFromManifest(c) \/ PublishInstanceLocator(c)
      PROVE  FALSE
  BY <1>1, <1>7 DEF AdoptStart, Check, Reconcile, ReconcileStart, ReconcileLock, Recheck, Kill,
     ImportCurrent, InitializeFromManifest, PublishInstanceLocator
<1>8. CASE AgentStart \/ AgentServes \/ AgentDies \/ ApplyUpdate \/ RollbackPrevious
             \/ TogglePlugins \/ UNCHANGED vars
  BY <1>1, <1>8 DEF AgentStart, AgentServes, AgentDies, ApplyUpdate, RollbackPrevious, Switch,
     TogglePlugins, vars
<1> QED
  BY <1>2, <1>3, <1>4, <1>5, <1>6, <1>7, <1>8 DEF AdoptionNext, Adopt, Publish

\* An operation is settled as adopted, by its own command or by a later
\* reconciliation, only over the release that runs, with CURRENT, contracts and
\* locator all naming it and no PREVIOUS.
THEOREM SettledAdoptionIsWhole == AdoptionSpec => ClosedIsWhole
<1>1. IInv /\ [AdoptionNext]_vars =>
        [\A o \in Operation :
           /\ journal'[o].status \in {"succeeded", "reconciled"}
           /\ journal'[o].status # journal[o].status
           => LET r == journal[o].target IN
              /\ slots' = [current |-> r, previous |-> None] /\ locator' = r
              /\ host'.release = r /\ host'.live = ContractsOf(r, host'.live.plugins)
              /\ runtime' # None /\ runtime' = ContractsOf(r, runtime'.plugins)]_vars
  BY CloseSettles, NothingElseSettles DEF Settles, Whole
<1> QED BY <1>1, Reachable, PTL DEF AdoptionSpec, ClosedIsWhole
=============================================================================
