------------------------- MODULE ConfigurationChange -------------------------
(* `animemo-updater config`: the transaction that changes the managed         *)
(* configuration (updater/configuration.py), with the managed config file,    *)
(* the runtime environment derived from it, the running application, the      *)
(* instance locator, and the Update Agent, which takes the same lock and      *)
(* writes the same locator (updater/binding.py).                              *)
EXTENDS Naturals, SequencesExt

CONSTANTS
  Manager,      \* command lines
  Nobody,
  Guest,        \* other holders of update.lock, modelled elsewhere
  MaxRevision,  \* bound: configuration changes ever planned
  MaxRelease,   \* bound: releases the agent promotes
  MaxFaults     \* bound: failed calls, killed command lines, failed updates

ASSUME ConfigurationAssumption ==
  /\ Nobody \notin Manager \cup Guest /\ "agent" \notin Manager \cup Guest /\ Nobody # "agent"
  /\ Manager \cap Guest = {}
  /\ MaxRevision \in Nat /\ MaxRelease \in Nat /\ MaxFaults \in Nat

VARIABLES
  host,     \* the revision of the config, the env and the application, the locator
  current,  \* the release of the CURRENT slot
  minted,   \* revisions drawn so far: every plan draws its own
  journal,  \* the state of the operation that goes to a revision
  manager,  \* the transaction of each command line
  lock,     \* who holds update.lock
  agent,    \* the agent's update: "idle", "switching" or "publishing"
  barrier,  \* an update waits for manual recovery
  budget    \* remaining faults

agentVars == <<current, agent, barrier>>
vars == <<host, minted, journal, manager, lock, agentVars, budget>>

Revision == 0..MaxRevision
Down == MaxRevision + 1  \* the application is not running
Locator == [revision : Revision, release : 0..MaxRelease]
Host == [config : Revision, env : Revision, app : Revision \cup {Down}, locator : Locator]

\* LocalConfigurationOperationJournal._TRANSITIONS
Transitions ==
  [state \in {"none", "PLANNED", "APPLYING", "VERIFYING", "ROLLING_BACK", "SUCCEEDED",
              "ROLLED_BACK", "CONFIG_APPLY_FAILED", "RECOVERY_REQUIRED"} |->
     CASE state = "PLANNED" -> {"APPLYING", "CONFIG_APPLY_FAILED"}
       [] state = "APPLYING" ->
            {"VERIFYING", "ROLLING_BACK", "CONFIG_APPLY_FAILED", "RECOVERY_REQUIRED"}
       [] state = "VERIFYING" -> {"SUCCEEDED", "ROLLING_BACK", "RECOVERY_REQUIRED"}
       [] state = "ROLLING_BACK" -> {"ROLLED_BACK", "RECOVERY_REQUIRED"}
       [] OTHER -> {}]

\* Mutant: APPLYING is recorded after the first write.
MutantLateRecord ==
  <<"config", "applying", "env", "application", "verifying", "health", "locator",
    "acceptance", "succeeded">>

\* What apply and _rollback do, in order.
Forward ==
  <<"applying", "config", "env", "application", "verifying", "health", "locator",
    "acceptance", "succeeded">>
Backward ==
  <<"rolling_back", "config_back", "env_back", "application_back", "health_back",
    "locator_back", "acceptance_back", "rolled_back">>
Steps == Range(Forward) \cup Range(Backward)

JournalSteps ==
  [applying |-> "APPLYING", verifying |-> "VERIFYING", succeeded |-> "SUCCEEDED",
   rolling_back |-> "ROLLING_BACK", rolled_back |-> "ROLLED_BACK"]

Outcome == {"none", "APPLIED", "CONFIG_APPLY_FAILED", "RECOVERY_REQUIRED"}
Origin == [config |-> 0, env |-> 0, app |-> 0, locator |-> [revision |-> 0, release |-> 0]]
Idle == [stage |-> "idle", from |-> 0, to |-> 0, seen |-> Origin.locator, before |-> Origin,
         attempted |-> FALSE, outcome |-> "none"]

ConfigTypeOK ==
  /\ host \in Host
  /\ current \in 0..MaxRelease
  /\ minted \in Revision
  /\ journal \in [1..MaxRevision -> DOMAIN Transitions]
  /\ manager \in [Manager ->
       [stage : Steps \cup {"idle", "planned", "failing", "apply_failed", "recovering", "returning"},
        from : Revision, to : Revision, seen : Locator, before : Host, attempted : BOOLEAN,
        outcome : Outcome]]
  /\ lock \in Manager \cup Guest \cup {Nobody, "agent"}
  /\ agent \in {"idle", "switching", "publishing"}
  /\ barrier \in BOOLEAN
  /\ budget \in 0..MaxFaults

ConfigInit ==
  /\ host = Origin
  /\ current = 0
  /\ minted = 0
  /\ journal = [op \in 1..MaxRevision |-> "none"]
  /\ manager = [m \in Manager |-> Idle]
  /\ lock = Nobody
  /\ agent = "idle"
  /\ barrier = FALSE
  /\ budget = MaxFaults

Fault == budget > 0 /\ budget' = budget - 1

\* _aligned, for the files that carry the revision.
Aligned == host.config = host.locator.revision

-----------------------------------------------------------------------------
(* Planning and admission. *)

\* _current: what a plan is drawn from.
Coherent == Aligned /\ host.locator.release = current

Validate(m) ==
  /\ manager[m].stage = "idle"
  /\ Coherent
  /\ minted < MaxRevision
  /\ minted' = minted + 1
  /\ manager' = [manager EXCEPT ![m] = [Idle EXCEPT !.stage = "planned", !.from = host.config,
                                          !.to = minted + 1, !.seen = host.locator]]
  /\ UNCHANGED <<host, journal, lock, agentVars, budget>>

\* Mutant: the plan is not compared with what is there now.
MutantFresh(m) == Coherent

\* _assert_fresh, under the lock.
Fresh(m) ==
  Coherent /\ host.config = manager[m].from /\ host.locator = manager[m].seen

(* The plan is applied or refused as stale; a journal that cannot be created  *)
(* ends the command before anything changed.                                  *)
Begin(m) ==
  /\ manager[m].stage = "planned"
  /\ lock = Nobody
  /\ \/ /\ Fresh(m)
        /\ lock' = m
        /\ journal' = [journal EXCEPT ![manager[m].to] = "PLANNED"]
        /\ manager' = [manager EXCEPT ![m].stage = Head(Forward), ![m].before = host]
        /\ UNCHANGED budget
     \/ /\ manager' = [manager EXCEPT ![m] = Idle]
        /\ UNCHANGED lock
        /\ \/ ~Fresh(m) /\ UNCHANGED <<journal, budget>>
           \/ /\ Fresh(m) /\ Fault
              /\ journal' \in {journal, [journal EXCEPT ![manager[m].to] = "PLANNED"]}
  /\ UNCHANGED <<host, minted, agentVars>>

-----------------------------------------------------------------------------
(* The transaction. *)

OldLocator(p) == p.before.locator
NewLocator(p) == [p.before.locator EXCEPT !.revision = p.to]

\* What a step finds out before it acts.
Permitted(s, p) ==
  CASE s \in DOMAIN JournalSteps -> JournalSteps[s] \in Transitions[journal[p.to]]
    [] s = "config" -> host.config = p.from
    [] s = "env" -> host.config = p.to
    [] s = "locator" -> host.locator = p.seen
    [] s = "acceptance" -> host.locator = NewLocator(p)
    [] s = "config_back" -> host.config \in {p.from, p.to}
    [] s = "env_back" -> host.config = p.from
    [] s = "application_back" -> host.locator \in {OldLocator(p), NewLocator(p)}
    [] s = "acceptance_back" -> host.locator = OldLocator(p) /\ p.from = host.locator.revision
    [] OTHER -> TRUE

\* Mutant: the rollback leaves the environment file to the next start.
MutantEffect(s, p) ==
  CASE s = "config" -> [host EXCEPT !.config = p.to]
    [] s = "env" -> [host EXCEPT !.env = p.to]
    [] s = "application" -> [host EXCEPT !.app = p.to]
    [] s = "locator" -> [host EXCEPT !.locator = NewLocator(p)]
    [] s = "config_back" -> [host EXCEPT !.config = p.from]
    [] s = "application_back" -> [host EXCEPT !.app = p.from]
    [] s = "locator_back" -> [host EXCEPT !.locator = OldLocator(p)]
    [] OTHER -> host

Effect(s, p) ==
  CASE s = "config" -> [host EXCEPT !.config = p.to]
    [] s = "env" -> [host EXCEPT !.env = p.to]
    [] s = "application" -> [host EXCEPT !.app = p.to]
    [] s = "locator" -> [host EXCEPT !.locator = NewLocator(p)]
    [] s = "config_back" -> [host EXCEPT !.config = p.from]
    [] s = "env_back" -> [host EXCEPT !.env = p.from]
    [] s = "application_back" -> [host EXCEPT !.app = p.from]
    [] s = "locator_back" -> [host EXCEPT !.locator = OldLocator(p)]
    [] OTHER -> host

\* A call that fails has done nothing, or its work; a failed `compose up` may
\* also leave the application down.
AfterFailure(s, p) ==
  {host, Effect(s, p)} \cup
    (IF s \in {"application", "application_back"} THEN {[host EXCEPT !.app = Down]} ELSE {})

Written(s, p) ==
  IF s \in DOMAIN JournalSteps THEN [journal EXCEPT ![p.to] = JournalSteps[s]] ELSE journal

After(list, s) == list[1 + CHOOSE i \in DOMAIN list : list[i] = s]
Successor(s) ==
  CASE s \in {"succeeded", "rolled_back"} -> "returning"
    [] s \in Range(Forward) \ {"succeeded"} -> After(Forward, s)
    [] OTHER -> After(Backward, s)

OnError(s) == IF s \in Range(Forward) THEN "failing" ELSE "recovering"

Result(s) ==
  CASE s = "succeeded" -> "APPLIED" [] s = "rolled_back" -> "CONFIG_APPLY_FAILED" [] OTHER -> "none"

\* config_write_attempted is set once APPLYING is on record.
Do(m) ==
  LET p == manager[m]
      s == p.stage
  IN  /\ s \in Steps
      /\ \/ /\ Permitted(s, p)
            /\ host' = Effect(s, p)
            /\ journal' = Written(s, p)
            /\ manager' = [manager EXCEPT ![m].stage = Successor(s), ![m].outcome = Result(s),
                                          ![m].attempted = TRUE]
            /\ UNCHANGED budget
         \/ /\ manager' = [manager EXCEPT ![m].stage = OnError(s)]
            /\ \/ ~Permitted(s, p) /\ UNCHANGED <<host, journal, budget>>
               \/ /\ Permitted(s, p) /\ Fault
                  /\ host' \in AfterFailure(s, p)
                  /\ journal' \in {journal, Written(s, p)}
      /\ UNCHANGED <<minted, lock, agentVars>>

NothingDone(p) == ~p.attempted \/ host.config = p.from

\* The error is sorted out by reading the configuration; unreadable means rollback.
Classify(m) ==
  /\ manager[m].stage = "failing"
  /\ \/ /\ manager' = [manager EXCEPT ![m].stage =
             IF NothingDone(manager[m]) THEN "apply_failed" ELSE "rolling_back"]
        /\ UNCHANGED budget
     \/ /\ manager[m].attempted /\ Fault
        /\ manager' = [manager EXCEPT ![m].stage = "rolling_back"]
  /\ UNCHANGED <<host, minted, journal, lock, agentVars>>

\* Mutant: the result waits for its record.
MutantConclude(m, stage, outcome) ==
  LET op == manager[m].to
  IN  /\ manager[m].stage = stage
      /\ outcome \in Transitions[journal[op]]
      /\ manager' = [manager EXCEPT ![m].stage = "returning", ![m].outcome = outcome]
      /\ journal' = [journal EXCEPT ![op] = outcome]
      /\ UNCHANGED <<host, minted, lock, agentVars, budget>>

\* _mark_apply_failed, _mark_recovery_required: a record that cannot be
\* written, or not from this state, does not change the result.
Conclude(m, stage, outcome) ==
  LET op == manager[m].to
      written == [journal EXCEPT ![op] = outcome]
  IN  /\ manager[m].stage = stage
      /\ manager' = [manager EXCEPT ![m].stage = "returning", ![m].outcome = outcome]
      /\ IF outcome \in Transitions[journal[op]]
         THEN \/ journal' = written /\ UNCHANGED budget
              \/ journal' \in {journal, written} /\ Fault
         ELSE UNCHANGED <<journal, budget>>
      /\ UNCHANGED <<host, minted, lock, agentVars>>

MarkApplyFailed(m) == Conclude(m, "apply_failed", "CONFIG_APPLY_FAILED")
MarkRecoveryRequired(m) == Conclude(m, "recovering", "RECOVERY_REQUIRED")

Return(m) ==
  /\ manager[m].stage = "returning"
  /\ manager' = [manager EXCEPT ![m] = Idle]
  /\ lock' = Nobody
  /\ UNCHANGED <<host, minted, journal, agentVars, budget>>

\* A killed command line: the kernel frees the lock, a started `compose up`
\* may have done its work or half of it.  Nothing reads the journal again.
Kill(m) ==
  /\ lock = m
  /\ Fault
  /\ host' \in IF manager[m].stage \in {"application", "application_back"}
               THEN AfterFailure(manager[m].stage, manager[m]) ELSE {host}
  /\ manager' = [manager EXCEPT ![m] = Idle]
  /\ lock' = Nobody
  /\ UNCHANGED <<minted, journal, agentVars>>

-----------------------------------------------------------------------------
(* The Update Agent: CanonicalRuntimeBinding and the outline of an update.    *)

\* Mutant: the agent trusts the managed configuration alone.
MutantAgentMayBind == TRUE

\* CanonicalRuntimeBinding.refresh fails closed on a mismatch.
AgentMayBind == Aligned

AgentRefresh ==
  /\ lock = Nobody /\ AgentMayBind
  /\ host.env # host.config
  /\ host' = [host EXCEPT !.env = host.config]
  /\ UNCHANGED <<minted, journal, manager, lock, agentVars, budget>>

AgentBegin ==
  /\ lock = Nobody /\ AgentMayBind /\ ~barrier /\ current < MaxRelease
  /\ lock' = "agent"
  /\ agent' = "switching"
  /\ host' = [host EXCEPT !.env = host.config, !.app = Down]
  /\ UNCHANGED <<minted, journal, manager, current, barrier, budget>>

AgentSwitch ==
  /\ agent = "switching"
  /\ agent' = "publishing"
  /\ current' = current + 1
  /\ host' = [host EXCEPT !.app = host.config]
  /\ UNCHANGED <<minted, journal, manager, lock, barrier, budget>>

\* replace_release binds again and replaces the locator it has just read.
AgentPublish ==
  /\ agent = "publishing" /\ AgentMayBind
  /\ agent' = "idle"
  /\ lock' = Nobody
  /\ host' = [host EXCEPT !.locator.release = current]
  /\ UNCHANGED <<minted, journal, manager, current, barrier, budget>>

\* The update fails or its agent is killed: the operation waits for recovery.
AgentFail ==
  /\ agent # "idle" /\ Fault
  /\ agent' = "idle"
  /\ barrier' = TRUE
  /\ lock' = Nobody
  /\ UNCHANGED <<host, minted, journal, manager, current>>

AgentReconcile ==
  /\ barrier /\ lock = Nobody /\ AgentMayBind
  /\ barrier' = FALSE
  /\ host' = [config |-> host.config, env |-> host.config, app |-> host.config,
              locator |-> [host.locator EXCEPT !.release = current]]
  /\ UNCHANGED <<minted, journal, manager, lock, current, agent, budget>>

ConfigNext ==
  \/ \E m \in Manager :
       \/ Validate(m) \/ Begin(m) \/ Do(m) \/ Classify(m)
       \/ MarkApplyFailed(m) \/ MarkRecoveryRequired(m) \/ Return(m) \/ Kill(m)
  \/ AgentRefresh \/ AgentBegin \/ AgentSwitch \/ AgentPublish \/ AgentFail \/ AgentReconcile

Advance(m) ==
  Do(m) \/ Classify(m) \/ MarkApplyFailed(m) \/ MarkRecoveryRequired(m) \/ Return(m)

\* A command line runs on once it has the lock, and so does the agent.
ConfigFairness ==
  /\ \A m \in Manager : WF_vars(Advance(m))
  /\ WF_vars(AgentSwitch) /\ WF_vars(AgentPublish)

ConfigSpec == ConfigInit /\ [][ConfigNext]_vars /\ ConfigFairness

-----------------------------------------------------------------------------
(* Properties. *)

Uniform(r) == host.config = r /\ host.env = r /\ host.app = r /\ host.locator.revision = r

(* The result a command returns is true of the host: APPLIED means that the   *)
(* configuration, the environment, the application and the locator all follow *)
(* the plan; CONFIG_APPLY_FAILED that they all follow the previous revision   *)
(* again, or were never touched (ConfigurationManager.apply).                 *)
ResultIsTrue ==
  \A m \in Manager : manager[m].stage = "returning" =>
    /\ manager[m].outcome = "APPLIED" => Uniform(manager[m].to)
    /\ manager[m].outcome = "CONFIG_APPLY_FAILED" =>
         host = manager[m].before \/ Uniform(manager[m].from)

(* Whatever fails or is killed, a host whose files and running application    *)
(* follow different revisions while nobody holds the lock has a record that   *)
(* says so: an operation that is neither planned nor finished                 *)
(* (LocalConfigurationOperationJournal).                                      *)
HalfDoneIsOnRecord ==
  lock = Nobody /\ ~barrier /\ ~Uniform(host.config) /\ host.app # Down =>
    \E op \in 1..MaxRevision :
      journal[op] \in {"APPLYING", "VERIFYING", "ROLLING_BACK", "RECOVERY_REQUIRED"}

(* A change cut off between the configuration and the locator freezes both:   *)
(* no later command and no update touches anything.                           *)
MisalignedIsFrozen == [][lock = Nobody /\ ~Aligned => UNCHANGED <<host, current>>]_vars

(* A configuration is only ever replaced by a plan drawn from the very host   *)
(* it is applied to: neither another command nor an update has changed it     *)
(* since (_assert_fresh).                                                     *)
PlanFitsHost ==
  [][\A m \in Manager : manager[m].stage = "config" /\ host'.config # host.config =>
       host.locator = manager[m].seen /\ host.locator.release = current]_vars

(* A change or an update that got the lock ends and gives it back.            *)
LockComesBack == lock # Nobody ~> lock = Nobody
=============================================================================
