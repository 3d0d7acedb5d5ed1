------------------------- MODULE BackupBarrier_proofs -------------------------
(* Proofs about ConfigurationChange for any number of command lines,          *)
(* revisions, releases and faults, and then about BackupBarrier: what was     *)
(* proved of the configuration transaction alone still holds with a backup,   *)
(* and any number of uploads, beside it.                                      *)
EXTENDS BackupBarrier, TLAPS

-----------------------------------------------------------------------------
(* The configuration transaction alone. *)

ForwardSteps ==
  {"applying", "config", "env", "application", "verifying", "health", "locator",
   "acceptance", "succeeded"}
BackwardSteps ==
  {"rolling_back", "config_back", "env_back", "application_back", "health_back",
   "locator_back", "acceptance_back", "rolled_back"}

Holding(m) == manager[m].stage \notin {"idle", "planned"}

\* Who runs has the lock.
LockInv ==
  /\ \A m \in Manager : Holding(m) <=> lock = m
  /\ agent # "idle" <=> lock = "agent"
  /\ agent = "switching" => current < MaxRelease

\* Every plan goes to a revision of its own, from an older one.
RevisionInv ==
  /\ host.config <= minted
  /\ \A m \in Manager : manager[m].stage # "idle" =>
       /\ manager[m].from < manager[m].to
       /\ manager[m].to <= minted

\* What an applied plan was drawn from.
PlanInv ==
  \A m \in Manager : Holding(m) =>
    /\ manager[m].before.config = manager[m].from
    /\ manager[m].before.locator = manager[m].seen
    /\ manager[m].seen.revision = manager[m].from
    /\ manager[m].stage \in Steps \ {"applying"} => manager[m].attempted

\* How far the host has come when the transaction p reaches its stage.
Reached(p) ==
  /\ p.stage \in {"applying", "config"} =>
       host = p.before /\ host.locator.release = current
  /\ p.stage \in {"env", "application", "verifying", "health", "locator", "acceptance",
                  "succeeded"} => host.config = p.to
  /\ p.stage \in {"application", "verifying", "health", "locator", "acceptance",
                  "succeeded"} => host.env = p.to
  /\ p.stage \in {"verifying", "health", "locator", "acceptance", "succeeded"} =>
       host.app = p.to
  /\ p.stage \in {"acceptance", "succeeded"} => host.locator.revision = p.to
  /\ p.stage = "failing" /\ NothingDone(p) => host = p.before
  /\ p.stage = "apply_failed" => host = p.before
  /\ p.stage \in {"env_back", "application_back", "health_back", "locator_back",
                  "acceptance_back", "rolled_back"} => host.config = p.from
  /\ p.stage \in {"application_back", "health_back", "locator_back", "acceptance_back",
                  "rolled_back"} => host.env = p.from
  /\ p.stage \in {"health_back", "locator_back", "acceptance_back", "rolled_back"} =>
       host.app = p.from
  /\ p.stage \in {"acceptance_back", "rolled_back"} => host.locator.revision = p.from
  /\ p.stage = "returning" =>
       /\ p.outcome = "APPLIED" => Uniform(p.to)
       /\ p.outcome = "CONFIG_APPLY_FAILED" => host = p.before \/ Uniform(p.from)

ReachedInv == \A m \in Manager : Holding(m) => Reached(manager[m])

IInv == ConfigTypeOK /\ LockInv /\ RevisionInv /\ PlanInv /\ ReachedInv

\* What the records say of a host that nobody works on.
Open(op) == journal[op] \in {"APPLYING", "VERIFYING", "ROLLING_BACK", "RECOVERY_REQUIRED"}

Excused(h, own) ==
  \/ barrier \/ h.app = Down
  \/ h.env = h.config /\ h.app = h.config /\ h.locator.revision = h.config
  \/ \E op \in 1..MaxRevision \ own : Open(op)

\* What the record of the transaction p is when it reaches its stage.
Recorded(p) ==
  /\ p.stage = "applying" => journal[p.to] = "PLANNED"
  /\ p.stage \in {"config", "env", "application", "verifying"} => journal[p.to] = "APPLYING"
  /\ p.stage \in {"health", "locator", "acceptance", "succeeded"} =>
       journal[p.to] = "VERIFYING"
  /\ p.stage \in BackwardSteps \ {"rolling_back"} => journal[p.to] = "ROLLING_BACK"
  /\ p.stage \in {"failing", "rolling_back"} =>
       \/ Open(p.to)
       \/ journal[p.to] = "PLANNED" /\ host = p.before
       \/ journal[p.to] = "SUCCEEDED" /\ Uniform(p.to)
  /\ p.stage \in {"recovering", "returning"} =>
       \/ Open(p.to) \/ host = p.before
       \/ Uniform(p.to) \/ Uniform(p.from)

RecordInv ==
  /\ \A m \in Manager : manager[m].stage = "planned" => journal[manager[m].to] = "none"
  /\ \A op \in 1..MaxRevision : op > minted => journal[op] = "none"
  /\ \A m, n \in Manager : manager[m].stage # "idle" /\ manager[n].stage # "idle"
       /\ manager[m].to = manager[n].to => m = n
  /\ \A m \in Manager : Holding(m) =>
       Recorded(manager[m]) /\ Excused(manager[m].before, {manager[m].to})
  /\ lock = Nobody => Excused(host, {})
  /\ lock = "agent" => ~barrier /\ host.env = host.config
                        /\ host.locator.revision = host.config
  /\ agent = "publishing" => host.app = host.config

Inv == IInv /\ RecordInv

-----------------------------------------------------------------------------
(* The order of the steps.                                                    *)

\* The steps by name.
LEMMA StepNames == Range(Forward) = ForwardSteps /\ Range(Backward) = BackwardSteps
<1>1. DOMAIN Forward = 1..9 /\ DOMAIN Backward = 1..8
  BY DEF Forward, Backward
<1>2. Range(Forward) = ForwardSteps
  <2>1. ForwardSteps \subseteq Range(Forward)
    BY <1>1 DEF Forward, ForwardSteps, Range
  <2>2. ASSUME NEW i \in 1..9 PROVE Forward[i] \in ForwardSteps
    BY DEF Forward, ForwardSteps
  <2> QED BY <1>1, <2>1, <2>2 DEF Range
<1>3. Range(Backward) = BackwardSteps
  <2>1. BackwardSteps \subseteq Range(Backward)
    BY <1>1 DEF Backward, BackwardSteps, Range
  <2>2. ASSUME NEW i \in 1..8 PROVE Backward[i] \in BackwardSteps
    BY DEF Backward, BackwardSteps
  <2> QED BY <1>1, <2>1, <2>2 DEF Range
<1> QED BY <1>2, <1>3

\* Which step follows which.
LEMMA Successors ==
  /\ Successor("applying") = "config" /\ Successor("config") = "env"
  /\ Successor("env") = "application" /\ Successor("application") = "verifying"
  /\ Successor("verifying") = "health" /\ Successor("health") = "locator"
  /\ Successor("locator") = "acceptance" /\ Successor("acceptance") = "succeeded"
  /\ Successor("succeeded") = "returning" /\ Successor("rolled_back") = "returning"
  /\ Successor("rolling_back") = "config_back" /\ Successor("config_back") = "env_back"
  /\ Successor("env_back") = "application_back"
  /\ Successor("application_back") = "health_back"
  /\ Successor("health_back") = "locator_back"
  /\ Successor("locator_back") = "acceptance_back"
  /\ Successor("acceptance_back") = "rolled_back"
<1>1. ASSUME NEW i \in 1..8 PROVE After(Forward, Forward[i]) = Forward[1 + i]
  <2>1. DOMAIN Forward = 1..9
    BY DEF Forward
  <2>2. (CHOOSE j \in DOMAIN Forward : Forward[j] = Forward[i]) = i
    BY <2>1 DEF Forward
  <2> QED BY <2>2 DEF After
<1>2. ASSUME NEW i \in 1..7 PROVE After(Backward, Backward[i]) = Backward[1 + i]
  <2>1. DOMAIN Backward = 1..8
    BY DEF Backward
  <2>2. (CHOOSE j \in DOMAIN Backward : Backward[j] = Backward[i]) = i
    BY <2>1 DEF Backward
  <2> QED BY <2>2 DEF After
<1>3. /\ After(Forward, "applying") = "config" /\ After(Forward, "config") = "env"
      /\ After(Forward, "env") = "application" /\ After(Forward, "application") = "verifying"
      /\ After(Forward, "verifying") = "health" /\ After(Forward, "health") = "locator"
      /\ After(Forward, "locator") = "acceptance" /\ After(Forward, "acceptance") = "succeeded"
  BY <1>1 DEF Forward
<1>4. /\ After(Backward, "rolling_back") = "config_back"
      /\ After(Backward, "config_back") = "env_back"
      /\ After(Backward, "env_back") = "application_back"
      /\ After(Backward, "application_back") = "health_back"
      /\ After(Backward, "health_back") = "locator_back"
      /\ After(Backward, "locator_back") = "acceptance_back"
      /\ After(Backward, "acceptance_back") = "rolled_back"
  BY <1>2 DEF Backward
<1>5. ASSUME NEW s \in ForwardSteps \ {"succeeded"} PROVE Successor(s) = After(Forward, s)
  BY <1>5, StepNames DEF Successor, ForwardSteps
<1>6. ASSUME NEW s \in BackwardSteps \ {"rolled_back"} PROVE Successor(s) = After(Backward, s)
  <2>1. s \notin {"succeeded", "rolled_back"}
    BY <1>6 DEF BackwardSteps
  <2>2. s \notin Range(Forward)
    BY <1>6, StepNames DEF ForwardSteps, BackwardSteps
  <2>3. s # "succeeded" /\ s # "rolled_back"
    BY <2>1
  <2> QED BY <2>2, <2>3 DEF Successor
<1>7. Successor("succeeded") = "returning" /\ Successor("rolled_back") = "returning"
  BY StepNames DEF Successor, ForwardSteps
<1>8. /\ Successor("applying") = "config" /\ Successor("config") = "env"
      /\ Successor("env") = "application" /\ Successor("application") = "verifying"
      /\ Successor("verifying") = "health" /\ Successor("health") = "locator"
      /\ Successor("locator") = "acceptance" /\ Successor("acceptance") = "succeeded"
  BY <1>3, <1>5 DEF ForwardSteps
<1>9. /\ Successor("rolling_back") = "config_back" /\ Successor("config_back") = "env_back"
      /\ Successor("env_back") = "application_back"
      /\ Successor("application_back") = "health_back"
      /\ Successor("health_back") = "locator_back"
      /\ Successor("locator_back") = "acceptance_back"
      /\ Successor("acceptance_back") = "rolled_back"
  BY <1>4, <1>6 DEF BackwardSteps
<1> QED BY <1>7, <1>8, <1>9

\* What each step writes.
LEMMA Effects ==
  ASSUME NEW p
  PROVE  /\ Effect("config", p) = [host EXCEPT !.config = p.to]
         /\ Effect("env", p) = [host EXCEPT !.env = p.to]
         /\ Effect("application", p) = [host EXCEPT !.app = p.to]
         /\ Effect("locator", p) = [host EXCEPT !.locator = NewLocator(p)]
         /\ Effect("config_back", p) = [host EXCEPT !.config = p.from]
         /\ Effect("env_back", p) = [host EXCEPT !.env = p.from]
         /\ Effect("application_back", p) = [host EXCEPT !.app = p.from]
         /\ Effect("locator_back", p) = [host EXCEPT !.locator = OldLocator(p)]
         /\ \A s \in {"applying", "verifying", "health", "acceptance", "succeeded",
                      "rolling_back", "health_back", "acceptance_back", "rolled_back"} :
              Effect(s, p) = host
BY DEF Effect

-----------------------------------------------------------------------------
(* Types, the lock and the revisions.                                         *)

Transaction ==
  [stage : Steps \cup {"idle", "planned", "failing", "apply_failed", "recovering", "returning"},
   from : Revision, to : Revision, seen : Locator, before : Host, attempted : BOOLEAN,
   outcome : Outcome]

\* The initial state satisfies the invariant.
LEMMA InitInv == ConfigInit => Inv
<1> SUFFICES ASSUME ConfigInit PROVE Inv
  OBVIOUS
<1> USE DEF ConfigInit
<1>1. Origin \in Host /\ Idle \in Transaction
  BY ConfigurationAssumption
     DEF Origin, Host, Locator, Revision, Idle, Transaction, Outcome
<1>2. ConfigTypeOK
  <2>1. host \in Host /\ manager \in [Manager -> Transaction]
    BY <1>1
  <2>2. "none" \in DOMAIN Transitions
    BY DEF Transitions
  <2>3. journal \in [1..MaxRevision -> DOMAIN Transitions]
    BY <2>2
  <2>4. /\ current \in 0..MaxRelease /\ minted \in Revision /\ budget \in 0..MaxFaults
    BY ConfigurationAssumption DEF Revision
  <2>5. lock \in Manager \cup Guest \cup {Nobody, "agent"}
    OBVIOUS
  <2>6. agent \in {"idle", "switching", "publishing"} /\ barrier \in BOOLEAN
    OBVIOUS
  <2> QED BY <2>1, <2>3, <2>4, <2>5, <2>6 DEF ConfigTypeOK, Transaction
<1>3. LockInv /\ PlanInv /\ ReachedInv
  BY ConfigurationAssumption DEF LockInv, Holding, PlanInv, ReachedInv, Idle
<1>4. RevisionInv
  BY DEF RevisionInv, Idle, Origin
<1>5. RecordInv
  BY ConfigurationAssumption DEF RecordInv, Holding, Idle, Excused, Origin
<1> QED BY <1>2, <1>3, <1>4, <1>5 DEF Inv, IInv

\* Who has the lock works alone.
LEMMA Alone ==
  ASSUME LockInv, NEW m \in Manager, Holding(m)
  PROVE  lock = m /\ agent = "idle" /\ \A n \in Manager \ {m} : ~Holding(n)
BY ConfigurationAssumption DEF LockInv

\* The step after a step, or after its failure.
LEMMA NextStage ==
  ASSUME NEW s \in Steps
  PROVE  /\ Successor(s) \in (Steps \ {"applying", "rolling_back"}) \cup {"returning"}
         /\ OnError(s) \in {"failing", "recovering"}
         /\ Result(s) \in Outcome
<1>1. s \in ForwardSteps \cup BackwardSteps
  BY StepNames DEF Steps
<1>2. Successor(s) \in (Steps \ {"applying", "rolling_back"}) \cup {"returning"}
  BY <1>1, Successors, StepNames DEF Steps, ForwardSteps, BackwardSteps
<1>3. OnError(s) \in {"failing", "recovering"} /\ Result(s) \in Outcome
  BY DEF OnError, Result, Outcome
<1> QED BY <1>2, <1>3

\* A step writes one field of the host.
LEMMA EffectFields ==
  ASSUME host \in Host, NEW p \in Transaction, NEW s \in Steps
  PROVE  LET h == Effect(s, p) IN
         /\ h \in Host
         /\ s = "config" => h.config = p.to
         /\ s = "config_back" => h.config = p.from
         /\ s \notin {"config", "config_back"} => h.config = host.config
         /\ s = "env" => h.env = p.to
         /\ s = "env_back" => h.env = p.from
         /\ s \notin {"env", "env_back"} => h.env = host.env
         /\ s = "application" => h.app = p.to
         /\ s = "application_back" => h.app = p.from
         /\ s \notin {"application", "application_back"} => h.app = host.app
         /\ s = "locator" => h.locator = NewLocator(p)
         /\ s = "locator_back" => h.locator = OldLocator(p)
         /\ s \notin {"locator", "locator_back"} => h.locator = host.locator
<1> DEFINE h == Effect(s, p)
<1>1. s \in ForwardSteps \cup BackwardSteps
  BY StepNames DEF Steps
<1>2. /\ p.from \in Revision /\ p.to \in Revision
      /\ NewLocator(p) \in Locator /\ OldLocator(p) \in Locator
  BY DEF Transaction, NewLocator, OldLocator, Host, Locator
<1>3. ASSUME NEW r \in Revision, NEW l \in Locator
      PROVE  /\ [host EXCEPT !.config = r] =
                  [config |-> r, env |-> host.env, app |-> host.app, locator |-> host.locator]
             /\ [host EXCEPT !.env = r] =
                  [config |-> host.config, env |-> r, app |-> host.app, locator |-> host.locator]
             /\ [host EXCEPT !.app = r] =
                  [config |-> host.config, env |-> host.env, app |-> r, locator |-> host.locator]
             /\ [host EXCEPT !.locator = l] =
                  [config |-> host.config, env |-> host.env, app |-> host.app, locator |-> l]
  BY DEF Host
<1>4. CASE s = "config"
  <2>1. h = [config |-> p.to, env |-> host.env, app |-> host.app, locator |-> host.locator]
    BY <1>2, <1>3, <1>4, Effects, Zenon
  <2> QED BY <1>2, <1>4, <2>1 DEF Host
<1>5. CASE s = "config_back"
  <2>1. h = [config |-> p.from, env |-> host.env, app |-> host.app, locator |-> host.locator]
    BY <1>2, <1>3, <1>5, Effects, Zenon
  <2> QED BY <1>2, <1>5, <2>1 DEF Host
<1>6. CASE s = "env"
  <2>1. h = [config |-> host.config, env |-> p.to, app |-> host.app, locator |-> host.locator]
    BY <1>2, <1>3, <1>6, Effects, Zenon
  <2> QED BY <1>2, <1>6, <2>1 DEF Host
<1>7. CASE s = "env_back"
  <2>1. h = [config |-> host.config, env |-> p.from, app |-> host.app, locator |-> host.locator]
    BY <1>2, <1>3, <1>7, Effects, Zenon
  <2> QED BY <1>2, <1>7, <2>1 DEF Host
<1>8. CASE s = "application"
  <2>1. h = [config |-> host.config, env |-> host.env, app |-> p.to, locator |-> host.locator]
    BY <1>2, <1>3, <1>8, Effects, Zenon
  <2> QED BY <1>2, <1>8, <2>1 DEF Host
<1>9. CASE s = "application_back"
  <2>1. h = [config |-> host.config, env |-> host.env, app |-> p.from, locator |-> host.locator]
    BY <1>2, <1>3, <1>9, Effects, Zenon
  <2> QED BY <1>2, <1>9, <2>1 DEF Host
<1>10. CASE s = "locator"
  <2>1. h = [config |-> host.config, env |-> host.env, app |-> host.app, locator |-> NewLocator(p)]
    BY <1>2, <1>3, <1>10, Effects, Zenon
  <2> QED BY <1>2, <1>10, <2>1 DEF Host
<1>11. CASE s = "locator_back"
  <2>1. h = [config |-> host.config, env |-> host.env, app |-> host.app, locator |-> OldLocator(p)]
    BY <1>2, <1>3, <1>11, Effects, Zenon
  <2> QED BY <1>2, <1>11, <2>1 DEF Host
<1>12. CASE s \notin {"config", "config_back", "env", "env_back", "application",
                      "application_back", "locator", "locator_back"}
  <2>1. h = host
    BY <1>1, <1>12, Effects DEF ForwardSteps, BackwardSteps
  <2> QED BY <1>12, <2>1
<1> QED BY <1>4, <1>5, <1>6, <1>7, <1>8, <1>9, <1>10, <1>11, <1>12

\* What a failed step may leave.
LEMMA EffectType ==
  ASSUME host \in Host, NEW p \in Transaction, NEW s \in Steps
  PROVE  /\ AfterFailure(s, p) \subseteq Host /\ Effect(s, p) \in AfterFailure(s, p)
         /\ \A h \in AfterFailure(s, p) :
              /\ h.config \in {host.config, p.from, p.to}
              /\ s \notin {"config", "config_back"} => h.config = host.config
<1>1. /\ Effect(s, p) \in Host /\ Effect(s, p).config \in {host.config, p.from, p.to}
      /\ s \notin {"config", "config_back"} => Effect(s, p).config = host.config
  BY EffectFields
<1>2. [host EXCEPT !.app = Down] \in Host /\ [host EXCEPT !.app = Down].config = host.config
  BY DEF Host
<1> QED BY <1>1, <1>2 DEF AfterFailure

\* What Do does to the transaction and to its host.
LEMMA DoShape ==
  ASSUME IInv, NEW m \in Manager, Do(m)
  PROVE  /\ manager[m] \in Transaction /\ manager[m].stage \in Steps
         /\ Holding(m) /\ Reached(manager[m])
         /\ host' \in AfterFailure(manager[m].stage, manager[m])
         /\ journal' \in {journal, Written(manager[m].stage, manager[m])}
         /\ \/ /\ manager' = [manager EXCEPT ![m].stage = Successor(manager[m].stage),
                    ![m].outcome = Result(manager[m].stage), ![m].attempted = TRUE]
               /\ Permitted(manager[m].stage, manager[m])
               /\ host' = Effect(manager[m].stage, manager[m])
               /\ journal' = Written(manager[m].stage, manager[m])
            \/ manager' = [manager EXCEPT ![m].stage = OnError(manager[m].stage)]
         /\ UNCHANGED <<minted, lock, agentVars>> /\ budget' \in 0..MaxFaults
<1>1. manager[m] \in Transaction /\ manager[m].stage \in Steps
  BY DEF IInv, ConfigTypeOK, Transaction, Do
<1>2. Holding(m)
  BY <1>1, StepNames DEF Holding, Steps, ForwardSteps, BackwardSteps
<1>3. host \in AfterFailure(manager[m].stage, manager[m])
  BY DEF AfterFailure
<1>4. Effect(manager[m].stage, manager[m]) \in AfterFailure(manager[m].stage, manager[m])
  BY DEF AfterFailure
<1>5. budget' \in 0..MaxFaults
  BY ConfigurationAssumption DEF Do, Fault, IInv, ConfigTypeOK
<1> QED BY <1>1, <1>2, <1>3, <1>4, <1>5 DEF Do, IInv, ReachedInv

\* Do keeps types, the lock, the revisions and what the plan was drawn from.
LEMMA DoFrame ==
  ASSUME IInv, NEW m \in Manager, Do(m)
  PROVE  ConfigTypeOK' /\ LockInv' /\ RevisionInv' /\ PlanInv'
<1> DEFINE p == manager[m]
           q == manager'[m]
<1>1. /\ p \in Transaction /\ p.stage \in Steps /\ Holding(m)
      /\ host' \in AfterFailure(p.stage, p)
      /\ journal' \in {journal, Written(p.stage, p)}
      /\ UNCHANGED <<minted, lock, agentVars>> /\ budget' \in 0..MaxFaults
  BY DoShape
<1>2. /\ q = [p EXCEPT !.stage = Successor(p.stage), !.outcome = Result(p.stage),
                       !.attempted = TRUE]
         \/ q = [p EXCEPT !.stage = OnError(p.stage)]
      /\ manager' = [manager EXCEPT ![m] = q]
  BY DoShape DEF IInv, ConfigTypeOK
<1>3. q \in Transaction
  <2>1. CASE q = [p EXCEPT !.stage = OnError(p.stage)]
    BY <1>1, <2>1, NextStage DEF Transaction
  <2>2. CASE q = [p EXCEPT !.stage = Successor(p.stage), !.outcome = Result(p.stage),
                           !.attempted = TRUE]
    BY <1>1, <2>2, NextStage DEF Transaction
  <2> QED BY <1>2, <2>1, <2>2
<1>4. /\ q.stage \in (Steps \ {"applying", "rolling_back"})
                      \cup {"failing", "recovering", "returning"}
      /\ q.from = p.from /\ q.to = p.to /\ q.seen = p.seen /\ q.before = p.before
      /\ q.stage \in Steps => q.attempted
  <2>1. CASE q = [p EXCEPT !.stage = OnError(p.stage)]
    BY <1>1, <2>1, NextStage, StepNames
       DEF Transaction, Steps, ForwardSteps, BackwardSteps
  <2>2. CASE q = [p EXCEPT !.stage = Successor(p.stage), !.outcome = Result(p.stage),
                           !.attempted = TRUE]
    BY <1>1, <2>2, NextStage DEF Transaction
  <2> QED BY <1>2, <2>1, <2>2
<1>5. q.stage \notin {"idle", "planned"}
  BY <1>4, StepNames DEF Steps, ForwardSteps, BackwardSteps
<1>6. host' \in Host /\ host'.config \in {host.config, p.from, p.to}
  BY <1>1, EffectType DEF IInv, ConfigTypeOK
<1>7. ConfigTypeOK'
  <2>1. Written(p.stage, p) \in [1..MaxRevision -> DOMAIN Transitions]
    <3>1. \A r \in {"APPLYING", "VERIFYING", "SUCCEEDED", "ROLLING_BACK", "ROLLED_BACK"} :
            r \in DOMAIN Transitions
      BY DEF Transitions
    <3>2. p.stage \in DOMAIN JournalSteps => JournalSteps[p.stage] \in
            {"APPLYING", "VERIFYING", "SUCCEEDED", "ROLLING_BACK", "ROLLED_BACK"}
      BY DEF JournalSteps
    <3> QED BY <3>1, <3>2 DEF Written, IInv, ConfigTypeOK
  <2>2. manager' \in [Manager -> Transaction]
    BY <1>2, <1>3 DEF IInv, ConfigTypeOK, Transaction
  <2> QED BY <1>1, <1>6, <2>1, <2>2 DEF IInv, ConfigTypeOK, Transaction, agentVars
<1>8. LockInv'
  BY <1>1, <1>2, <1>5 DEF LockInv, Holding, IInv, ConfigTypeOK, agentVars
<1>9. RevisionInv'
  <2>1. p.from < p.to /\ p.to <= minted /\ p.from \in Nat /\ p.to \in Nat /\ minted \in Nat
    BY <1>1, ConfigurationAssumption
       DEF IInv, RevisionInv, Holding, Transaction, Revision, ConfigTypeOK
  <2> QED BY <1>1, <1>2, <1>4, <1>6, <2>1 DEF IInv, RevisionInv, ConfigTypeOK
<1>10. PlanInv'
  BY <1>1, <1>2, <1>4 DEF IInv, PlanInv, Holding, ConfigTypeOK
<1> QED BY <1>7, <1>8, <1>9, <1>10

\* Do brings the host where the next stage expects it.
LEMMA DoReached ==
  ASSUME IInv, NEW m \in Manager, Do(m)
  PROVE  ReachedInv'
<1> DEFINE p == manager[m]
           q == manager'[m]
<1>1. /\ p \in Transaction /\ p.stage \in Steps /\ Holding(m) /\ Reached(p)
      /\ host' \in AfterFailure(p.stage, p) /\ UNCHANGED lock
      /\ host \in Host /\ host' \in Host
  BY DoShape, EffectType DEF IInv, ConfigTypeOK
<1>2. /\ p.before.config = p.from /\ p.before.locator = p.seen /\ p.seen.revision = p.from
      /\ p.from < p.to /\ p.from \in Nat /\ p.to \in Nat
  BY <1>1, ConfigurationAssumption
     DEF IInv, PlanInv, RevisionInv, Holding, Transaction, Revision
<1>3. SUFFICES Reached(p)'
  BY <1>1, Alone DEF ReachedInv, IInv, Holding, ConfigTypeOK, Do
<1>4. CASE /\ manager' = [manager EXCEPT ![m].stage = Successor(p.stage),
                           ![m].outcome = Result(p.stage), ![m].attempted = TRUE]
           /\ Permitted(p.stage, p) /\ host' = Effect(p.stage, p)
  <2>1. q = [p EXCEPT !.stage = Successor(p.stage), !.outcome = Result(p.stage),
                      !.attempted = TRUE]
    BY <1>4 DEF IInv, ConfigTypeOK
  <2>2. /\ q.from = p.from /\ q.to = p.to /\ q.before = p.before
        /\ q.stage = Successor(p.stage) /\ q.outcome = Result(p.stage)
    BY <1>1, <2>1 DEF Transaction
  <2>20. /\ p.stage = "config" => host'.config = p.to
         /\ p.stage = "config_back" => host'.config = p.from
         /\ p.stage \notin {"config", "config_back"} => host'.config = host.config
         /\ p.stage = "env" => host'.env = p.to
         /\ p.stage = "env_back" => host'.env = p.from
         /\ p.stage \notin {"env", "env_back"} => host'.env = host.env
         /\ p.stage = "application" => host'.app = p.to
         /\ p.stage = "application_back" => host'.app = p.from
         /\ p.stage \notin {"application", "application_back"} => host'.app = host.app
         /\ p.stage = "locator" => host'.locator = NewLocator(p)
         /\ p.stage = "locator_back" => host'.locator = OldLocator(p)
         /\ p.stage \notin {"locator", "locator_back"} => host'.locator = host.locator
    BY <1>1, <1>4, EffectFields
  <2>3. CASE p.stage = "applying"
    <3>1. host' = host /\ current' = current
      BY <1>4, <2>3, Effects, DoShape DEF agentVars
    <3> QED BY <1>1, <2>2, <2>3, <3>1, Successors DEF Reached
  <2>4. CASE p.stage = "config"
    BY <1>1, <1>4, <2>2, <2>4, Successors, <2>20 DEF Reached, Host
  <2>5. CASE p.stage = "env"
    BY <1>1, <1>4, <2>2, <2>5, Successors, <2>20 DEF Reached, Host
  <2>6. CASE p.stage = "application"
    BY <1>1, <1>4, <2>2, <2>6, Successors, <2>20 DEF Reached, Host
  <2>7. CASE p.stage = "verifying"
    BY <1>1, <1>4, <2>2, <2>7, Successors, <2>20 DEF Reached
  <2>8. CASE p.stage = "health"
    BY <1>1, <1>4, <2>2, <2>8, Successors, <2>20 DEF Reached
  <2>9. CASE p.stage = "locator"
    BY <1>1, <1>4, <2>2, <2>9, Successors, <2>20
       DEF Reached, Host, NewLocator, Locator, Transaction
  <2>10. CASE p.stage = "acceptance"
    BY <1>1, <1>4, <2>2, <2>10, Successors, <2>20 DEF Reached
  <2>11. CASE p.stage = "succeeded"
    <3>1. Uniform(p.to)'
      BY <1>1, <1>4, <2>2, <2>11, <2>20 DEF Reached, Uniform
    <3>2. q.stage = "returning" /\ q.outcome = "APPLIED"
      BY <2>2, <2>11, Successors DEF Result
    <3> QED BY <2>2, <3>1, <3>2 DEF Reached, Uniform
  <2>12. CASE p.stage = "rolling_back"
    BY <1>1, <1>4, <2>2, <2>12, Successors, <2>20 DEF Reached
  <2>13. CASE p.stage = "config_back"
    BY <1>1, <1>4, <2>2, <2>13, Successors, <2>20 DEF Reached, Host
  <2>14. CASE p.stage = "env_back"
    BY <1>1, <1>4, <2>2, <2>14, Successors, <2>20 DEF Reached, Host
  <2>15. CASE p.stage = "application_back"
    BY <1>1, <1>4, <2>2, <2>15, Successors, <2>20 DEF Reached, Host
  <2>16. CASE p.stage = "health_back"
    BY <1>1, <1>4, <2>2, <2>16, Successors, <2>20 DEF Reached
  <2>17. CASE p.stage = "locator_back"
    BY <1>1, <1>2, <1>4, <2>2, <2>17, Successors, <2>20 DEF Reached, Host, OldLocator
  <2>18. CASE p.stage = "acceptance_back"
    BY <1>1, <1>4, <2>2, <2>18, Successors, <2>20 DEF Reached
  <2>19. CASE p.stage = "rolled_back"
    <3>1. Uniform(p.from)'
      BY <1>1, <1>4, <2>2, <2>19, <2>20 DEF Reached, Uniform
    <3>2. q.stage = "returning" /\ q.outcome = "CONFIG_APPLY_FAILED"
      BY <2>2, <2>19, Successors DEF Result
    <3> QED BY <2>2, <3>1, <3>2 DEF Reached, Uniform
  <2> QED
    BY <1>1, <2>3, <2>4, <2>5, <2>6, <2>7, <2>8, <2>9, <2>10, <2>11, <2>12, <2>13, <2>14,
       <2>15, <2>16, <2>17, <2>18, <2>19, StepNames DEF Steps, ForwardSteps, BackwardSteps
<1>5. CASE manager' = [manager EXCEPT ![m].stage = OnError(p.stage)]
  <2>1. q = [p EXCEPT !.stage = OnError(p.stage)]
    BY <1>5 DEF IInv, ConfigTypeOK
  <2>2. /\ q.from = p.from /\ q.before = p.before /\ q.attempted = p.attempted
        /\ q.stage = OnError(p.stage)
    BY <1>1, <2>1 DEF Transaction
  <2>3. CASE p.stage \in BackwardSteps
    <3>1. q.stage = "recovering"
      BY <2>2, <2>3, StepNames DEF OnError, ForwardSteps, BackwardSteps
    <3> QED BY <3>1 DEF Reached
  <2>4. CASE p.stage \in ForwardSteps
    <3>1. q.stage = "failing"
      BY <2>2, <2>4, StepNames DEF OnError
    <3>2. p.stage # "applying" => p.attempted
      BY <1>1 DEF IInv, PlanInv
    <3>3. CASE p.stage = "applying"
      <4>1. host' = host
        BY <1>1, <3>3, Effects DEF AfterFailure
      <4> QED BY <1>1, <2>2, <3>1, <3>3, <4>1 DEF Reached
    <3>4. CASE p.stage = "config"
      <4>1. host' = host \/ host'.config = p.to
        BY <1>1, <3>4, EffectFields DEF AfterFailure
      <4> QED BY <1>1, <1>2, <2>2, <3>1, <3>2, <3>4, <4>1 DEF Reached, NothingDone
    <3>5. CASE p.stage \notin {"applying", "config"}
      <4>1. host'.config = host.config /\ host.config = p.to
        <5>1. p.stage \notin {"config", "config_back"}
          BY <2>4, <3>5 DEF ForwardSteps
        <5>2. host.config = p.to
          BY <1>1, <2>4, <3>5 DEF ForwardSteps, Reached
        <5> QED BY <1>1, <5>1, <5>2, EffectType
      <4> QED BY <1>2, <2>2, <3>1, <3>2, <3>5, <4>1 DEF Reached, NothingDone
    <3> QED BY <3>3, <3>4, <3>5
  <2> QED BY <1>1, <2>3, <2>4, StepNames DEF Steps
<1> QED BY <1>4, <1>5, DoShape

\* The error handlers, the reported results and the end of a command.
LEMMA HandlerStepInv ==
  ASSUME IInv, NEW m \in Manager,
         Classify(m) \/ MarkApplyFailed(m) \/ MarkRecoveryRequired(m)
  PROVE  IInv'
<1> DEFINE p == manager[m]
           q == manager'[m]
<1>1. p \in Transaction /\ p.stage \in {"failing", "apply_failed", "recovering"}
  BY DEF IInv, ConfigTypeOK, Transaction, Classify, MarkApplyFailed, MarkRecoveryRequired,
         Conclude
<1>2. Holding(m) /\ Reached(p)
  BY <1>1 DEF IInv, ReachedInv, Holding
<1>3. UNCHANGED <<host, minted, lock, agentVars>> /\ budget' \in 0..MaxFaults
  BY ConfigurationAssumption
     DEF Classify, MarkApplyFailed, MarkRecoveryRequired, Conclude, Fault, IInv, ConfigTypeOK
<1>4. journal' \in [1..MaxRevision -> DOMAIN Transitions]
  BY DEF Classify, MarkApplyFailed, MarkRecoveryRequired, Conclude, IInv, ConfigTypeOK,
         Transitions
<1>5. /\ manager' = [manager EXCEPT ![m] = q]
      /\ \/ q = [p EXCEPT !.stage = "rolling_back"] /\ p.attempted
         \/ /\ q = [p EXCEPT !.stage = "apply_failed"]
            /\ p.stage = "failing" /\ NothingDone(p)
         \/ /\ q = [p EXCEPT !.stage = "returning", !.outcome = "CONFIG_APPLY_FAILED"]
            /\ p.stage = "apply_failed"
         \/ q = [p EXCEPT !.stage = "returning", !.outcome = "RECOVERY_REQUIRED"]
  BY DEF Classify, MarkApplyFailed, MarkRecoveryRequired, Conclude, IInv, ConfigTypeOK,
         NothingDone
<1>6. /\ q \in Transaction /\ q.stage \in {"rolling_back", "apply_failed", "returning"}
      /\ q.from = p.from /\ q.to = p.to /\ q.seen = p.seen /\ q.before = p.before
      /\ q.stage = "rolling_back" => q.attempted
      /\ q.stage = "apply_failed" => p.stage = "failing" /\ NothingDone(p)
      /\ q.stage = "returning" /\ q.outcome # "RECOVERY_REQUIRED" =>
           q.outcome = "CONFIG_APPLY_FAILED" /\ p.stage = "apply_failed"
  <2>1. "rolling_back" \in Steps
    BY StepNames DEF Steps, BackwardSteps
  <2>2. CASE q = [p EXCEPT !.stage = "rolling_back"] /\ p.attempted
    BY <1>1, <2>1, <2>2 DEF Transaction
  <2>3. CASE q = [p EXCEPT !.stage = "apply_failed"] /\ p.stage = "failing" /\ NothingDone(p)
    BY <1>1, <2>3 DEF Transaction
  <2>4. CASE \E o \in Outcome : q = [p EXCEPT !.stage = "returning", !.outcome = o]
    BY <1>1, <1>5, <2>4 DEF Transaction
  <2> QED BY <1>5, <2>2, <2>3, <2>4 DEF Outcome
<1>7. ConfigTypeOK'
  BY <1>3, <1>4, <1>5, <1>6 DEF IInv, ConfigTypeOK, Transaction, agentVars
<1>8. LockInv'
  BY <1>2, <1>3, <1>5, <1>6 DEF LockInv, Holding, IInv, ConfigTypeOK, agentVars
<1>9. RevisionInv'
  BY <1>1, <1>3, <1>5, <1>6 DEF RevisionInv, IInv, ConfigTypeOK
<1>10. PlanInv'
  <2>1. "rolling_back" \in Steps /\ "apply_failed" \notin Steps /\ "returning" \notin Steps
    BY StepNames DEF Steps, ForwardSteps, BackwardSteps
  <2> QED BY <1>2, <1>3, <1>5, <1>6, <2>1 DEF PlanInv, Holding, IInv, ConfigTypeOK
<1>11. ReachedInv'
  <2>1. Reached(p)'
    BY <1>2, <1>3, <1>6 DEF Reached, Uniform, agentVars
  <2> QED BY <1>2, <1>3, <1>5, <2>1, Alone DEF ReachedInv, IInv, Holding, ConfigTypeOK
<1> QED BY <1>7, <1>8, <1>9, <1>10, <1>11 DEF IInv

\* A command that returns or is killed leaves no transaction behind.
LEMMA EndStepInv ==
  ASSUME IInv, NEW m \in Manager, Return(m) \/ Kill(m)
  PROVE  IInv'
<1>1. lock = m /\ lock' = Nobody /\ manager' = [manager EXCEPT ![m] = Idle] /\ Holding(m)
  BY DEF Return, Kill, IInv, LockInv, Holding
<1>2. UNCHANGED <<minted, journal, agentVars>> /\ budget' \in 0..MaxFaults
  BY ConfigurationAssumption DEF Return, Kill, Fault, IInv, ConfigTypeOK
<1>3. host' \in Host /\ host'.config \in {host.config, manager[m].from, manager[m].to}
  <2>1. manager[m] \in Transaction
    BY DEF IInv, ConfigTypeOK, Transaction
  <2>2. \A s \in {"application", "application_back"} : s \in Steps
    BY StepNames DEF Steps, ForwardSteps, BackwardSteps
  <2> QED BY <2>1, <2>2, EffectType DEF Return, Kill, IInv, ConfigTypeOK
<1>4. Idle \in Transaction /\ Idle.stage = "idle"
  BY ConfigurationAssumption
     DEF Origin, Host, Locator, Revision, Idle, Transaction, Outcome
<1>5. ConfigTypeOK'
  BY <1>1, <1>2, <1>3, <1>4 DEF IInv, ConfigTypeOK, Transaction, agentVars
<1>6. LockInv'
  BY <1>1, <1>2, <1>4, Alone, ConfigurationAssumption
     DEF IInv, LockInv, Holding, ConfigTypeOK, agentVars
<1>7. RevisionInv'
  <2>1. /\ manager[m].from < manager[m].to /\ manager[m].to <= minted
        /\ manager[m].from \in Nat /\ manager[m].to \in Nat /\ minted \in Nat
    BY <1>1, ConfigurationAssumption
       DEF IInv, RevisionInv, Holding, ConfigTypeOK, Revision
  <2> QED BY <1>1, <1>2, <1>3, <1>4, <2>1 DEF IInv, RevisionInv, ConfigTypeOK
<1>8. PlanInv' /\ ReachedInv'
  BY <1>1, <1>4, Alone DEF IInv, PlanInv, ReachedInv, Holding, ConfigTypeOK
<1> QED BY <1>5, <1>6, <1>7, <1>8 DEF IInv

\* A new plan and its admission.
LEMMA AdmissionStepInv ==
  ASSUME IInv, NEW m \in Manager, Validate(m) \/ Begin(m)
  PROVE  IInv'
<1> DEFINE p == manager[m]
           q == manager'[m]
<1>1. p \in Transaction /\ host \in Host /\ Origin \in Host /\ Idle \in Transaction
      /\ minted \in Nat
  BY ConfigurationAssumption
     DEF IInv, ConfigTypeOK, Transaction, Origin, Host, Locator, Revision, Idle, Outcome
<1>2. UNCHANGED <<host, agentVars>> /\ ~Holding(m) /\ budget' \in 0..MaxFaults
  BY ConfigurationAssumption
     DEF Validate, Begin, Holding, Fault, IInv, ConfigTypeOK
<1>3. "applying" \in Steps /\ Head(Forward) = "applying"
  BY StepNames DEF Steps, ForwardSteps, Forward
<1>4. CASE Validate(m)
  <2>1. /\ manager' = [manager EXCEPT ![m] = q] /\ UNCHANGED <<journal, lock>>
        /\ q = [Idle EXCEPT !.stage = "planned", !.from = host.config, !.to = minted + 1,
                            !.seen = host.locator]
        /\ minted' = minted + 1 /\ minted' \in Revision
    BY <1>1, <1>4, ConfigurationAssumption
       DEF Validate, IInv, ConfigTypeOK, Revision
  <2>2. q \in Transaction /\ q.stage = "planned" /\ q.from = host.config /\ q.to = minted'
    BY <1>1, <2>1 DEF Transaction, Host
  <2>3. ConfigTypeOK'
    <3>0. manager \in [Manager -> Transaction]
      BY DEF IInv, ConfigTypeOK, Transaction
    <3>1. manager' \in [Manager -> Transaction]
      BY <2>1, <2>2, <3>0
    <3> QED BY <1>2, <2>1, <3>1 DEF IInv, ConfigTypeOK, Transaction, agentVars
  <2>4. LockInv'
    BY <1>2, <2>1, <2>2 DEF IInv, LockInv, Holding, ConfigTypeOK, agentVars
  <2>7. \A n \in Manager \ {m} : manager'[n] = manager[n]
    BY <2>1 DEF IInv, ConfigTypeOK
  <2>5. RevisionInv'
    <3>1. ASSUME NEW n \in Manager \ {m}, manager'[n].stage # "idle"
          PROVE  manager'[n].from < manager'[n].to /\ manager'[n].to <= minted'
      <4>1. manager[n].to \in Nat
        BY ConfigurationAssumption DEF IInv, ConfigTypeOK, Revision
      <4> QED BY <1>1, <2>1, <2>7, <3>1, <4>1 DEF IInv, RevisionInv
    <3>2. host.config \in Nat /\ host.config <= minted
      BY <1>1, ConfigurationAssumption DEF Host, Revision, IInv, RevisionInv
    <3>3. q.from < q.to /\ q.to <= minted' /\ host'.config <= minted'
      BY <1>1, <1>2, <2>1, <2>2, <3>2
    <3> QED BY <3>1, <3>3 DEF RevisionInv
  <2>6. PlanInv' /\ ReachedInv'
    <3>1. ASSUME NEW n \in Manager, Holding(n)'
          PROVE  n # m /\ Holding(n)
      BY <2>2, <2>7, <3>1 DEF Holding
    <3>2. ASSUME NEW n \in Manager, Holding(n)'
          PROVE  Reached(manager[n])'
      <4>1. Reached(manager[n])
        BY <3>1, <3>2 DEF IInv, ReachedInv
      <4> QED BY <1>2, <2>7, <3>1, <3>2, <4>1 DEF Reached, Uniform, NothingDone, agentVars
    <3>3. PlanInv'
      BY <2>7, <3>1 DEF IInv, PlanInv
    <3> QED BY <3>2, <3>3 DEF ReachedInv
  <2> QED BY <2>3, <2>4, <2>5, <2>6 DEF IInv
<1>5. CASE Begin(m) /\ lock' = m
  <2>1. /\ Fresh(m) /\ lock = Nobody /\ p.stage = "planned"
        /\ manager' = [manager EXCEPT ![m] = q]
        /\ q = [p EXCEPT !.stage = "applying", !.before = host]
        /\ journal' = [journal EXCEPT ![p.to] = "PLANNED"] /\ minted' = minted
    BY <1>3, <1>5, ConfigurationAssumption DEF Begin, IInv, ConfigTypeOK
  <2>2. q \in Transaction /\ q.stage = "applying" /\ q.from = p.from /\ q.to = p.to
        /\ q.before = host /\ q.seen = p.seen
    BY <1>1, <1>3, <2>1 DEF Transaction
  <2>3. ConfigTypeOK'
    <3>0. manager \in [Manager -> Transaction]
      BY DEF IInv, ConfigTypeOK, Transaction
    <3>1. manager' \in [Manager -> Transaction]
      BY <2>1, <2>2, <3>0
    <3>2. journal' \in [1..MaxRevision -> DOMAIN Transitions]
      BY <2>1 DEF IInv, ConfigTypeOK, Transitions
    <3> QED BY <1>2, <1>5, <2>1, <3>1, <3>2 DEF IInv, ConfigTypeOK, Transaction, agentVars
  <2>4. LockInv'
    BY <1>2, <1>5, <2>1, <2>2, ConfigurationAssumption
       DEF IInv, LockInv, Holding, ConfigTypeOK, agentVars
  <2>5. RevisionInv'
    BY <1>2, <2>1, <2>2 DEF IInv, RevisionInv, ConfigTypeOK
  <2>6. \A n \in Manager \ {m} : ~Holding(n) /\ manager'[n] = manager[n]
    BY <2>1, ConfigurationAssumption DEF IInv, LockInv, ConfigTypeOK
  <2>7. PlanInv'
    BY <1>2, <2>1, <2>2, <2>6 DEF PlanInv, Holding, Fresh, Coherent, Aligned
  <2>8. Reached(p)'
    BY <1>2, <2>1, <2>2 DEF Reached, Fresh, Coherent, agentVars
  <2> QED BY <2>3, <2>4, <2>5, <2>6, <2>7, <2>8 DEF IInv, ReachedInv, Holding
<1>6. CASE Begin(m) /\ lock' # m
  <2>1. /\ lock = Nobody /\ lock' = lock /\ manager' = [manager EXCEPT ![m] = Idle]
        /\ journal' \in {journal, [journal EXCEPT ![p.to] = "PLANNED"]} /\ minted' = minted
    BY <1>6 DEF Begin
  <2>2. Idle.stage = "idle"
    BY DEF Idle
  <2>3. ConfigTypeOK'
    BY <1>1, <1>2, <2>1 DEF IInv, ConfigTypeOK, Transaction, agentVars, Transitions
  <2>4. LockInv' /\ RevisionInv' /\ PlanInv'
    BY <1>2, <2>1, <2>2 DEF IInv, LockInv, RevisionInv, PlanInv, Holding, ConfigTypeOK, agentVars
  <2>5. ReachedInv'
    BY <2>1, <2>2, ConfigurationAssumption DEF IInv, LockInv, ReachedInv, Holding, ConfigTypeOK
  <2> QED BY <2>3, <2>4, <2>5 DEF IInv
<1> QED BY <1>4, <1>5, <1>6

\* The agent works on the host only when no command line has the lock.
LEMMA AgentStepInv ==
  ASSUME IInv,
         AgentRefresh \/ AgentBegin \/ AgentSwitch \/ AgentPublish \/ AgentFail
           \/ AgentReconcile
  PROVE  IInv'
<1>1. /\ lock \in {Nobody, "agent"} /\ lock' \in {Nobody, "agent"}
      /\ UNCHANGED <<minted, journal, manager>>
      /\ agent' # "idle" <=> lock' = "agent"
      /\ agent' = "switching" => current' < MaxRelease
  <2>1. ConfigTypeOK /\ LockInv /\ Nobody # "agent"
    BY ConfigurationAssumption DEF IInv
  <2>2. CASE AgentRefresh
    BY <2>1, <2>2 DEF AgentRefresh, LockInv, agentVars
  <2>3. CASE AgentBegin
    BY <2>1, <2>3 DEF AgentBegin, LockInv
  <2>4. CASE AgentSwitch
    BY <2>1, <2>4 DEF AgentSwitch, LockInv
  <2>5. CASE AgentPublish
    BY <2>1, <2>5 DEF AgentPublish, LockInv
  <2>6. CASE AgentFail
    BY <2>1, <2>6 DEF AgentFail, LockInv
  <2>7. CASE AgentReconcile
    BY <2>1, <2>7 DEF AgentReconcile, LockInv
  <2> QED BY <2>2, <2>3, <2>4, <2>5, <2>6, <2>7
<1>2. \A m \in Manager : ~Holding(m)
  BY <1>1, ConfigurationAssumption DEF IInv, LockInv
<1>3. /\ host \in Host /\ host.config \in Revision /\ current \in 0..MaxRelease
      /\ host.locator \in Locator /\ budget \in 0..MaxFaults
      /\ MaxRelease \in Nat /\ MaxFaults \in Nat
  BY ConfigurationAssumption DEF IInv, ConfigTypeOK, Host
<1>4. host' \in Host /\ host'.config = host.config
  <2>1. ASSUME NEW h \in Host, NEW r \in 0..MaxRelease, NEW c \in Revision
        PROVE  /\ [h EXCEPT !.env = c] \in Host /\ [h EXCEPT !.env = c].config = h.config
               /\ [h EXCEPT !.env = c, !.app = Down] \in Host
               /\ [h EXCEPT !.env = c, !.app = Down].config = h.config
               /\ [h EXCEPT !.app = c] \in Host /\ [h EXCEPT !.app = c].config = h.config
               /\ [h EXCEPT !.locator.release = r] \in Host
               /\ [h EXCEPT !.locator.release = r].config = h.config
               /\ [h.locator EXCEPT !.release = r] \in Locator
    BY DEF Host, Locator
  <2>2. CASE AgentRefresh
    BY <1>3, <2>1, <2>2 DEF AgentRefresh
  <2>3. CASE AgentBegin
    BY <1>3, <2>1, <2>3 DEF AgentBegin
  <2>4. CASE AgentSwitch
    BY <1>3, <2>1, <2>4 DEF AgentSwitch
  <2>5. CASE AgentPublish
    BY <1>3, <2>1, <2>5 DEF AgentPublish
  <2>6. CASE AgentFail
    BY <1>3, <2>6 DEF AgentFail
  <2>7. CASE AgentReconcile
    BY <1>3, <2>1, <2>7 DEF AgentReconcile, Host
  <2> QED BY <2>2, <2>3, <2>4, <2>5, <2>6, <2>7
<1>5. agent' \in {"idle", "switching", "publishing"} /\ barrier' \in BOOLEAN
  BY DEF IInv, ConfigTypeOK, AgentRefresh, AgentBegin, AgentSwitch, AgentPublish, AgentFail,
         AgentReconcile, agentVars
<1>6. current' \in 0..MaxRelease /\ budget' \in 0..MaxFaults
  <2>1. current' = current \/ AgentSwitch
    BY DEF AgentRefresh, AgentBegin, AgentSwitch, AgentPublish, AgentFail,
           AgentReconcile, agentVars
  <2>2. budget' = budget \/ Fault
    BY DEF AgentRefresh, AgentBegin, AgentSwitch, AgentPublish, AgentFail,
           AgentReconcile, agentVars
  <2>3. AgentSwitch => current' = current + 1 /\ current < MaxRelease
    BY DEF AgentSwitch, IInv, LockInv
  <2>4. Fault => budget' \in 0..MaxFaults
    BY <1>3 DEF Fault
  <2>5. current' \in 0..MaxRelease
    BY <1>3, <2>1, <2>3
  <2> QED BY <1>3, <2>2, <2>4, <2>5
<1>7. ConfigTypeOK'
  BY <1>1, <1>4, <1>5, <1>6 DEF IInv, ConfigTypeOK
<1>8. LockInv'
  BY <1>1, <1>2, ConfigurationAssumption DEF LockInv, Holding
<1>9. RevisionInv'
  BY <1>1, <1>4 DEF IInv, RevisionInv
<1>10. PlanInv' /\ ReachedInv'
  BY <1>1, <1>2 DEF PlanInv, ReachedInv, Holding
<1> QED BY <1>7, <1>8, <1>9, <1>10 DEF IInv

\* Every step keeps the invariant.
LEMMA StepInv == IInv /\ [ConfigNext]_vars => IInv'
<1> SUFFICES ASSUME IInv, [ConfigNext]_vars PROVE IInv'
  OBVIOUS
<1>1. ASSUME NEW m \in Manager, Do(m) PROVE IInv'
  BY <1>1, DoFrame, DoReached DEF IInv
<1>2. CASE UNCHANGED vars
  BY <1>2 DEF vars, agentVars, IInv, ConfigTypeOK, LockInv, RevisionInv, PlanInv, ReachedInv,
     Holding, Reached, NothingDone, Uniform
<1> QED BY <1>1, <1>2, HandlerStepInv, EndStepInv, AdmissionStepInv, AgentStepInv DEF ConfigNext

\* The invariant holds in every reachable state.
LEMMA Reachable == ConfigSpec => []IInv
<1>1. ConfigInit => IInv
  BY InitInv DEF Inv
<1> QED BY <1>1, StepInv, PTL DEF ConfigSpec

(* Types of the configuration transaction.                                    *)
THEOREM ConfigTypeCorrect == ConfigSpec => []ConfigTypeOK
<1>1. IInv => ConfigTypeOK
  BY DEF IInv
<1> QED BY <1>1, Reachable, PTL

(* The result a command returns is true of the host: all files and the        *)
(* application follow the plan, or all the previous revision, or nothing was  *)
(* touched (ConfigurationManager.apply).                                      *)
THEOREM ResultsAreTrue == ConfigSpec => []ResultIsTrue
<1>1. IInv => ResultIsTrue
  BY DEF IInv, ReachedInv, Reached, Holding, ResultIsTrue
<1> QED BY <1>1, Reachable, PTL

\* Nobody moves a misaligned host that nobody works on.
LEMMA FrozenStep ==
  ASSUME IInv, ConfigNext, lock = Nobody, ~Aligned
  PROVE  UNCHANGED <<host, current>>
<1>1. \A m \in Manager : ~Holding(m) /\ lock # m
  BY ConfigurationAssumption DEF IInv, LockInv
<1>2. agent = "idle"
  BY ConfigurationAssumption DEF IInv, LockInv
<1>3. ASSUME NEW m \in Manager,
             Do(m) \/ Classify(m) \/ MarkApplyFailed(m) \/ MarkRecoveryRequired(m)
               \/ Return(m) \/ Kill(m)
      PROVE  FALSE
  <2>1. CASE Do(m)
    BY <1>1, <2>1, DoShape
  <2> QED BY <1>1, <1>3, <2>1
       DEF Classify, MarkApplyFailed, MarkRecoveryRequired, Conclude, Return, Kill, Holding
<1>4. ASSUME NEW m \in Manager, Validate(m) \/ Begin(m)
      PROVE  UNCHANGED <<host, current>>
  BY <1>4 DEF Validate, Begin, agentVars
<1>5. ~(AgentRefresh \/ AgentBegin \/ AgentSwitch \/ AgentPublish \/ AgentFail
          \/ AgentReconcile)
  BY <1>2 DEF AgentRefresh, AgentBegin, AgentSwitch, AgentPublish, AgentFail, AgentReconcile,
              AgentMayBind
<1> QED BY <1>3, <1>4, <1>5 DEF ConfigNext

(* A change cut off between the configuration and the locator freezes both.   *)
THEOREM MisalignedStaysFrozen == ConfigSpec => MisalignedIsFrozen
<1>1. IInv /\ [ConfigNext]_vars => [lock = Nobody /\ ~Aligned => UNCHANGED <<host, current>>]_vars
  BY FrozenStep
<1> QED BY <1>1, Reachable, PTL DEF ConfigSpec, MisalignedIsFrozen

(* A configuration is only ever replaced by a plan drawn from the very host   *)
(* it is applied to (_assert_fresh).                                          *)
THEOREM PlansFit == ConfigSpec => PlanFitsHost
<1>1. IInv /\ [ConfigNext]_vars =>
        [\A m \in Manager : manager[m].stage = "config" /\ host'.config # host.config =>
           host.locator = manager[m].seen /\ host.locator.release = current]_vars
  BY DEF IInv, PlanInv, ReachedInv, Reached, Holding
<1> QED BY <1>1, Reachable, PTL DEF ConfigSpec, PlanFitsHost

-----------------------------------------------------------------------------
(* The journal.                                                               *)

\* A transaction that keeps its plan and writes only its own record.
LEMMA OwnRecord ==
  ASSUME IInv, RecordInv, NEW m \in Manager, Holding(m), Holding(m)',
         \A n \in Manager \ {m} : manager'[n] = manager[n],
         manager'[m].to = manager[m].to, manager'[m].before = manager[m].before,
         UNCHANGED <<minted, lock, agentVars>>,
         \A op \in 1..MaxRevision \ {manager[m].to} : journal'[op] = journal[op],
         Recorded(manager[m])'
  PROVE  RecordInv'
<1>1. /\ manager[m].to <= minted /\ manager[m].stage # "idle" /\ manager'[m].stage # "idle"
      /\ manager'[m].stage # "planned" /\ manager[m].to \in Nat /\ minted \in Nat
  BY ConfigurationAssumption DEF IInv, RevisionInv, Holding, ConfigTypeOK, Revision
<1>2. lock = m /\ lock # Nobody /\ lock # "agent" /\ agent = "idle"
  BY Alone, ConfigurationAssumption DEF IInv
<1>3. \A n \in Manager \ {m} : ~Holding(n) /\ ~Holding(n)'
  BY Alone DEF IInv, Holding
<1>4. ASSUME NEW n \in Manager, manager'[n].stage = "planned"
      PROVE  journal'[manager'[n].to] = "none"
  <2>1. n # m /\ manager[n].to # manager[m].to /\ journal[manager[n].to] = "none"
    BY <1>1, <1>4 DEF RecordInv
  <2>2. manager[n].to \in 1..MaxRevision
    BY <1>4, <2>1, ConfigurationAssumption DEF IInv, RevisionInv, ConfigTypeOK, Revision
  <2> QED BY <2>1, <2>2
<1>5. ASSUME NEW op \in 1..MaxRevision, op > minted'
      PROVE  journal'[op] = "none"
  BY <1>1, <1>5 DEF RecordInv
<1>6. ASSUME NEW a \in Manager, NEW b \in Manager, manager'[a].stage # "idle",
             manager'[b].stage # "idle", manager'[a].to = manager'[b].to
      PROVE  a = b
  BY <1>1, <1>6 DEF RecordInv
<1>7. Excused(manager[m].before, {manager[m].to})'
  BY <1>1 DEF RecordInv, Excused, Open, agentVars
<1> QED BY <1>2, <1>3, <1>4, <1>5, <1>6, <1>7 DEF RecordInv, agentVars

\* What a step writes into its record.
LEMMA WrittenRecord ==
  ASSUME IInv, NEW p \in Transaction, p.to \in 1..MaxRevision, NEW s \in Steps
  PROVE  LET w == Written(s, p) IN
         /\ \A op \in 1..MaxRevision \ {p.to} : w[op] = journal[op]
         /\ s = "applying" => w[p.to] = "APPLYING"
         /\ s = "verifying" => w[p.to] = "VERIFYING"
         /\ s = "succeeded" => w[p.to] = "SUCCEEDED"
         /\ s = "rolling_back" => w[p.to] = "ROLLING_BACK"
         /\ s = "rolled_back" => w[p.to] = "ROLLED_BACK"
         /\ s \notin {"applying", "verifying", "succeeded", "rolling_back", "rolled_back"} =>
              w = journal
BY DEF Written, JournalSteps, IInv, ConfigTypeOK

\* Do keeps the journal in step with the transaction.
LEMMA DoRecord ==
  ASSUME IInv, RecordInv, NEW m \in Manager, Do(m)
  PROVE  RecordInv'
<1> DEFINE p == manager[m]
           q == manager'[m]
           s == manager[m].stage
<1>1. /\ p \in Transaction /\ s \in Steps /\ Holding(m) /\ Reached(p) /\ Recorded(p)
      /\ host \in Host /\ host' \in AfterFailure(s, p)
      /\ journal' \in {journal, Written(s, p)}
      /\ UNCHANGED <<minted, lock, agentVars>>
  BY DoShape DEF RecordInv, IInv, ConfigTypeOK
<1>2. p.to \in 1..MaxRevision
  BY <1>1, ConfigurationAssumption DEF IInv, RevisionInv, Holding, Transaction, Revision
<1>3. /\ manager' = [manager EXCEPT ![m] = q]
      /\ q.to = p.to /\ q.from = p.from /\ q.before = p.before
      /\ \/ q.stage = Successor(s) /\ q.outcome = Result(s) /\ Permitted(s, p)
            /\ host' = Effect(s, p) /\ journal' = Written(s, p)
         \/ q.stage = OnError(s)
  <2>1. p \in Transaction
    BY <1>1
  <2>2. CASE /\ manager' = [manager EXCEPT ![m].stage = Successor(s),
                            ![m].outcome = Result(s), ![m].attempted = TRUE]
             /\ Permitted(s, p) /\ host' = Effect(s, p) /\ journal' = Written(s, p)
    <3>1. q = [p EXCEPT !.stage = Successor(s), !.outcome = Result(s), !.attempted = TRUE]
      BY <2>2 DEF IInv, ConfigTypeOK
    <3>2. manager' = [manager EXCEPT ![m] = q]
      BY <2>2, <3>1 DEF IInv, ConfigTypeOK
    <3>3. /\ q.to = p.to /\ q.from = p.from /\ q.before = p.before
          /\ q.stage = Successor(s) /\ q.outcome = Result(s)
      BY <2>1, <3>1 DEF Transaction
    <3> QED BY <2>2, <3>2, <3>3
  <2>3. CASE manager' = [manager EXCEPT ![m].stage = OnError(s)]
    <3>1. q = [p EXCEPT !.stage = OnError(s)]
      BY <2>3 DEF IInv, ConfigTypeOK
    <3>2. manager' = [manager EXCEPT ![m] = q]
      BY <2>3, <3>1 DEF IInv, ConfigTypeOK
    <3> QED BY <2>1, <3>1, <3>2 DEF Transaction
  <2> QED BY <2>2, <2>3, DoShape
<1>4. q.stage \notin {"idle", "planned"}
  BY <1>1, <1>3, NextStage, StepNames DEF Steps, ForwardSteps, BackwardSteps
<1>5. IInv'
  BY DoFrame, DoReached DEF IInv
<1>6. Holding(m)' /\ Reached(p)'
  BY <1>4, <1>5 DEF Holding, IInv, ReachedInv
<1>7. SUFFICES Recorded(p)'
  <2>1. \A op \in 1..MaxRevision \ {p.to} : journal'[op] = journal[op]
    BY <1>1, <1>2, WrittenRecord
  <2>2. \A n \in Manager \ {m} : manager'[n] = manager[n]
    BY <1>3 DEF IInv, ConfigTypeOK
  <2> QED BY <1>1, <1>3, <1>6, <2>1, <2>2, OwnRecord
<1>8. /\ \A x \in {"applying", "verifying", "succeeded", "rolling_back", "rolled_back"} :
           s = x => host' = host
      /\ s \in ForwardSteps \cup BackwardSteps
  <2>1. \A x \in {"applying", "verifying", "succeeded", "rolling_back", "rolled_back"} :
          s = x => AfterFailure(s, p) = {host}
    <3>1. \A x \in {"applying", "verifying", "succeeded", "rolling_back", "rolled_back"} :
            x \notin {"application", "application_back"} /\ Effect(x, p) = host
      BY Effects
    <3> QED BY <3>1 DEF AfterFailure
  <2> QED BY <1>1, <2>1, StepNames DEF Steps
<1>9. CASE q.stage = Successor(s) /\ q.outcome = Result(s) /\ journal' = Written(s, p)
  <2>1. CASE s \in {"succeeded", "rolled_back"}
    <3>1. q.stage = "returning"
      BY <1>9, <2>1, Successors
    <3>2. q.outcome = "APPLIED" \/ q.outcome = "CONFIG_APPLY_FAILED"
      BY <1>9, <2>1 DEF Result
    <3> QED BY <1>3, <1>6, <3>1, <3>2 DEF Reached, Recorded, Uniform, BackwardSteps
  <2>2. CASE s \in ForwardSteps \ {"succeeded"}
    <3>1. /\ s = "applying" => q.stage = "config" /\ journal'[p.to] = "APPLYING"
          /\ s = "config" => q.stage = "env" /\ journal' = journal
          /\ s = "env" => q.stage = "application" /\ journal' = journal
          /\ s = "application" => q.stage = "verifying" /\ journal' = journal
          /\ s = "verifying" => q.stage = "health" /\ journal'[p.to] = "VERIFYING"
          /\ s = "health" => q.stage = "locator" /\ journal' = journal
          /\ s = "locator" => q.stage = "acceptance" /\ journal' = journal
          /\ s = "acceptance" => q.stage = "succeeded" /\ journal' = journal
      BY <1>1, <1>2, <1>9, Successors, WrittenRecord
    <3> QED BY <1>1, <1>3, <2>2, <3>1 DEF ForwardSteps, BackwardSteps, Recorded
  <2>3. CASE s \in BackwardSteps \ {"rolled_back"}
    <3>1. /\ s = "rolling_back" => journal'[p.to] = "ROLLING_BACK"
          /\ s # "rolling_back" => journal' = journal
      BY <1>1, <1>2, <1>9, <2>3, WrittenRecord DEF BackwardSteps
    <3>2. q.stage \in BackwardSteps \ {"rolling_back"}
      BY <1>9, <2>3, Successors DEF BackwardSteps
    <3>3. journal'[q.to] = "ROLLING_BACK"
      BY <1>1, <1>3, <2>3, <3>1 DEF Recorded
    <3> QED BY <3>2, <3>3 DEF BackwardSteps, Recorded
  <2> QED BY <1>8, <2>1, <2>2, <2>3
<1>10. CASE q.stage = OnError(s)
  <2>1. journal'[p.to] \in {journal[p.to], Written(s, p)[p.to]}
    BY <1>1
  <2>2. CASE s \in ForwardSteps
    <3>1. q.stage = "failing"
      BY <1>10, <2>2, StepNames DEF OnError
    <3>2. \/ Open(p.to)'
          \/ journal'[p.to] = "PLANNED" /\ host' = p.before
          \/ journal'[p.to] = "SUCCEEDED" /\ Uniform(p.to)
      <4>1. CASE s = "applying"
        BY <1>1, <1>2, <1>3, <1>8, <2>1, <4>1, WrittenRecord DEF Recorded, Reached, Open
      <4>2. CASE s \in {"config", "env", "application", "verifying"}
        <5>1. journal[p.to] = "APPLYING"
          BY <1>1, <4>2 DEF Recorded
        <5>2. Written(s, p)[p.to] \in {"APPLYING", "VERIFYING"}
          BY <1>1, <1>2, <4>2, <5>1, WrittenRecord
        <5> QED BY <1>3, <2>1, <5>1, <5>2 DEF Open
      <4>3. CASE s \in {"health", "locator", "acceptance"}
        <5>1. journal[p.to] = "VERIFYING"
          BY <1>1, <4>3 DEF Recorded
        <5>2. Written(s, p)[p.to] = "VERIFYING"
          BY <1>1, <1>2, <4>3, <5>1, WrittenRecord
        <5> QED BY <1>3, <2>1, <5>1, <5>2 DEF Open
      <4>4. CASE s = "succeeded"
        <5>1. journal[p.to] = "VERIFYING" /\ Uniform(p.to)
          BY <1>1, <4>4 DEF Recorded, Reached, Uniform
        <5>2. Written(s, p)[p.to] = "SUCCEEDED"
          BY <1>1, <1>2, <4>4, WrittenRecord
        <5> QED BY <1>3, <2>1, <5>1, <5>2 DEF Open
      <4> QED BY <2>2, <4>1, <4>2, <4>3, <4>4 DEF ForwardSteps
    <3>3. journal'[p.to] = "SUCCEEDED" /\ Uniform(p.to) => Uniform(p.to)'
      <4>1. s # "succeeded" => journal'[p.to] # "SUCCEEDED"
        BY <1>1, <1>2, <2>1, <2>2, WrittenRecord DEF Recorded, ForwardSteps
      <4>2. s = "succeeded" => host' = host
        BY <1>8
      <4> QED BY <1>3, <4>1, <4>2 DEF Uniform
    <3> QED BY <1>3, <3>1, <3>2, <3>3 DEF Recorded, Open, BackwardSteps, Uniform
  <2>3. CASE s \in BackwardSteps
    <3>1. q.stage = "recovering"
      BY <1>10, <2>3, StepNames DEF OnError, ForwardSteps, BackwardSteps
    <3>2. CASE s = "rolling_back"
      <4>1. host' = host /\ Written(s, p)[p.to] = "ROLLING_BACK"
        BY <1>1, <1>2, <1>8, <3>2, WrittenRecord
      <4> QED BY <1>1, <1>3, <2>1, <3>1, <3>2, <4>1 DEF Recorded, Open, BackwardSteps, Uniform
    <3>3. CASE s = "rolled_back"
      <4>1. host' = host /\ Uniform(p.from)
        BY <1>1, <1>8, <3>3 DEF Reached, Uniform
      <4> QED BY <1>3, <3>1, <4>1 DEF Recorded, BackwardSteps, Uniform
    <3>4. CASE s \notin {"rolling_back", "rolled_back"}
      <4>1. journal[p.to] = "ROLLING_BACK"
        BY <1>1, <2>3, <3>4 DEF Recorded, BackwardSteps
      <4>2. Written(s, p)[p.to] = "ROLLING_BACK"
        BY <1>1, <1>2, <2>3, <3>4, <4>1, WrittenRecord DEF BackwardSteps
      <4> QED BY <1>3, <2>1, <3>1, <4>1, <4>2 DEF Recorded, Open, BackwardSteps
    <3> QED BY <3>2, <3>3, <3>4
  <2> QED BY <1>8, <2>2, <2>3
<1> QED BY <1>3, <1>9, <1>10

\* The handlers and the reported results.
LEMMA HandlerRecord ==
  ASSUME IInv, RecordInv, NEW m \in Manager,
         Classify(m) \/ MarkApplyFailed(m) \/ MarkRecoveryRequired(m)
  PROVE  RecordInv'
<1> DEFINE p == manager[m]
           q == manager'[m]
<1>1. p \in Transaction /\ p.stage \in {"failing", "apply_failed", "recovering"}
  BY DEF IInv, ConfigTypeOK, Transaction, Classify, MarkApplyFailed, MarkRecoveryRequired,
         Conclude
<1>2. Holding(m) /\ Reached(p) /\ Recorded(p)
  BY <1>1 DEF IInv, ReachedInv, RecordInv, Holding
<1>3. UNCHANGED <<host, minted, lock, agentVars>>
  BY DEF Classify, MarkApplyFailed, MarkRecoveryRequired, Conclude
<1>4. p.to \in 1..MaxRevision
  BY <1>1, <1>2, ConfigurationAssumption
     DEF IInv, RevisionInv, Holding, Transaction, Revision
<1>5. /\ q.to = p.to /\ q.from = p.from /\ q.before = p.before
      /\ \A n \in Manager \ {m} : manager'[n] = manager[n]
      /\ \A op \in 1..MaxRevision \ {p.to} : journal'[op] = journal[op]
      /\ \/ q.stage = "rolling_back" /\ p.stage = "failing" /\ journal' = journal
         \/ q.stage = "apply_failed" /\ p.stage = "failing" /\ NothingDone(p)
         \/ q.stage = "returning" /\ p.stage = "apply_failed"
         \/ /\ q.stage = "returning" /\ p.stage = "recovering"
            /\ journal'[p.to] \in {journal[p.to], "RECOVERY_REQUIRED"}
  <2>1. CASE Classify(m)
    BY <1>1, <2>1 DEF Classify, IInv, ConfigTypeOK, Transaction, NothingDone
  <2>2. ASSUME NEW stage \in {"apply_failed", "recovering"}, NEW o \in Outcome,
               Conclude(m, stage, o)
        PROVE  /\ q.to = p.to /\ q.from = p.from /\ q.before = p.before
               /\ \A n \in Manager \ {m} : manager'[n] = manager[n]
               /\ \A op \in 1..MaxRevision \ {p.to} : journal'[op] = journal[op]
               /\ q.stage = "returning" /\ p.stage = stage
               /\ journal'[p.to] \in {journal[p.to], o}
    <3>1. q = [p EXCEPT !.stage = "returning", !.outcome = o]
      BY <2>2 DEF Conclude, IInv, ConfigTypeOK
    <3>2. journal' \in {journal, [journal EXCEPT ![p.to] = o]}
      BY <2>2 DEF Conclude
    <3> QED BY <1>1, <1>4, <2>2, <3>1, <3>2 DEF Conclude, IInv, ConfigTypeOK, Transaction
  <2>3. CASE MarkApplyFailed(m)
    BY <2>2, <2>3 DEF MarkApplyFailed, Outcome
  <2>4. CASE MarkRecoveryRequired(m)
    BY <2>2, <2>4 DEF MarkRecoveryRequired, Outcome
  <2> QED BY <2>1, <2>3, <2>4
<1>6. SUFFICES Recorded(p)'
  <2>1. Holding(m)'
    BY <1>5 DEF Holding
  <2> QED BY <1>2, <1>3, <1>5, <2>1, OwnRecord
<1>7. CASE q.stage = "rolling_back"
  BY <1>2, <1>3, <1>5, <1>7 DEF Recorded, Open, Uniform, BackwardSteps
<1>8. CASE q.stage = "apply_failed"
  BY <1>8 DEF Recorded, BackwardSteps
<1>9. CASE q.stage = "returning" /\ p.stage = "apply_failed"
  BY <1>2, <1>3, <1>5, <1>9 DEF Recorded, Reached, BackwardSteps
<1>10. CASE q.stage = "returning" /\ p.stage = "recovering"
  BY <1>2, <1>3, <1>5, <1>10 DEF Recorded, Open, Uniform, BackwardSteps
<1> QED BY <1>5, <1>7, <1>8, <1>9, <1>10

\* A command that returns or is killed.
LEMMA EndRecord ==
  ASSUME IInv, RecordInv, NEW m \in Manager, Return(m) \/ Kill(m)
  PROVE  RecordInv'
<1> DEFINE p == manager[m]
<1>1. lock = m /\ lock' = Nobody /\ manager' = [manager EXCEPT ![m] = Idle] /\ Holding(m)
      /\ UNCHANGED <<minted, journal, agentVars>>
  BY DEF Return, Kill, IInv, LockInv, Holding
<1>2. /\ p \in Transaction /\ Reached(p) /\ Recorded(p) /\ Excused(p.before, {p.to})
      /\ Idle.stage = "idle"
  BY <1>1 DEF IInv, ConfigTypeOK, Transaction, ReachedInv, RecordInv, Idle
<1>3. p.to \in 1..MaxRevision
  BY <1>1, <1>2, ConfigurationAssumption
     DEF IInv, RevisionInv, Holding, Transaction, Revision
<1>4. host' = host \/ p.stage \in {"application", "application_back"}
  BY DEF Return, Kill
<1>5. \/ Open(p.to)
      \/ host' = p.before
      \/ /\ host'.env = host'.config /\ host'.app = host'.config
         /\ host'.locator.revision = host'.config
  <2>1. p.stage \in ForwardSteps \cup BackwardSteps
                     \cup {"failing", "apply_failed", "recovering", "returning"}
    BY <1>1, <1>2, StepNames DEF Transaction, Holding, Steps
  <2>2. CASE p.stage \in {"config", "env", "application", "verifying", "health", "locator",
                         "acceptance", "succeeded"}
    BY <1>2, <2>2 DEF Recorded, Open
  <2>3. CASE p.stage \in BackwardSteps \ {"rolling_back"}
    BY <1>2, <2>3 DEF Recorded, Open
  <2>4. CASE p.stage \in {"applying", "apply_failed"}
    BY <1>2, <1>4, <2>4 DEF Reached
  <2>5. CASE p.stage \in {"failing", "rolling_back", "recovering", "returning"}
    BY <1>2, <1>4, <2>5 DEF Recorded, Uniform
  <2> QED BY <2>1, <2>2, <2>3, <2>4, <2>5 DEF ForwardSteps
<1>6. Excused(host, {})'
  <2>1. CASE Open(p.to)
    BY <1>1, <1>3, <2>1 DEF Excused, Open
  <2>2. CASE host' = p.before
    BY <1>1, <1>2, <2>2 DEF Excused, Open, agentVars
  <2>3. CASE /\ host'.env = host'.config /\ host'.app = host'.config
             /\ host'.locator.revision = host'.config
    BY <2>3 DEF Excused
  <2> QED BY <1>5, <2>1, <2>2, <2>3
<1>7. \A n \in Manager : ~Holding(n)'
  BY <1>1, <1>2, Alone DEF IInv, Holding, ConfigTypeOK
<1>8. lock' # "agent" /\ agent' = "idle"
  BY <1>1, Alone, ConfigurationAssumption DEF IInv, agentVars
<1>9. \A n \in Manager : manager'[n].stage # "idle" => manager'[n] = manager[n]
  BY <1>1, <1>2 DEF IInv, ConfigTypeOK
<1> QED BY <1>1, <1>6, <1>7, <1>8, <1>9 DEF RecordInv

\* A new plan and its admission.
LEMMA AdmissionRecord ==
  ASSUME IInv, RecordInv, NEW m \in Manager, Validate(m) \/ Begin(m)
  PROVE  RecordInv'
<1> DEFINE p == manager[m]
           q == manager'[m]
<1>1. p \in Transaction /\ minted \in Nat /\ MaxRevision \in Nat
  BY ConfigurationAssumption DEF IInv, ConfigTypeOK, Transaction, Revision
<1>2. UNCHANGED <<host, agentVars>> /\ ~Holding(m)
  BY DEF Validate, Begin, Holding
<1>3. \A n \in Manager : manager[n].stage # "idle" =>
        /\ manager[n].to \in 1..MaxRevision /\ manager[n].to <= minted
  BY <1>1, ConfigurationAssumption DEF IInv, RevisionInv, ConfigTypeOK, Revision
<1>4. \A n \in Manager \ {m} : manager'[n] = manager[n]
  BY DEF Validate, Begin, IInv, ConfigTypeOK
<1>5. CASE Validate(m)
  <2>1. /\ minted' = minted + 1 /\ minted' \in 1..MaxRevision /\ UNCHANGED <<journal, lock>>
        /\ q = [Idle EXCEPT !.stage = "planned", !.from = host.config, !.to = minted + 1,
                            !.seen = host.locator]
    BY <1>1, <1>5 DEF Validate, IInv, ConfigTypeOK
  <2>2. q.stage = "planned" /\ q.to = minted'
    BY <2>1 DEF Idle
  <2>3. journal[minted'] = "none"
    BY <1>1, <2>1 DEF RecordInv
  <2>4. \A n \in Manager : manager'[n].stage = "planned" => journal'[manager'[n].to] = "none"
    <3>1. ASSUME NEW n \in Manager \ {m}, manager'[n].stage = "planned"
          PROVE  journal'[manager'[n].to] = "none"
      BY <1>4, <2>1, <3>1 DEF RecordInv
    <3> QED BY <2>1, <2>2, <2>3, <3>1
  <2>5. \A op \in 1..MaxRevision : op > minted' => journal'[op] = "none"
    BY <1>1, <2>1 DEF RecordInv
  <2>6. \A a, b \in Manager : manager'[a].stage # "idle" /\ manager'[b].stage # "idle"
          /\ manager'[a].to = manager'[b].to => a = b
    <3>1. \A n \in Manager \ {m} : manager'[n].stage # "idle" => manager'[n].to # minted'
      BY <1>1, <1>3, <1>4, <2>1
    <3> QED BY <1>4, <2>2, <3>1 DEF RecordInv
  <2>7. ASSUME NEW n \in Manager, Holding(n)'
        PROVE  Recorded(manager[n])' /\ Excused(manager[n].before, {manager[n].to})'
    <3>1. Holding(n) /\ manager'[n] = manager[n]
      BY <1>4, <2>2, <2>7 DEF Holding
    <3>2. Recorded(manager[n]) /\ Excused(manager[n].before, {manager[n].to})
      BY <3>1 DEF RecordInv
    <3> QED BY <1>2, <2>1, <3>1, <3>2 DEF Recorded, Excused, Open, Uniform, agentVars
  <2>8. /\ lock' = Nobody => Excused(host, {})'
        /\ lock' = "agent" => ~barrier' /\ host'.env = host'.config
                              /\ host'.locator.revision = host'.config
        /\ agent' = "publishing" => host'.app = host'.config
    BY <1>2, <2>1 DEF RecordInv, Excused, Open, agentVars
  <2> QED BY <2>4, <2>5, <2>6, <2>7, <2>8 DEF RecordInv
<1>6. CASE Begin(m)
  <2>1. /\ p.stage = "planned" /\ lock = Nobody /\ minted' = minted
        /\ journal[p.to] = "none" /\ Excused(host, {})
        /\ journal' \in {journal, [journal EXCEPT ![p.to] = "PLANNED"]}
    BY <1>6 DEF Begin, RecordInv
  <2>2. \A op \in 1..MaxRevision \ {p.to} : journal'[op] = journal[op]
    BY <2>1 DEF IInv, ConfigTypeOK
  <2>3. /\ \/ barrier' \/ host'.app = Down
           \/ /\ host'.env = host'.config /\ host'.app = host'.config
              /\ host'.locator.revision = host'.config
           \/ \E op \in 1..MaxRevision \ {p.to} : Open(op)'
        /\ Excused(host, {})'
    BY <1>2, <2>1, <2>2 DEF Excused, Open, agentVars
  <2>4. \/ q.stage = "idle"
        \/ q.stage = "applying" /\ q.to = p.to /\ q.before = host
    <3>1. CASE lock' = m
      <4>1. q = [p EXCEPT !.stage = Head(Forward), !.before = host]
        BY <1>6, <2>1, <3>1, ConfigurationAssumption DEF Begin, IInv, ConfigTypeOK
      <4>2. Head(Forward) = "applying"
        BY DEF Forward
      <4> QED BY <1>1, <4>1, <4>2 DEF Transaction
    <3>2. CASE lock' # m
      BY <1>6, <3>2 DEF Begin, IInv, ConfigTypeOK, Idle
    <3> QED BY <3>1, <3>2
  <2>5. q.stage = "applying" => lock' = m /\ journal'[p.to] = "PLANNED"
    <3>1. CASE lock' = m
      BY <1>3, <1>6, <2>1, <3>1, ConfigurationAssumption DEF Begin, IInv, ConfigTypeOK
    <3>2. CASE lock' # m
      BY <1>6, <3>2 DEF Begin, IInv, ConfigTypeOK, Idle
    <3> QED BY <3>1, <3>2
  <2>6. \A n \in Manager \ {m} : ~Holding(n) /\ ~Holding(n)'
    BY <1>4, <2>1, ConfigurationAssumption DEF IInv, LockInv, Holding
  <2>7. \A n \in Manager : manager'[n].stage = "planned" => journal'[manager'[n].to] = "none"
    <3>1. ASSUME NEW n \in Manager \ {m}, manager[n].stage = "planned"
          PROVE  journal'[manager[n].to] = "none"
      BY <1>3, <2>1, <2>2, <3>1 DEF RecordInv
    <3> QED BY <1>4, <2>4, <3>1
  <2>8. \A op \in 1..MaxRevision : op > minted' => journal'[op] = "none"
    BY <1>1, <1>3, <2>1, <2>2 DEF RecordInv
  <2>9. \A a, b \in Manager : manager'[a].stage # "idle" /\ manager'[b].stage # "idle"
          /\ manager'[a].to = manager'[b].to => a = b
    BY <1>4, <2>1, <2>4 DEF RecordInv
  <2>10. Holding(m)' => Recorded(p)' /\ Excused(p.before, {p.to})'
    <3>1. CASE q.stage = "idle"
      BY <3>1 DEF Holding
    <3>2. CASE q.stage = "applying" /\ q.to = p.to /\ q.before = host
      BY <1>2, <2>3, <2>5, <3>2 DEF Recorded, Excused, BackwardSteps
    <3> QED BY <2>4, <3>1, <3>2
  <2>11. /\ lock' # "agent" /\ agent' # "publishing"
    <3>1. lock' = m \/ lock' = Nobody
      BY <1>6, <2>1 DEF Begin
    <3>2. agent = "idle"
      BY <2>1, ConfigurationAssumption DEF IInv, LockInv
    <3> QED BY <1>2, <3>1, <3>2, ConfigurationAssumption DEF agentVars
  <2> QED BY <2>3, <2>6, <2>7, <2>8, <2>9, <2>10, <2>11 DEF RecordInv
<1> QED BY <1>5, <1>6

\* The agent leaves a host whose files agree, or its own operation blocked.
LEMMA AgentRecord ==
  ASSUME IInv, RecordInv,
         AgentRefresh \/ AgentBegin \/ AgentSwitch \/ AgentPublish \/ AgentFail
           \/ AgentReconcile
  PROVE  RecordInv'
<1>1. /\ UNCHANGED <<minted, journal, manager>>
      /\ lock \in {Nobody, "agent"} /\ lock' \in {Nobody, "agent"} /\ Nobody # "agent"
      /\ host \in Host
  BY ConfigurationAssumption
     DEF AgentRefresh, AgentBegin, AgentSwitch, AgentPublish, AgentFail, AgentReconcile,
         IInv, LockInv, ConfigTypeOK
<1>2. \A m \in Manager : ~Holding(m) /\ ~Holding(m)'
  BY <1>1, ConfigurationAssumption DEF IInv, LockInv, Holding
<1>3. /\ lock = Nobody => Excused(host, {})
      /\ lock = "agent" => ~barrier /\ host.env = host.config
                           /\ host.locator.revision = host.config
      /\ agent = "publishing" => host.app = host.config
      /\ agent # "idle" <=> lock = "agent"
  BY DEF RecordInv, IInv, LockInv
<1>4. SUFFICES /\ lock' = Nobody => Excused(host, {})'
               /\ lock' = "agent" => ~barrier' /\ host'.env = host'.config
                                     /\ host'.locator.revision = host'.config
               /\ agent' = "publishing" => host'.app = host'.config
  BY <1>1, <1>2 DEF RecordInv
<1>5. CASE AgentRefresh
  BY <1>1, <1>3, <1>5 DEF AgentRefresh, Excused, Open, agentVars, Host
<1>6. CASE AgentBegin
  BY <1>1, <1>3, <1>6 DEF AgentBegin, AgentMayBind, Aligned, Host
<1>7. CASE AgentSwitch
  BY <1>1, <1>3, <1>7 DEF AgentSwitch, Host
<1>8. CASE AgentPublish
  BY <1>1, <1>3, <1>8 DEF AgentPublish, Excused, Host, Locator
<1>9. CASE AgentFail
  BY <1>1, <1>9 DEF AgentFail, Excused
<1>10. CASE AgentReconcile
  BY <1>1, <1>3, <1>10 DEF AgentReconcile, AgentMayBind, Aligned, Excused, Host, Locator
<1> QED BY <1>5, <1>6, <1>7, <1>8, <1>9, <1>10

\* Every step keeps the records true.
LEMMA RecordStepInv == IInv /\ RecordInv /\ [ConfigNext]_vars => RecordInv'
<1> SUFFICES ASSUME IInv, RecordInv, [ConfigNext]_vars PROVE RecordInv'
  OBVIOUS
<1>1. CASE UNCHANGED vars
  BY <1>1 DEF vars, agentVars, RecordInv, Recorded, Excused, Open, Holding, Uniform
<1> QED BY <1>1, DoRecord, HandlerRecord, EndRecord, AdmissionRecord, AgentRecord DEF ConfigNext

(* A host whose files and running application follow different revisions      *)
(* while nobody works on it has an unfinished operation on record             *)
(* (LocalConfigurationOperationJournal).                                      *)
THEOREM RecordSaysHalfDone == ConfigSpec => []HalfDoneIsOnRecord
<1>1. ConfigInit => RecordInv
  BY InitInv DEF Inv
<1>2. RecordInv => HalfDoneIsOnRecord
  BY DEF RecordInv, HalfDoneIsOnRecord, Excused, Open, Uniform
<1> QED BY <1>1, <1>2, RecordStepInv, Reachable, PTL DEF ConfigSpec

-----------------------------------------------------------------------------
(* The backup beside it. *)

BackupStages == {"stop", "barrier", "inventory", "key", "dump", "copy", "finalize", "verify"}
Outcomes == {"none", "BACKUP_SUCCEEDED", "BACKUP_FAILED_NO_RUNTIME_DAMAGE", "RECOVERY_REQUIRED"}
Command ==
  [stage : BackupStages \cup {"idle", "planned", "restore", "health", "done"}, seen : Seen,
   ran : BOOLEAN, failed : BOOLEAN, bound : BOOLEAN, outcome : Outcomes]

BackupTypeOK ==
  /\ media \in Media
  /\ backup \in Command
  /\ bundle \in [state : {"none", "staging", "published"}, files : Upload, rows : Upload,
                 seen : Seen]
  /\ key \in BOOLEAN

\* A backup past its admission has the lock, and only then.
InFlight == backup.stage \notin {"idle", "planned"}

\* Where the API is: behind the barrier it is down, afterwards what it was.
WritersInv ==
  /\ backup.stage = "stop" => (backup.ran <=> host.app # Down)
  /\ backup.stage \in BackupStages \ {"stop"} => host.app = Down
  /\ backup.stage = "restore" /\ ~backup.ran => host.app = Down
  /\ backup.stage = "health" \/ (backup.stage = "done" /\ backup.outcome # "RECOVERY_REQUIRED")
       => host.app = IF backup.ran THEN host.config ELSE Down

\* What was found behind the barrier stays: nobody uploads any more.
MediaInv ==
  backup.stage \in {"key", "dump", "copy", "finalize", "verify"} =>
    media = backup.seen.media /\ media.files = media.rows

\* How far the bundle and its key have come.
BundleInv ==
  /\ InFlight => bundle.seen = backup.seen
  /\ backup.stage \in {"stop", "barrier", "inventory", "key"} => ~key
  /\ backup.stage \in {"stop", "barrier", "inventory", "key", "dump"} => bundle.state = "none"
  /\ backup.stage \in {"dump", "copy", "finalize"} => key
  /\ backup.stage \in {"copy", "finalize"} =>
       bundle.state = "staging" /\ bundle.rows = media.rows
  /\ backup.stage = "finalize" => bundle.files = media.files
  /\ backup.stage \in BackupStages \cup {"planned"} =>
       ~backup.failed /\ (backup.bound <=> backup.stage = "verify")
  /\ InFlight /\ backup.bound => key /\ bundle.state = "published"
  /\ backup.stage \in {"restore", "health"} /\ ~backup.failed => backup.bound
  /\ backup.stage = "done" =>
       /\ ~backup.bound => ~key
       /\ backup.outcome = "BACKUP_SUCCEEDED" => backup.bound

BackupInv ==
  /\ BackupTypeOK
  /\ InFlight <=> lock = "backup"
  /\ WritersInv /\ MediaInv /\ BundleInv /\ BundleIsOfOneMoment

\* The host a backup gives back is one that nobody has to excuse.
GuestRecordInv ==
  lock = "backup" =>
    /\ Excused(host, {})
    /\ backup.ran =>
         \/ host.env = host.config /\ host.locator.revision = host.config
         \/ \E op \in 1..MaxRevision : Open(op)

-----------------------------------------------------------------------------
(* The steps of a backup.                                                     *)

\* The steps by name, and which follows which.
LEMMA BackupOrder ==
  /\ Range(BackupSteps) = BackupStages /\ Head(BackupSteps) = "stop"
  /\ Following("stop") = "barrier" /\ Following("barrier") = "inventory"
  /\ Following("inventory") = "key" /\ Following("key") = "dump"
  /\ Following("dump") = "copy" /\ Following("copy") = "finalize"
  /\ Following("finalize") = "verify" /\ Following("verify") = "restore"
<1>1. DOMAIN BackupSteps = 1..8 /\ Head(BackupSteps) = "stop"
  BY DEF BackupSteps
<1>2. Range(BackupSteps) = BackupStages
  <2>1. BackupStages \subseteq Range(BackupSteps)
    BY <1>1 DEF BackupSteps, BackupStages, Range
  <2>2. ASSUME NEW i \in 1..8 PROVE BackupSteps[i] \in BackupStages
    BY DEF BackupSteps, BackupStages
  <2> QED BY <1>1, <2>1, <2>2 DEF Range
<1>3. ASSUME NEW i \in 1..7 PROVE After(BackupSteps, BackupSteps[i]) = BackupSteps[1 + i]
  <2>1. (CHOOSE j \in DOMAIN BackupSteps : BackupSteps[j] = BackupSteps[i]) = i
    BY <1>1 DEF BackupSteps
  <2> QED BY <2>1 DEF After
<1>4. /\ After(BackupSteps, "stop") = "barrier" /\ After(BackupSteps, "barrier") = "inventory"
      /\ After(BackupSteps, "inventory") = "key" /\ After(BackupSteps, "key") = "dump"
      /\ After(BackupSteps, "dump") = "copy" /\ After(BackupSteps, "copy") = "finalize"
      /\ After(BackupSteps, "finalize") = "verify"
  BY <1>3 DEF BackupSteps
<1> QED BY <1>1, <1>2, <1>4 DEF Following

\* The initial state satisfies the invariants.
LEMMA BackupInitInv == BackupInit => IInv /\ RecordInv /\ BackupInv /\ GuestRecordInv
<1> SUFFICES ASSUME BackupInit PROVE IInv /\ RecordInv /\ BackupInv /\ GuestRecordInv
  OBVIOUS
<1>1. IInv /\ RecordInv
  BY InitInv DEF BackupInit, Inv
<1>2. lock = Nobody /\ Nobody # "backup"
  BY ConfigurationAssumption, BackupAssumption DEF BackupInit, ConfigInit
<1>3. BackupTypeOK
  <2>1. 0 \in Upload /\ Origin.locator \in Locator
    BY ConfigurationAssumption, BackupAssumption DEF Upload, Origin, Locator, Revision
  <2>2. Quiet.seen \in Seen
    BY <2>1 DEF Quiet, Seen, Media
  <2> QED BY <2>1, <2>2
       DEF BackupInit, BackupTypeOK, Media, Command, Quiet, NoBundle, Outcomes
<1>4. ~InFlight /\ bundle.state = "none"
  BY DEF BackupInit, InFlight, Quiet, NoBundle
<1>5. WritersInv /\ MediaInv /\ BundleInv /\ BundleIsOfOneMoment
  BY <1>4 DEF BackupInit, Quiet, WritersInv, MediaInv, BundleInv, BundleIsOfOneMoment,
     BackupStages, InFlight
<1> QED BY <1>1, <1>2, <1>3, <1>4, <1>5 DEF BackupInv, GuestRecordInv

-----------------------------------------------------------------------------
(* Beside the configuration transaction.                                      *)

\* While a backup has the lock nobody else moves the host or writes a record,
\* and nobody else takes the lock in its name.
LEMMA OthersWait ==
  ASSUME IInv, ConfigNext
  PROVE  /\ lock = "backup" => UNCHANGED <<host, journal, lock, agentVars>>
         /\ lock # "backup" => lock' # "backup"
<1>1. "backup" \notin Manager /\ "backup" # Nobody /\ "backup" # "agent"
  BY ConfigurationAssumption, BackupAssumption
<1>2. ASSUME NEW m \in Manager, Validate(m) \/ Begin(m)
      PROVE  /\ lock = "backup" => UNCHANGED <<host, journal, lock, agentVars>>
             /\ lock # "backup" => lock' # "backup"
  BY <1>1, <1>2 DEF Validate, Begin
<1>3. ASSUME NEW m \in Manager,
             Do(m) \/ Classify(m) \/ MarkApplyFailed(m) \/ MarkRecoveryRequired(m)
               \/ Return(m) \/ Kill(m)
      PROVE  lock = m /\ lock' \in {m, Nobody}
  <2>1. CASE Do(m)
    BY <2>1, DoShape DEF IInv, LockInv
  <2> QED BY <1>3, <2>1
       DEF Classify, MarkApplyFailed, MarkRecoveryRequired, Conclude, Return, Kill, IInv,
           LockInv, Holding
<1>4. ASSUME AgentRefresh \/ AgentBegin \/ AgentSwitch \/ AgentPublish \/ AgentFail
               \/ AgentReconcile
      PROVE  lock # "backup" /\ lock' # "backup"
  BY <1>1, <1>4
     DEF AgentRefresh, AgentBegin, AgentSwitch, AgentPublish, AgentFail, AgentReconcile,
         IInv, LockInv
<1> QED BY <1>1, <1>2, <1>3, <1>4 DEF ConfigNext

\* A backup that only starts or stops the API, or takes or frees the lock,
\* disturbs no command line and not the agent.
LEMMA GuestKeepsConfig ==
  ASSUME IInv, UNCHANGED <<minted, journal, manager, agentVars>>, budget' \in 0..MaxFaults,
         lock \in {Nobody, "backup"}, lock' \in {Nobody, "backup"},
         host' = host \/ \E a \in Revision \cup {Down} : host' = [host EXCEPT !.app = a]
  PROVE  /\ IInv'
         /\ RecordInv /\ (lock' = Nobody => Excused(host, {})') => RecordInv'
<1>1. /\ "backup" \notin Manager /\ "backup" # Nobody /\ "backup" # "agent"
      /\ Nobody \notin Manager /\ Nobody # "agent" /\ "backup" \in Guest
  BY ConfigurationAssumption, BackupAssumption
<1>2. /\ \A m \in Manager : ~Holding(m) /\ ~Holding(m)'
      /\ agent = "idle" /\ agent' = "idle"
  BY <1>1 DEF IInv, LockInv, Holding, agentVars
<1>3. host' \in Host /\ host'.config = host.config
  BY DEF IInv, ConfigTypeOK, Host
<1>4. ConfigTypeOK'
  BY <1>1, <1>3 DEF IInv, ConfigTypeOK, agentVars
<1>5. LockInv' /\ RevisionInv' /\ PlanInv' /\ ReachedInv'
  BY <1>1, <1>2, <1>3 DEF IInv, LockInv, RevisionInv, PlanInv, ReachedInv, Holding
<1>6. RecordInv /\ (lock' = Nobody => Excused(host, {})') => RecordInv'
  BY <1>1, <1>2 DEF RecordInv
<1> QED BY <1>4, <1>5, <1>6 DEF IInv

-----------------------------------------------------------------------------
(* Every step keeps the invariant of the backup.                              *)

\* Types, before the step is looked at more closely.
LEMMA FaultType == IInv /\ (Fault \/ UNCHANGED budget) => budget' \in 0..MaxFaults
BY ConfigurationAssumption DEF IInv, ConfigTypeOK, Fault

\* The configuration transaction and the agent.
LEMMA ConfigKeepsBackup ==
  ASSUME IInv, BackupInv, ConfigNext, UNCHANGED <<media, backupVars>>
  PROVE  BackupInv' /\ (GuestRecordInv => GuestRecordInv')
<1>1. /\ lock = "backup" => UNCHANGED <<host, journal, lock, agentVars>>
      /\ lock = "backup" <=> lock' = "backup"
  BY OthersWait
<1>2. /\ BackupTypeOK' /\ (InFlight <=> lock = "backup")' /\ MediaInv' /\ BundleInv'
      /\ BundleIsOfOneMoment'
  BY <1>1 DEF BackupInv, BackupTypeOK, MediaInv, BundleInv, BundleIsOfOneMoment, InFlight,
     backupVars
<1>3. WritersInv'
  <2>1. CASE lock = "backup"
    BY <1>1, <2>1 DEF BackupInv, WritersInv, backupVars, Down
  <2>2. CASE lock # "backup"
    BY <2>2 DEF BackupInv, WritersInv, InFlight, backupVars, BackupStages
  <2> QED BY <2>1, <2>2
<1>4. GuestRecordInv => GuestRecordInv'
  BY <1>1 DEF GuestRecordInv, Excused, Open, agentVars, backupVars
<1> QED BY <1>2, <1>3, <1>4 DEF BackupInv

\* Uploads happen only while the API runs, hence never behind the barrier.
LEMMA UploadsKeepBackup ==
  ASSUME IInv, BackupInv, UploadWrites \/ UploadCommits
  PROVE  BackupInv'
<1>1. host.app # Down /\ UNCHANGED <<vars, backupVars>>
  BY DEF UploadWrites, UploadCommits
<1>2. backup.stage \notin BackupStages \ {"stop"}
  BY <1>1 DEF BackupInv, WritersInv
<1>3. media' \in Media
  BY BackupAssumption DEF UploadWrites, UploadCommits, BackupInv, BackupTypeOK, Media, Upload
<1>4. BackupTypeOK' /\ (InFlight <=> lock = "backup")' /\ WritersInv' /\ BundleIsOfOneMoment'
  BY <1>1, <1>3 DEF BackupInv, BackupTypeOK, WritersInv, BundleIsOfOneMoment, InFlight,
     backupVars, vars, Down
<1>5. MediaInv' /\ BundleInv'
  BY <1>1, <1>2 DEF BackupInv, MediaInv, BundleInv, InFlight, backupVars, BackupStages
<1> QED BY <1>4, <1>5 DEF BackupInv

\* Planning, a refused plan, and the admission under the lock.
LEMMA AdmissionKeepsBackup ==
  ASSUME IInv, BackupInv, Plan \/ BeginBackup
  PROVE  BackupInv'
<1>1. UNCHANGED <<host, media>> /\ ~InFlight /\ lock # "backup"
  BY DEF Plan, BeginBackup, BackupInv, InFlight, vars
<1>2. Quiet \in Command /\ Quiet.stage = "idle" /\ Binding \in Seen
  BY ConfigurationAssumption, BackupAssumption
     DEF Quiet, Command, Seen, Media, Upload, Origin, Locator, Revision, Outcomes, Binding,
         BackupInv, BackupTypeOK, IInv, ConfigTypeOK, Host
<1>3. CASE Plan \/ (BeginBackup /\ ~Admissible)
  <2>1. UNCHANGED <<bundle, key, lock>>
    BY <1>3 DEF Plan, BeginBackup, vars
  <2>2. backup' = Quiet \/ backup' = [[Quiet EXCEPT !.stage = "planned"] EXCEPT !.seen = Binding]
    BY <1>3 DEF Plan, BeginBackup
  <2>3. /\ backup' \in Command /\ backup'.stage \in {"idle", "planned"}
        /\ ~backup'.failed /\ ~backup'.bound
    BY <1>2, <2>2 DEF Command, Quiet
  <2>4. ~InFlight'
    BY <2>3 DEF InFlight
  <2> QED BY <1>1, <2>1, <2>3, <2>4
       DEF BackupInv, BackupTypeOK, WritersInv, MediaInv, BundleInv, BundleIsOfOneMoment,
           BackupStages, InFlight
<1>4. CASE BeginBackup /\ Admissible
  <2>1. /\ backup.stage = "planned" /\ lock' = "backup" /\ key' = FALSE
        /\ backup' = [backup EXCEPT !.stage = "stop", !.ran = host.app # Down]
        /\ bundle' = [NoBundle EXCEPT !.seen = backup.seen]
    BY <1>4, BackupOrder DEF BeginBackup
  <2>2. /\ backup' \in Command /\ backup'.stage = "stop" /\ backup'.seen = backup.seen
        /\ backup'.ran <=> host.app # Down
    BY <2>1 DEF BackupInv, BackupTypeOK, Command, BackupStages
  <2>3. /\ bundle' = [state |-> "none", files |-> 0, rows |-> 0, seen |-> backup.seen]
        /\ bundle' \in [state : {"none", "staging", "published"}, files : Upload,
                        rows : Upload, seen : Seen]
    BY <2>1, BackupAssumption DEF NoBundle, BackupInv, BackupTypeOK, Command, Upload
  <2>4. ~backup'.failed /\ ~backup'.bound
    BY <1>1, <2>1 DEF BackupInv, BundleInv, BackupTypeOK, Command
  <2>5. InFlight'
    BY <2>2 DEF InFlight
  <2>6. BackupTypeOK'
    BY <1>1, <2>1, <2>2, <2>3 DEF BackupInv, BackupTypeOK
  <2>7. WritersInv' /\ MediaInv'
    BY <1>1, <2>2 DEF WritersInv, MediaInv, BackupStages, Down
  <2>8. BundleInv' /\ BundleIsOfOneMoment'
    BY <2>1, <2>2, <2>3, <2>4 DEF BundleInv, BundleIsOfOneMoment, BackupStages
  <2> QED BY <2>1, <2>5, <2>6, <2>7, <2>8 DEF BackupInv
<1> QED BY <1>3, <1>4

\* A step up to the verification is done.
LEMMA StepKeepsBackup ==
  ASSUME IInv, BackupInv, BackupStep
  PROVE  BackupInv'
<1> DEFINE s == backup.stage
<1>1. /\ s \in BackupStages /\ lock = "backup" /\ UNCHANGED <<media, lock>>
      /\ backup \in Command /\ media \in Media
      /\ bundle \in [state : {"none", "staging", "published"}, files : Upload, rows : Upload,
                     seen : Seen]
      /\ backup' = [backup EXCEPT !.stage = Following(s), !.bound = Bound(s)]
      /\ Found(s)
  BY BackupOrder DEF BackupStep, BackupInv, InFlight, BackupTypeOK, BackupStages
<1>2. /\ Following(s) \in BackupStages \cup {"restore"}
      /\ Following(s) # "stop" /\ Bound(s) \in BOOLEAN
  BY <1>1, BackupOrder DEF BackupStages, Bound, Command
<1>3. /\ backup' \in Command /\ backup'.stage = Following(s) /\ backup'.bound = Bound(s)
      /\ backup'.seen = backup.seen /\ backup'.ran = backup.ran /\ backup'.failed = backup.failed
      /\ backup'.outcome = backup.outcome
  BY <1>1, <1>2 DEF Command
<1>4. InFlight /\ InFlight'
  BY <1>1, <1>2, <1>3 DEF InFlight, BackupStages
<1>5. host'.app = Down
  <2>1. CASE s = "stop"
    BY <1>1, <2>1 DEF BackupStep, StopWriters, BackupInv, WritersInv, IInv, ConfigTypeOK, Host
  <2>2. CASE s # "stop"
    BY <1>1, <2>2 DEF BackupStep, BackupInv, WritersInv
  <2> QED BY <2>1, <2>2
<1>6. WritersInv'
  BY <1>2, <1>3, <1>5 DEF WritersInv, BackupStages, Down
<1>7. MediaInv'
  <2>1. CASE s = "inventory"
    BY <1>1, <1>3, <2>1 DEF Found, Pending, MediaInv
  <2>2. CASE s # "inventory"
    BY <1>1, <1>3, <2>2, BackupOrder DEF BackupInv, MediaInv, BackupStages
  <2> QED BY <2>1, <2>2
<1>8. /\ s \notin Copying => bundle' = bundle
      /\ s = "dump" => bundle' = [bundle EXCEPT !.state = "staging", !.rows = media.rows]
      /\ s = "copy" => bundle' = [bundle EXCEPT !.files = media.files]
      /\ s = "finalize" => bundle' = [bundle EXCEPT !.state = "published"]
  BY DEF BackupStep, Capture, Copying
<1>9. key' = (key \/ s = "key")
  BY DEF BackupStep, BackupInv, BackupTypeOK
<1>10. BundleInv
  BY DEF BackupInv
<1>11. CASE s \notin Copying
  <2>1. bundle' = bundle
    BY <1>8, <1>11
  <2>2. BundleInv'
    BY <1>1, <1>3, <1>4, <1>9, <1>10, <1>11, <2>1, BackupOrder
       DEF BundleInv, BackupStages, Bound, Copying, Command
  <2>3. BundleIsOfOneMoment'
    BY <2>1 DEF BackupInv, BundleIsOfOneMoment
  <2>4. BackupTypeOK'
    BY <1>1, <1>3, <1>9, <2>1 DEF BackupInv, BackupTypeOK
  <2> QED BY <1>1, <1>4, <1>6, <1>7, <2>2, <2>3, <2>4 DEF BackupInv
<1>12. CASE s \in Copying
  <2>1. /\ bundle' \in [state : {"none", "staging", "published"}, files : Upload, rows : Upload,
                        seen : Seen]
        /\ bundle'.seen = bundle.seen
        /\ s = "dump" => bundle'.state = "staging" /\ bundle'.rows = media.rows
        /\ s = "copy" => /\ bundle'.files = media.files /\ bundle'.rows = bundle.rows
                         /\ bundle'.state = bundle.state
        /\ s = "finalize" => /\ bundle'.files = bundle.files /\ bundle'.rows = bundle.rows
                             /\ bundle'.state = "published"
    BY <1>1, <1>8, <1>12 DEF Copying, Media
  <2>2. BundleInv'
    <3>1. CASE s = "dump"
      BY <1>1, <1>3, <1>4, <1>9, <1>10, <2>1, <3>1, BackupOrder
         DEF BundleInv, BackupStages, Bound, Command
    <3>2. CASE s = "copy"
      BY <1>1, <1>3, <1>4, <1>9, <1>10, <2>1, <3>2, BackupOrder
         DEF BundleInv, BackupStages, Bound, Command
    <3>3. CASE s = "finalize"
      BY <1>1, <1>3, <1>4, <1>9, <1>10, <2>1, <3>3, BackupOrder
         DEF BundleInv, BackupStages, Bound, Command
    <3> QED BY <1>12, <3>1, <3>2, <3>3 DEF Copying
  <2>3. BundleIsOfOneMoment'
    <3>1. CASE s = "finalize"
      <4>1. /\ media = backup.seen.media /\ media.files = media.rows
            /\ bundle.seen = backup.seen
            /\ bundle.rows = media.rows /\ bundle.files = media.files
        BY <1>4, <1>10, <3>1 DEF BackupInv, MediaInv, BundleInv
      <4>2. media = [files |-> media.files, rows |-> media.rows]
        BY <1>1 DEF Media
      <4> QED BY <2>1, <3>1, <4>1, <4>2 DEF BundleIsOfOneMoment
    <3>2. CASE s # "finalize"
      <4>1. bundle'.state # "published"
        BY <1>10, <1>12, <2>1, <3>2 DEF BundleInv, Copying
      <4> QED BY <4>1 DEF BundleIsOfOneMoment
    <3> QED BY <3>1, <3>2
  <2>4. BackupTypeOK'
    BY <1>1, <1>3, <1>9, <2>1 DEF BackupInv, BackupTypeOK
  <2> QED BY <1>1, <1>4, <1>6, <1>7, <2>2, <2>3, <2>4 DEF BackupInv
<1> QED BY <1>11, <1>12

\* A step fails: whatever was stopped or published, the writers come next.
LEMMA ErrorKeepsBackup ==
  ASSUME IInv, BackupInv, BackupError
  PROVE  BackupInv'
<1> DEFINE s == backup.stage
<1>1. /\ s \in BackupStages /\ lock = "backup" /\ UNCHANGED <<media, lock, key>>
      /\ backup \in Command
      /\ bundle \in [state : {"none", "staging", "published"}, files : Upload, rows : Upload,
                     seen : Seen]
      /\ backup' = [backup EXCEPT !.stage = "restore", !.failed = TRUE]
  BY BackupOrder DEF BackupError, BackupInv, InFlight, BackupTypeOK, BackupStages
<1>2. /\ backup' \in Command /\ backup'.stage = "restore" /\ backup'.bound = backup.bound
      /\ backup'.seen = backup.seen /\ backup'.ran = backup.ran /\ backup'.failed
  BY <1>1 DEF Command
<1>3. InFlight /\ InFlight'
  BY <1>1, <1>2 DEF InFlight, BackupStages
<1>4. ~backup.ran => host'.app = Down
  <2>1. ~backup.ran => host.app = Down
    BY <1>1 DEF BackupInv, WritersInv, Down
  <2>2. ~backup.ran => host' = host
    BY DEF BackupError, StopWriters
  <2> QED BY <2>1, <2>2
<1>5. WritersInv' /\ MediaInv'
  BY <1>2, <1>4 DEF WritersInv, MediaInv, BackupStages
<1>6. CASE bundle' = bundle
  <2>1. BundleInv'
    BY <1>1, <1>2, <1>3, <1>6 DEF BackupInv, BundleInv, BackupStages
  <2> QED BY <1>1, <1>2, <1>3, <1>5, <1>6, <2>1
       DEF BackupInv, BackupTypeOK, BundleIsOfOneMoment
<1>7. CASE s = "finalize" /\ bundle' = [bundle EXCEPT !.state = "published"]
  <2>1. /\ bundle' \in [state : {"none", "staging", "published"}, files : Upload,
                        rows : Upload, seen : Seen]
        /\ bundle'.seen = bundle.seen /\ bundle'.files = bundle.files
        /\ bundle'.rows = bundle.rows
    BY <1>1, <1>7
  <2>2. ~backup.bound
    BY <1>7 DEF BackupInv, BundleInv, BackupStages
  <2>3. BundleInv'
    BY <1>1, <1>2, <1>3, <2>1, <2>2 DEF BackupInv, BundleInv, BackupStages
  <2>4. BundleIsOfOneMoment'
    <3>1. /\ media = backup.seen.media /\ media.files = media.rows
          /\ bundle.seen = backup.seen
          /\ bundle.rows = media.rows /\ bundle.files = media.files
      BY <1>3, <1>7 DEF BackupInv, MediaInv, BundleInv
    <3>2. media = [files |-> media.files, rows |-> media.rows]
      BY DEF BackupInv, BackupTypeOK, Media
    <3> QED BY <2>1, <3>1, <3>2 DEF BundleIsOfOneMoment
  <2> QED BY <1>1, <1>2, <1>3, <1>5, <2>1, <2>3, <2>4 DEF BackupInv, BackupTypeOK
<1>8. bundle' = bundle \/ (s = "finalize" /\ bundle' = [bundle EXCEPT !.state = "published"])
  BY DEF BackupError, Capture
<1> QED BY <1>6, <1>7, <1>8

\* The writers are started again, and the result is known.
LEMMA OutKeepsBackup ==
  ASSUME IInv, BackupInv, Restore \/ VerifyHealth
  PROVE  BackupInv'
<1>1. /\ backup.stage \in {"restore", "health"} /\ lock = "backup"
      /\ UNCHANGED <<media, bundle, lock>> /\ backup \in Command
  BY DEF Restore, VerifyHealth, BackupInv, InFlight, BackupTypeOK
<1>2. /\ backup' \in Command /\ backup'.stage \in {"health", "done"}
      /\ backup'.bound = backup.bound /\ backup'.seen = backup.seen
      /\ backup'.ran = backup.ran /\ backup'.failed = backup.failed
      /\ backup'.stage = "done" =>
           /\ backup'.outcome # "none"
           /\ backup'.outcome = "BACKUP_SUCCEEDED" => backup.stage = "health" /\ ~backup.failed
  BY <1>1 DEF Restore, VerifyHealth, Command, Outcomes
<1>3. \/ key' = key /\ (backup'.stage = "health" \/ backup'.outcome = "BACKUP_SUCCEEDED")
      \/ key' = (key /\ backup.bound) /\ backup'.outcome # "BACKUP_SUCCEEDED"
           /\ backup'.stage = "done"
  <2>1. CASE Restore
    BY <1>1, <2>1 DEF Restore, Discarded, Command
  <2>2. CASE VerifyHealth
    <3>1. /\ backup'.stage = "done"
          /\ \/ /\ backup'.outcome = "BACKUP_SUCCEEDED" /\ ~backup.failed /\ UNCHANGED key
             \/ backup'.outcome # "BACKUP_SUCCEEDED" /\ Discarded
      BY <1>1, <2>2 DEF VerifyHealth, Command
    <3> QED BY <3>1 DEF Discarded
  <2> QED BY <2>1, <2>2
<1>4. InFlight /\ InFlight'
  BY <1>1, <1>2 DEF InFlight
<1>5. WritersInv'
  <2>1. CASE Restore /\ backup'.stage = "health"
    BY <1>1, <1>2, <2>1
       DEF Restore, StartWriters, BackupInv, WritersInv, IInv, ConfigTypeOK, Host, Command,
           BackupStages
  <2>2. CASE Restore /\ backup'.stage = "done"
    BY <1>1, <1>2, <2>2 DEF Restore, WritersInv, Command, BackupStages
  <2>3. CASE VerifyHealth
    BY <1>1, <1>2, <2>3 DEF VerifyHealth, BackupInv, WritersInv, Command, BackupStages
  <2> QED BY <1>2, <2>1, <2>2, <2>3
<1>6. BundleInv' /\ MediaInv'
  <2>1. backup'.bound => key' /\ bundle'.state = "published"
    BY <1>1, <1>2, <1>3, <1>4 DEF BackupInv, BundleInv
  <2>2. backup'.stage = "done" =>
          /\ ~backup'.bound => ~key'
          /\ backup'.outcome = "BACKUP_SUCCEEDED" => backup'.bound
    <3>1. backup.stage = "health" /\ ~backup.failed => backup.bound
      BY DEF BackupInv, BundleInv
    <3> QED BY <1>2, <1>3, <3>1
  <2> QED BY <1>1, <1>2, <1>4, <2>1, <2>2 DEF BackupInv, BundleInv, MediaInv, BackupStages
<1>7. BackupTypeOK' /\ BundleIsOfOneMoment'
  BY <1>1, <1>2, <1>3 DEF BackupInv, BackupTypeOK, BundleIsOfOneMoment, Command
<1> QED BY <1>1, <1>4, <1>5, <1>6, <1>7 DEF BackupInv

\* The command returns or is killed.
LEMMA EndKeepsBackup ==
  ASSUME IInv, BackupInv, ReturnBackup \/ KillBackup
  PROVE  BackupInv'
<1>1. /\ backup' = Quiet /\ lock' = Nobody /\ UNCHANGED <<media, bundle, key>>
      /\ Nobody # "backup"
  BY ConfigurationAssumption, BackupAssumption DEF ReturnBackup, KillBackup
<1>2. Quiet \in Command /\ Quiet.stage = "idle"
  BY ConfigurationAssumption, BackupAssumption
     DEF Quiet, Command, Seen, Media, Upload, Origin, Locator, Revision, Outcomes
<1> QED BY <1>1, <1>2
     DEF BackupInv, BackupTypeOK, WritersInv, MediaInv, BundleInv, BundleIsOfOneMoment,
         BackupStages, InFlight

\* What a step of the backup may touch.
LEMMA BackupTouches ==
  ASSUME IInv, BackupInv, BeginBackup \/ BackupAdvance \/ KillBackup
  PROVE  /\ UNCHANGED <<minted, journal, manager, agentVars>> /\ budget' \in 0..MaxFaults
         /\ lock \in {Nobody, "backup"} /\ lock' \in {Nobody, "backup"}
         /\ \/ host' = host
            \/ /\ lock = "backup" /\ backup.ran
               /\ \/ host' = [host EXCEPT !.app = Down]
                  \/ host' = [host EXCEPT !.app = host.config]
<1>1. ASSUME BeginBackup
      PROVE  /\ UNCHANGED <<minted, journal, manager, agentVars, host, budget>>
             /\ lock = Nobody /\ lock' \in {Nobody, "backup"}
  BY <1>1 DEF BeginBackup
<1>2. ASSUME BackupAdvance \/ KillBackup
      PROVE  /\ UNCHANGED <<minted, journal, manager, agentVars>> /\ budget' \in 0..MaxFaults
             /\ lock = "backup" /\ lock' \in {Nobody, "backup"}
             /\ host' = host \/ StopWriters \/ StartWriters
  <2>1. lock = "backup"
    BY <1>2, BackupOrder
       DEF BackupAdvance, BackupStep, BackupError, Restore, VerifyHealth, ReturnBackup,
           KillBackup, BackupInv, InFlight, BackupStages
  <2>2. budget' \in 0..MaxFaults
    BY <1>2, ConfigurationAssumption
       DEF BackupAdvance, BackupStep, BackupError, Restore, VerifyHealth, ReturnBackup,
           KillBackup, Fault, IInv, ConfigTypeOK
  <2>3. /\ UNCHANGED <<minted, journal, manager, agentVars>> /\ lock' \in {lock, Nobody}
        /\ host' = host \/ StopWriters \/ StartWriters
    BY <1>2
       DEF BackupAdvance, BackupStep, BackupError, Restore, VerifyHealth, ReturnBackup,
           KillBackup
  <2> QED BY <2>1, <2>2, <2>3
<1>3. budget \in 0..MaxFaults
  BY DEF IInv, ConfigTypeOK
<1> QED BY <1>1, <1>2, <1>3 DEF StopWriters, StartWriters

\* Every step keeps both invariants.
LEMMA BackupStepInv == IInv /\ BackupInv /\ [BackupNext]_hostVars => IInv' /\ BackupInv'
<1> SUFFICES ASSUME IInv, BackupInv, [BackupNext]_hostVars PROVE IInv' /\ BackupInv'
  OBVIOUS
<1>1. CASE ConfigNext /\ UNCHANGED <<media, backupVars>>
  BY <1>1, ConfigKeepsBackup, StepInv
<1>2. CASE UploadWrites \/ UploadCommits \/ Plan
  <2>1. UNCHANGED vars
    BY <1>2 DEF UploadWrites, UploadCommits, Plan
  <2> QED BY <1>2, <2>1, StepInv, UploadsKeepBackup, AdmissionKeepsBackup
<1>3. CASE BeginBackup \/ BackupAdvance \/ KillBackup
  <2>1. BackupInv'
    BY <1>3, AdmissionKeepsBackup, StepKeepsBackup, ErrorKeepsBackup, OutKeepsBackup,
       EndKeepsBackup DEF BackupAdvance
  <2>2. IInv'
    <3>1. host' = host \/ \E a \in Revision \cup {Down} : host' = [host EXCEPT !.app = a]
      BY <1>3, BackupTouches DEF IInv, ConfigTypeOK, Host
    <3> QED BY <1>3, <3>1, BackupTouches, GuestKeepsConfig
  <2> QED BY <2>1, <2>2
<1>4. CASE UNCHANGED hostVars
  <2>1. UNCHANGED vars
    BY <1>4 DEF hostVars
  <2> QED BY <1>4, <2>1, StepInv
       DEF hostVars, backupVars, vars, BackupInv, BackupTypeOK, WritersInv, MediaInv, BundleInv,
           BundleIsOfOneMoment, InFlight, Down
<1> QED BY <1>1, <1>2, <1>3, <1>4 DEF BackupNext

\* Both invariants hold in every reachable state.
LEMMA BackupReachable == BackupSpec => [](IInv /\ BackupInv)
BY BackupInitInv, BackupStepInv, PTL DEF BackupSpec

-----------------------------------------------------------------------------
(* What a backup promises.                                                    *)

(* A published bundle is of the moment its plan was accepted for, and its     *)
(* rows name exactly its files, although the API accepted uploads until it    *)
(* was stopped (ProductionBackupRuntime.execute).                             *)
THEOREM BundlesAreOfOneMoment == BackupSpec => []BundleIsOfOneMoment
<1>1. BackupInv => BundleIsOfOneMoment
  BY DEF BackupInv
<1> QED BY <1>1, BackupReachable, PTL

(* The report of a backup is true of the API, of the bundle and of its key.   *)
THEOREM BackupReportsAreTrue == BackupSpec => []BackupReportIsTrue
<1>1. BackupInv => BackupReportIsTrue
  BY DEF BackupInv, WritersInv, BundleInv, InFlight, BackupReportIsTrue
<1> QED BY <1>1, BackupReachable, PTL

-----------------------------------------------------------------------------
(* What the configuration transaction promises, with backups beside it.       *)

(* The result of a configuration change is still true of the host.            *)
THEOREM ResultsStayTrue == BackupSpec => []ResultIsTrue
<1>1. IInv => ResultIsTrue
  BY DEF IInv, ReachedInv, Reached, Holding, ResultIsTrue
<1> QED BY <1>1, BackupReachable, PTL

(* A misaligned host stays frozen: a backup is refused on it, too.            *)
THEOREM FrozenForBackups == BackupSpec => MisalignedIsFrozen
<1>1. IInv /\ BackupInv /\ [BackupNext]_hostVars
        => [lock = Nobody /\ ~Aligned => UNCHANGED <<host, current>>]_vars
  <2> SUFFICES ASSUME IInv, BackupInv, BackupNext, lock = Nobody, ~Aligned
               PROVE  UNCHANGED <<host, current>>
    BY DEF hostVars
  <2>1. CASE ConfigNext
    BY <2>1, FrozenStep
  <2>2. CASE UploadWrites \/ UploadCommits \/ Plan
    BY <2>2 DEF UploadWrites, UploadCommits, Plan, vars, agentVars
  <2>3. CASE BeginBackup \/ BackupAdvance \/ KillBackup
    BY <2>3, BackupTouches, ConfigurationAssumption, BackupAssumption DEF agentVars
  <2> QED BY <2>1, <2>2, <2>3 DEF BackupNext
<1> QED BY <1>1, BackupReachable, PTL DEF BackupSpec, MisalignedIsFrozen

(* A plan is applied only to the host it was drawn from: a backup between     *)
(* the two changes neither the configuration nor the locator.                 *)
THEOREM PlansFitBesideBackups == BackupSpec => PlanFitsHost
<1>1. IInv /\ BackupInv /\ [BackupNext]_hostVars =>
        [\A m \in Manager : manager[m].stage = "config" /\ host'.config # host.config =>
           host.locator = manager[m].seen /\ host.locator.release = current]_vars
  BY DEF IInv, PlanInv, ReachedInv, Reached, Holding
<1> QED BY <1>1, BackupReachable, PTL DEF BackupSpec, PlanFitsHost

(* The record of a half-done change excuses what it left: a backup starts     *)
(* only what ran, with the configuration it found, and so leaves no host      *)
(* without an excuse behind.                                                  *)
THEOREM RecordSaysHalfDoneBesideBackups == BackupSpec => []HalfDoneIsOnRecord
<1>1. IInv /\ BackupInv /\ RecordInv /\ GuestRecordInv /\ [BackupNext]_hostVars
        => RecordInv' /\ GuestRecordInv'
  <2> SUFFICES ASSUME IInv, BackupInv, RecordInv, GuestRecordInv, [BackupNext]_hostVars
               PROVE  RecordInv' /\ GuestRecordInv'
    OBVIOUS
  <2>1. CASE ConfigNext /\ UNCHANGED <<media, backupVars>>
    BY <2>1, ConfigKeepsBackup, RecordStepInv
  <2>2. CASE UploadWrites \/ UploadCommits \/ Plan
    <3>1. UNCHANGED vars
      BY <2>2 DEF UploadWrites, UploadCommits, Plan
    <3>2. lock = "backup" => backup' = backup
      BY <2>2 DEF UploadWrites, UploadCommits, Plan, backupVars, BackupInv, InFlight
    <3> QED BY <3>1, <3>2, RecordStepInv DEF GuestRecordInv, Excused, Open, vars, agentVars
  <2>3. CASE BeginBackup \/ BackupAdvance \/ KillBackup
    <3>1. /\ Excused(host, {})
          /\ UNCHANGED <<journal, barrier>>
      BY <2>3, BackupTouches DEF RecordInv, GuestRecordInv, agentVars
    <3>2. Excused(host, {})'
      <4>1. CASE host' = host
        BY <3>1, <4>1 DEF Excused, Open
      <4>2. CASE host' = [host EXCEPT !.app = Down]
        BY <4>2 DEF Excused, IInv, ConfigTypeOK, Host
      <4>3. CASE lock = "backup" /\ backup.ran /\ host' = [host EXCEPT !.app = host.config]
        BY <3>1, <4>3 DEF GuestRecordInv, Excused, Open, IInv, ConfigTypeOK, Host
      <4> QED BY <2>3, <4>1, <4>2, <4>3, BackupTouches
    <3>4. lock' = "backup" /\ backup'.ran =>
            \/ host'.env = host'.config /\ host'.locator.revision = host'.config
            \/ \E op \in 1..MaxRevision : Open(op)'
      <4>1. CASE BeginBackup
        <5>1. lock' = "backup" => /\ lock = Nobody /\ Admissible /\ host' = host
                                  /\ backup' = [backup EXCEPT !.stage = Head(BackupSteps),
                                                              !.ran = host.app # Down]
          BY <4>1, ConfigurationAssumption, BackupAssumption DEF BeginBackup
        <5>2. lock' = "backup" /\ backup'.ran => host.app # Down /\ ~barrier /\ host' = host
          BY <5>1 DEF Admissible, BackupInv, BackupTypeOK, Command
        <5> QED BY <3>1, <5>2 DEF Excused, Open
      <4>2. CASE BackupAdvance \/ KillBackup
        <5>1. lock' = "backup" => lock = "backup" /\ backup'.ran = backup.ran
          BY <4>2, ConfigurationAssumption, BackupAssumption
             DEF BackupAdvance, BackupStep, BackupError, Restore, VerifyHealth, ReturnBackup,
                 KillBackup, BackupInv, BackupTypeOK, Command
        <5>2. host'.env = host.env /\ host'.config = host.config /\ host'.locator = host.locator
          BY <2>3, BackupTouches DEF IInv, ConfigTypeOK, Host
        <5> QED BY <3>1, <5>1, <5>2 DEF GuestRecordInv, Open
      <4> QED BY <2>3, <4>1, <4>2
    <3>5. GuestRecordInv'
      BY <3>2, <3>4 DEF GuestRecordInv
    <3>3. host' = host \/ \E a \in Revision \cup {Down} : host' = [host EXCEPT !.app = a]
      BY <2>3, BackupTouches DEF IInv, ConfigTypeOK, Host
    <3> QED BY <2>3, <3>2, <3>3, <3>5, BackupTouches, GuestKeepsConfig
  <2>4. CASE UNCHANGED hostVars
    <3>1. UNCHANGED vars
      BY <2>4 DEF hostVars
    <3> QED BY <2>4, <3>1, RecordStepInv
         DEF GuestRecordInv, Excused, Open, vars, agentVars, hostVars, backupVars
  <2> QED BY <2>1, <2>2, <2>3, <2>4 DEF BackupNext
<1>2. RecordInv => HalfDoneIsOnRecord
  BY DEF RecordInv, HalfDoneIsOnRecord, Excused, Open, Uniform
<1> QED BY <1>1, <1>2, BackupInitInv, BackupReachable, PTL DEF BackupSpec
=============================================================================
