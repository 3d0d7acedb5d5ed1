-------------------------- MODULE UpdateAgent_proofs --------------------------
(* Proofs about UpdateAgent for every set of operations, plans and worlds and *)
(* every bound on faults and crashes.                                         *)
EXTENDS UpdateAgent, TLAPS

\* Which stages run under the lock, and what the lock's holder is then.
LockInv ==
  /\ rpc \in {"recheck", "consume", "create", "launch", "unwind", "recovering"}
       => lock = "rpc"
  /\ rpc = "not_started" => lock # "worker"
  /\ lock \in {"free", "rpc"} => holder = None

\* What a request has established by the time it reaches a stage.
RequestInv ==
  /\ rpc \in {"check", "consume"} => request \in Plan
  /\ rpc \in {"consume", "create"} => ~ Blocked
  /\ rpc \in {"launch", "not_started"} =>
       created \in Operation /\ phase[created] = "prepared"

\* The plan of an operation, and the one a request is about to carry out.
PlanInv ==
  /\ \A o \in Operation : planOf[o] # None =>
       plans[planOf[o]].stored /\ plans[planOf[o]].consumed
  /\ \A o, other \in Operation :
       o # other /\ planOf[o] # None => planOf[other] # planOf[o]
  /\ \A o \in Operation : phase[o] = "new" => planOf[o] = None
  /\ rpc = "create" /\ request # None =>
       /\ plans[request].stored /\ plans[request].consumed
       /\ \A o \in Operation : planOf[o] # request

AgentInv == AgentTypeOK /\ LockInv /\ RequestInv

-----------------------------------------------------------------------------
(* Types, the lock and the request.                                          *)

\* The initial state satisfies the invariant.
LEMMA InitInv == AgentInit => AgentInv
BY AgentAssumption
   DEF AgentInit, Init, AgentInv, AgentTypeOK, TypeOK, LockInv, RequestInv, Stage, Phase,
       Absent

\* Faults and crashes only use up their budget.
LEMMA BudgetType ==
  ASSUME AgentTypeOK, Fault \/ Crash \/ UNCHANGED budget
  PROVE  budget' \in [faults : 0..MaxFaults, crashes : 0..MaxCrashes]
BY AgentAssumption DEF AgentTypeOK, Fault, Crash

\* Steps on plans leave the agent where it is.
LEMMA PlanStepInv ==
  ASSUME AgentInv, NEW p \in Plan, PlanUpdate(p) \/ Expire(p)
  PROVE  AgentInv'
<1>1. plans' \in [Plan -> PlanRecord \cup {Absent}]
  <2>1. CASE PlanUpdate(p)
    BY <2>1 DEF PlanUpdate, AgentInv, AgentTypeOK, TypeOK, PlanRecord
  <2>2. CASE Expire(p)
    <3>1. plans[p] \in PlanRecord
      BY <2>2 DEF Expire, AgentInv, AgentTypeOK, Absent
    <3>2. [plans[p] EXCEPT !.expired = TRUE] \in PlanRecord
      BY <3>1 DEF PlanRecord
    <3> QED BY <2>2, <3>2 DEF Expire, AgentInv, AgentTypeOK
  <2> QED BY <2>1, <2>2
<1> QED
  BY <1>1 DEF PlanUpdate, Expire, AgentInv, AgentTypeOK, TypeOK, LockInv, RequestInv, Blocked,
              host, call

\* The RPC thread: every step of a request, of its end and of recovery.
LEMMA HandlerInv == AgentInv /\ Handler => AgentInv'
<1> SUFFICES ASSUME AgentInv, Handler PROVE AgentInv'
  OBVIOUS
<1>0. None \notin Plan /\ None \notin Operation
  BY AgentAssumption
<1> USE DEF AgentInv, AgentTypeOK, TypeOK, LockInv, RequestInv, Stage, Phase, Blocked, host,
            call, Proceed
<1>1. CASE CheckPlan
  BY <1>1 DEF CheckPlan
<1>2. CASE AcquireLock
  BY <1>2 DEF AcquireLock
<1>3. CASE Recheck
  BY <1>3 DEF Recheck
<1>4. CASE Consume
  <2>1. budget' \in [faults : 0..MaxFaults, crashes : 0..MaxCrashes]
    BY <1>4, BudgetType DEF Consume
  <2>2. plans' \in [Plan -> PlanRecord \cup {Absent}]
    <3>1. request \in Plan /\ plans[request] \in PlanRecord \cup {Absent}
      BY <1>4 DEF Consume
    <3>2. CASE UNCHANGED plans
      BY <3>2
    <3>3. CASE Usable(request) /\ plans' = [plans EXCEPT ![request].consumed = TRUE]
      <4>1. plans[request] \in PlanRecord
        BY <3>1, <3>3 DEF Usable, Absent
      <4>2. [plans[request] EXCEPT !.consumed = TRUE] \in PlanRecord
        BY <4>1 DEF PlanRecord
      <4> QED BY <3>3, <4>2
    <3> QED BY <1>4, <3>2, <3>3 DEF Consume
  <2> QED BY <1>4, <2>1, <2>2 DEF Consume
<1>5. CASE \E o \in Operation : Create(o)
  <2>1. budget' \in [faults : 0..MaxFaults, crashes : 0..MaxCrashes]
    BY <1>5, BudgetType DEF Create
  <2>2. planOf' \in [Operation -> Plan \cup {None}]
    BY <1>5 DEF Create
  <2> QED BY <1>5, <2>1, <2>2 DEF Create
<1>6. CASE Launch
  <2>1. budget' \in [faults : 0..MaxFaults, crashes : 0..MaxCrashes]
    BY <1>6, BudgetType DEF Launch
  <2> QED BY <1>6, <2>1 DEF Launch
<1>7. CASE NotStarted
  <2>1. budget' \in [faults : 0..MaxFaults, crashes : 0..MaxCrashes]
    BY <1>7, BudgetType DEF NotStarted
  <2> QED BY <1>7, <2>1 DEF NotStarted
<1>8. CASE Unwind
  BY <1>8 DEF Unwind
<1>9. CASE Reply
  <2>1. budget' \in [faults : 0..MaxFaults, crashes : 0..MaxCrashes]
    BY <1>9, BudgetType DEF Reply
  <2> QED BY <1>9, <2>1 DEF Reply
<1>10. CASE Exit
  BY <1>10 DEF Exit
<1>11. CASE Restart
  BY <1>11 DEF Restart
<1>12. CASE BeginRecovery
  BY <1>12 DEF BeginRecovery
<1>13. CASE RecoverOperation
  BY <1>13 DEF RecoverOperation, Frame, Abort, Block, Moves
<1>14. CASE Serve
  BY <1>14 DEF Serve
<1> QED
  BY <1>1, <1>2, <1>3, <1>4, <1>5, <1>6, <1>7, <1>8, <1>9, <1>10, <1>11, <1>12, <1>13, <1>14
     DEF Handler

\* Worker and host command act under the lock they hold, so they disturb nothing
\* a request has established under it, and no operation that never started.
LEMMA HolderStepInv ==
  ASSUME AgentInv, HolderStep
  PROVE  AgentInv' /\ [Next]_vars
<1> USE DEF AgentInv, AgentTypeOK, TypeOK, LockInv, RequestInv, Stage, Phase, Blocked, host,
            call
<1>1. PICK o \in Operation :
        /\ holder = o
        /\ lock = "worker" =>
             Commit(o) \/ Abort(o) \/ (phase[o] = "committed" /\ Mutate(o))
             \/ (phase[o] = "committed" /\ Finish(o)) \/ Block(o)
        /\ lock = "host" => phase[o] = "blocked" /\ (Mutate(o) \/ Finish(o))
  BY DEF HolderStep
<1>2. lock \in {"worker", "host"}
  BY <1>1, AgentAssumption
<1>3. Commit(o) \/ Abort(o) \/ Mutate(o) \/ Finish(o) \/ Block(o)
  BY <1>1, <1>2
<1>4. [Next]_vars
  BY <1>3 DEF Next
<1>5. /\ phase' \in [Operation -> Phase] /\ holder' = o /\ world' \in World
      /\ \A x \in Operation \ {o} : phase'[x] = phase[x]
  BY <1>1, <1>3 DEF Commit, Abort, Mutate, Finish, Block, Moves
<1>6. rpc = "not_started" => o # created
  BY <1>1, <1>2
<1>7. AgentTypeOK'
  BY <1>5 DEF HolderStep, Frame
<1>8. LockInv'
  BY <1>2, <1>5 DEF HolderStep, Frame
<1>9. RequestInv'
  BY <1>2, <1>5, <1>6 DEF HolderStep, Frame
<1> QED BY <1>4, <1>7, <1>8, <1>9

\* The other steps of worker, host command line and crash.
LEMMA OtherStepInv ==
  ASSUME AgentInv,
         WorkerEnds \/ HostCommand \/ HostCommandEnds \/ Kill
  PROVE  AgentInv' /\ [Next]_vars
<1> USE DEF AgentInv, AgentTypeOK, TypeOK, LockInv, RequestInv, Stage, Phase, Blocked, host,
            call, Unlock
<1>0. None \notin Operation
  BY AgentAssumption
<1>1. CASE WorkerEnds
  <2>1. budget' \in [faults : 0..MaxFaults, crashes : 0..MaxCrashes]
    BY <1>1, BudgetType DEF WorkerEnds
  <2>2. Unlock
    BY <1>1 DEF WorkerEnds
  <2> QED BY <1>1, <2>1, <2>2 DEF WorkerEnds, Next
<1>2. CASE HostCommand
  <2>1. CASE UNCHANGED host
    BY <1>2, <2>1 DEF HostCommand, vars
  <2>2. CASE \E o \in Operation : phase[o] = "blocked" /\ Take(o)
    <3>1. [Next]_vars
      BY <2>2 DEF Next
    <3> QED BY <1>2, <2>2, <3>1 DEF HostCommand, Take
  <2> QED BY <1>2, <2>1, <2>2 DEF HostCommand
<1>3. CASE HostCommandEnds
  <2>1. Unlock
    BY <1>3 DEF HostCommandEnds
  <2> QED BY <1>3, <2>1 DEF HostCommandEnds, Next
<1>4. CASE Kill
  <2>1. budget' \in [faults : 0..MaxFaults, crashes : 0..MaxCrashes]
    BY <1>4, BudgetType DEF Kill
  <2>2. Unlock \/ UNCHANGED host
    BY <1>4 DEF Kill
  <2>3. [Next]_vars
    BY <2>2 DEF Next, vars
  <2> QED BY <1>4, <2>1, <2>3 DEF Kill
<1> QED BY <1>1, <1>2, <1>3, <1>4

\* Every step keeps the invariant.
LEMMA StepInv == AgentInv /\ [AgentNext]_avars => AgentInv'
<1> SUFFICES ASSUME AgentInv, [AgentNext]_avars PROVE AgentInv'
  OBVIOUS
<1>1. CASE UNCHANGED avars
  BY <1>1 DEF avars, host, call, AgentInv, AgentTypeOK, TypeOK, LockInv, RequestInv, Blocked
<1>2. CASE \E p \in Plan : PlanUpdate(p) \/ Expire(p)
  BY <1>2, PlanStepInv
<1>3. CASE (\E p \in Plan : RequestApply(p)) \/ RequestRollback
  BY <1>3 DEF RequestApply, RequestRollback, Proceed, host, call, AgentInv, AgentTypeOK,
              TypeOK, LockInv, RequestInv, Blocked, Stage
<1>4. CASE Handler
  BY <1>4, HandlerInv
<1>5. CASE HolderStep
  BY <1>5, HolderStepInv
<1>6. CASE WorkerEnds \/ HostCommand \/ HostCommandEnds \/ Kill
  BY <1>6, OtherStepInv
<1> QED BY <1>1, <1>2, <1>3, <1>4, <1>5, <1>6 DEF AgentNext

\* The invariant holds, and with it the types of the agent's state: a request is
\* never in a stage without the lock, the plan or the operation that stage uses.
THEOREM AgentInvariance == AgentSpec => []AgentInv
BY InitInv, StepInv, PTL DEF AgentSpec

\* Every reachable state of the agent is well typed.
THEOREM AgentTypeCorrect == AgentSpec => []AgentTypeOK
<1>1. AgentInv => AgentTypeOK
  BY DEF AgentInv
<1> QED BY <1>1, AgentInvariance, PTL

-----------------------------------------------------------------------------
(* Refinement.                                                               *)

\* A step of the RPC thread is a step of HostMutation or leaves the host alone:
\* it creates an operation only while none is blocked, hands one to a worker,
\* or settles one that no worker runs.
LEMMA HandlerRefines == AgentInv /\ Handler => [Next]_vars
<1> SUFFICES ASSUME AgentInv, Handler PROVE [Next]_vars
  OBVIOUS
<1>1. CASE UNCHANGED host
  BY <1>1 DEF host, vars
<1>2. CASE \E o \in Operation : Create(o)
  <2>1. PICK o \in Operation : Create(o)
    BY <1>2
  <2>2. holder = None /\ ~ Blocked
    BY <2>1 DEF Create, AgentInv, LockInv, RequestInv
  <2>3. CASE phase' = phase
    BY <2>1, <2>3 DEF Create, vars
  <2>4. CASE phase' = [phase EXCEPT ![o] = "prepared"]
    <3>1. Begin(o)
      BY <2>1, <2>2, <2>4 DEF Create, Begin, Moves
    <3> QED BY <3>1 DEF Next
  <2> QED BY <2>1, <2>3, <2>4 DEF Create
<1>3. CASE Launch
  <2>1. created \in Operation /\ phase[created] = "prepared" /\ holder = None
    BY <1>3 DEF Launch, AgentInv, LockInv, RequestInv
  <2>2. CASE holder' = created
    <3>1. Take(created)
      BY <1>3, <2>1, <2>2 DEF Launch, Take
    <3> QED BY <2>1, <3>1 DEF Next
  <2>3. CASE UNCHANGED holder
    BY <1>3, <2>3 DEF Launch, vars
  <2> QED BY <1>3, <2>2, <2>3 DEF Launch
<1>4. CASE NotStarted
  <2>1. created \in Operation /\ phase[created] = "prepared"
    BY <1>4 DEF NotStarted, Proceed, AgentInv, RequestInv
  <2>2. CASE phase' = phase
    BY <1>4, <2>2 DEF NotStarted, vars
  <2>3. CASE phase' = [phase EXCEPT ![created] = "aborted"]
    <3>1. Abort(created)
      BY <1>4, <2>1, <2>3 DEF NotStarted, Abort, Moves
    <3> QED BY <2>1, <3>1 DEF Next
  <2> QED BY <1>4, <2>2, <2>3 DEF NotStarted
<1>5. CASE RecoverOperation
  BY <1>5 DEF RecoverOperation, Next
<1> QED
  BY <1>1, <1>2, <1>3, <1>4, <1>5
     DEF Handler, CheckPlan, AcquireLock, Recheck, Consume, Unwind, Reply, Exit, Restart,
         BeginRecovery, Serve

\* Every step of the agent maps to a step of HostMutation or a stutter.
LEMMA StepRefines == AgentInv /\ [AgentNext]_avars => [Next]_vars
<1> SUFFICES ASSUME AgentInv, [AgentNext]_avars PROVE [Next]_vars
  OBVIOUS
<1>1. CASE UNCHANGED host
  BY <1>1 DEF host, vars
<1>2. CASE Handler
  BY <1>2, HandlerRefines
<1>3. CASE HolderStep
  BY <1>3, HolderStepInv
<1>4. CASE WorkerEnds \/ HostCommand \/ HostCommandEnds \/ Kill
  BY <1>4, OtherStepInv
<1> QED
  BY <1>1, <1>2, <1>3, <1>4
     DEF AgentNext, avars, PlanUpdate, Expire, RequestApply, RequestRollback

\* Requests, workers, host commands, crashes and recovery together keep what the
\* host was promised; in particular no operation begins while one is blocked.
THEOREM AgentImplementsHostMutation == AgentSpec => ImplementsHostMutation
<1>1. AgentInit => Init
  BY DEF AgentInit
<1> QED
  BY <1>1, StepRefines, AgentInvariance, PTL DEF AgentSpec, ImplementsHostMutation, Spec

-----------------------------------------------------------------------------
(* Plans.                                                                    *)

\* A worker, a command or recovery moves operations on, never back to "new".
LEMMA NeverNewAgain ==
  ASSUME AgentInv,
         RecoverOperation \/ HolderStep \/ WorkerEnds \/ HostCommand \/ HostCommandEnds
         \/ Kill \/ Launch \/ NotStarted
  PROVE  \A o \in Operation : phase'[o] = "new" => phase[o] = "new"
<1> USE DEF AgentInv, AgentTypeOK, TypeOK, RequestInv, Moves
<1>1. CASE RecoverOperation
  BY <1>1 DEF RecoverOperation, Abort, Block
<1>2. CASE HolderStep
  <2>1. PICK o \in Operation :
          \/ Commit(o) \/ Abort(o) \/ Mutate(o) \/ Finish(o) \/ Block(o)
          \/ lock \notin {"worker", "host"} /\ holder = o
    BY <1>2 DEF HolderStep
  <2>2. o # None
    BY AgentAssumption
  <2>3. Commit(o) \/ Abort(o) \/ Mutate(o) \/ Finish(o) \/ Block(o)
    BY <2>1, <2>2 DEF LockInv
  <2> QED BY <2>3 DEF Commit, Abort, Mutate, Finish, Block
<1>3. CASE WorkerEnds \/ HostCommand \/ HostCommandEnds \/ Kill
  BY <1>3 DEF WorkerEnds, HostCommand, HostCommandEnds, Kill, Unlock, Take, host
<1>4. CASE Launch \/ NotStarted
  BY <1>4 DEF Launch, NotStarted, Proceed
<1> QED BY <1>1, <1>2, <1>3, <1>4

\* Nothing but a plan written, a plan consumed or an operation created changes
\* which plan an operation carries out.
LEMMA PlanFrame ==
  ASSUME AgentInv, PlanInv, UNCHANGED <<plans, planOf>>,
         \A o \in Operation : phase'[o] = "new" => phase[o] = "new",
         rpc' = "create" /\ request' # None => rpc = "create" /\ request' = request
  PROVE  PlanInv'
BY DEF PlanInv

\* A plan is written under an id no operation refers to, and expires in place.
LEMMA PlanWrites ==
  ASSUME AgentInv, PlanInv, NEW p \in Plan, PlanUpdate(p) \/ Expire(p)
  PROVE  PlanInv'
<1> USE DEF AgentInv, AgentTypeOK
<1>1. UNCHANGED <<phase, planOf, rpc, request>>
  BY DEF PlanUpdate, Expire, host, call
<1>2. CASE PlanUpdate(p)
  <2>1. rpc' = "idle"
    BY <1>1, <1>2 DEF PlanUpdate
  <2>2. ~ plans[p].stored
    BY <1>2 DEF PlanUpdate, Absent
  <2>3. \A q \in Plan \ {p} : plans'[q] = plans[q]
    BY <1>2 DEF PlanUpdate
  <2>4. \A o \in Operation : planOf[o] # None => planOf[o] \in Plan \ {p}
    BY <2>2 DEF PlanInv
  <2> QED BY <1>1, <2>1, <2>3, <2>4 DEF PlanInv
<1>3. CASE Expire(p)
  <2>1. plans[p] \in PlanRecord
    BY <1>3 DEF Expire, Absent
  <2>2. \A q \in Plan : /\ plans'[q].stored = plans[q].stored
                        /\ plans[q].stored => plans'[q].consumed = plans[q].consumed
    BY <1>3, <2>1 DEF Expire, PlanRecord
  <2>3. rpc = "create" => request \in Plan \cup {None}
    OBVIOUS
  <2> QED BY <1>1, <2>2, <2>3 DEF PlanInv
<1> QED BY <1>2, <1>3

\* The plan store refuses a consumed plan, so the plan that gets to "create" is
\* one no operation carries out yet.
LEMMA PlanConsumed ==
  ASSUME AgentInv, PlanInv, Consume
  PROVE  PlanInv'
<1> USE DEF AgentInv, AgentTypeOK, RequestInv
<1>1. request \in Plan /\ request' = request /\ UNCHANGED <<phase, planOf>>
  BY DEF Consume, host, call
<1>2. CASE UNCHANGED plans
  <2>1. rpc' # "create"
    <3>1. CASE Usable(request) /\ ~ plans[request].consumed
      <4>1. plans[request] \in PlanRecord
        BY <1>1, <3>1 DEF Usable, Absent
      <4>2. [plans EXCEPT ![request].consumed = TRUE][request].consumed = TRUE
        BY <1>1, <4>1 DEF PlanRecord
      <4> QED BY <1>2, <3>1, <4>2 DEF Consume
    <3>2. CASE ~ (Usable(request) /\ ~ plans[request].consumed)
      BY <3>2 DEF Consume
    <3> QED BY <3>1, <3>2
  <2> QED BY <1>1, <1>2, <2>1, PlanFrame
<1>3. CASE /\ Usable(request) /\ ~ plans[request].consumed
           /\ plans' = [plans EXCEPT ![request].consumed = TRUE]
  <2>1. plans[request] \in PlanRecord
    BY <1>1, <1>3 DEF Usable, Absent
  <2>2. plans'[request].stored /\ plans'[request].consumed
    BY <1>1, <1>3, <2>1 DEF PlanRecord
  <2>3. \A q \in Plan \ {request} : plans'[q] = plans[q]
    BY <1>1, <1>3
  <2>4. \A o \in Operation : planOf[o] # request
    BY <1>1, <1>3, AgentAssumption DEF PlanInv
  <2> QED BY <1>1, <2>2, <2>3, <2>4 DEF PlanInv
<1> QED BY <1>2, <1>3 DEF Consume

\* The operation created is a new one, and the only one of its plan.
LEMMA PlanBound ==
  ASSUME AgentInv, PlanInv, NEW o \in Operation, Create(o)
  PROVE  PlanInv'
<1> USE DEF AgentInv, AgentTypeOK, TypeOK, call
<1>1. rpc = "create" /\ rpc' # "create" /\ UNCHANGED <<plans, request>>
  BY DEF Create
<1>2. CASE phase' = phase
  BY <1>1, <1>2, PlanFrame DEF Create
<1>3. CASE phase' # phase
  <2>1. /\ phase' = [phase EXCEPT ![o] = "prepared"]
        /\ planOf' = [planOf EXCEPT ![o] = request]
    BY <1>3 DEF Create
  <2>2. \A x \in Operation : phase'[x] = "new" => x # o /\ phase[x] = "new"
    BY <2>1
  <2>3. request # None =>
          /\ plans[request].stored /\ plans[request].consumed
          /\ \A x \in Operation : planOf[x] # request
    BY <1>1 DEF PlanInv
  <2>4. /\ planOf'[o] = request
        /\ \A x \in Operation \ {o} : planOf'[x] = planOf[x]
    BY <2>1
  <2> QED BY <1>1, <2>2, <2>3, <2>4 DEF PlanInv
<1> QED BY <1>2, <1>3

\* Every step keeps the plan invariant.
LEMMA PlanStep == AgentInv /\ PlanInv /\ [AgentNext]_avars => PlanInv'
<1> SUFFICES ASSUME AgentInv, PlanInv, [AgentNext]_avars PROVE PlanInv'
  OBVIOUS
<1> USE DEF host, call, Proceed
<1>1. CASE UNCHANGED avars
  BY <1>1, PlanFrame DEF avars
<1>2. CASE \E p \in Plan : PlanUpdate(p) \/ Expire(p)
  BY <1>2, PlanWrites
<1>3. CASE (\E p \in Plan : RequestApply(p)) \/ RequestRollback
  BY <1>3, PlanFrame DEF RequestApply, RequestRollback
<1>4. CASE Consume
  BY <1>4, PlanConsumed
<1>5. CASE \E o \in Operation : Create(o)
  BY <1>5, PlanBound
<1>6. CASE Recheck
  BY <1>6, PlanFrame DEF Recheck
<1>7. CASE CheckPlan \/ AcquireLock \/ Unwind \/ Reply \/ Exit \/ Restart \/ BeginRecovery
           \/ Serve
  BY <1>7, PlanFrame
     DEF CheckPlan, AcquireLock, Unwind, Reply, Exit, Restart, BeginRecovery, Serve
<1>8. CASE RecoverOperation \/ HolderStep \/ WorkerEnds \/ HostCommand \/ HostCommandEnds
           \/ Kill \/ Launch \/ NotStarted
  <2>1. \A o \in Operation : phase'[o] = "new" => phase[o] = "new"
    BY <1>8, NeverNewAgain
  <2>2. UNCHANGED <<plans, planOf, request>> /\ (rpc' = "create" => rpc = "create")
    BY <1>8 DEF RecoverOperation, HolderStep, WorkerEnds, HostCommand, HostCommandEnds, Kill,
                Launch, NotStarted, Frame
  <2> QED BY <2>1, <2>2, PlanFrame
<1> QED
  BY <1>1, <1>2, <1>3, <1>4, <1>5, <1>6, <1>7, <1>8 DEF AgentNext, Handler

\* Whatever crashes, fails or is retried, no plan is carried out by two
\* operations, and none is carried out that could still be consumed.
THEOREM PlanIsCarriedOutOnce == AgentSpec => []PlanRunsOnce
<1>1. AgentInit => PlanInv
  BY DEF AgentInit, Init, PlanInv
<1>2. PlanInv => PlanRunsOnce
  BY DEF PlanInv, PlanRunsOnce
<1> QED
  BY <1>1, <1>2, PlanStep, AgentInvariance, PTL DEF AgentSpec

-----------------------------------------------------------------------------
(* Open operations, while no write and no thread start has failed.           *)

\* Who owns an open operation, whatever failed.
Owned(o) ==
  \/ lock = "worker" /\ holder = o
  \/ rpc = "launch" /\ created = o
  \/ rpc \in {"down", "starting", "recovering"} /\ lock # "worker"

OwnedInv == \A o \in Operation : phase[o] \in {"prepared", "committed"} => Owned(o)

\* No failed write is undone.
LEMMA StillFaultless ==
  ASSUME AgentInv, [AgentNext]_avars, budget'.faults = MaxFaults
  PROVE  budget.faults = MaxFaults /\ ~ Fault
<1>1. budget \in [faults : 0..MaxFaults, crashes : 0..MaxCrashes] /\ MaxFaults \in Nat
  BY AgentAssumption DEF AgentInv, AgentTypeOK
<1>2. Fault \/ Crash \/ UNCHANGED budget
  BY DEF AgentNext, Handler, avars, host, call, PlanUpdate, Expire, RequestApply, RequestRollback,
         CheckPlan, AcquireLock, Recheck, Consume, Create, Launch, NotStarted, Unwind, Reply,
         Exit, Restart, BeginRecovery, RecoverOperation, Serve, HolderStep, WorkerEnds,
         HostCommand, HostCommandEnds, Kill, Frame
<1>3. CASE Fault
  <2>1. budget'.faults = budget.faults - 1 /\ budget.faults \in 0..MaxFaults
    BY <1>1, <1>3 DEF Fault
  <2> QED BY <1>1, <2>1
<1>4. CASE Crash
  <2>1. budget'.faults = budget.faults
    BY <1>1, <1>4 DEF Crash
  <2>2. ~ Fault
    BY <1>1, <2>1 DEF Fault
  <2> QED BY <2>1, <2>2
<1>5. CASE UNCHANGED budget
  <2>1. ~ Fault
    BY <1>1, <1>5 DEF Fault
  <2> QED BY <1>5, <2>1
<1> QED BY <1>2, <1>3, <1>4, <1>5

\* The request that creates an operation holds the lock, and so nobody else owns
\* an open one; it keeps it up to the worker, which then is the holder.
LEMMA RequestOwns ==
  ASSUME AgentInv, OwnedInv, ~ Fault,
         \/ CheckPlan \/ AcquireLock \/ Recheck \/ Consume
         \/ (\E o \in Operation : Create(o))
         \/ Launch \/ NotStarted \/ Unwind \/ Reply
  PROVE  OwnedInv'
<1> USE DEF OwnedInv, Owned, AgentInv, LockInv, host, call, Proceed
<1>1. CASE CheckPlan \/ Reply
  BY <1>1 DEF CheckPlan, Reply
<1>2. CASE AcquireLock \/ Recheck \/ Consume \/ Unwind
  BY <1>2 DEF AcquireLock, Recheck, Consume, Unwind
<1>3. CASE \E o \in Operation : Create(o)
  <2>1. PICK o \in Operation : Create(o)
    BY <1>3
  <2>2. /\ phase' = [phase EXCEPT ![o] = "prepared"] /\ rpc' = "launch" /\ created' = o
    BY <2>1 DEF Create
  <2>3. \A x \in Operation \ {o} : phase'[x] = phase[x]
    BY <2>2 DEF AgentTypeOK, TypeOK
  <2>4. rpc = "create" /\ lock = "rpc"
    BY <2>1 DEF Create
  <2> QED BY <2>2, <2>3, <2>4
<1>4. CASE Launch
  BY <1>4 DEF Launch
<1>5. CASE NotStarted
  <2>1. \A x \in Operation : phase[x] \notin {"prepared", "committed"}
    BY <1>5 DEF NotStarted
  <2>2. phase' = [phase EXCEPT ![created] = "aborted"]
    BY <1>5 DEF NotStarted
  <2>3. \A x \in Operation : phase'[x] \in {phase[x], "aborted"}
    BY <2>2 DEF AgentTypeOK, TypeOK
  <2> QED BY <2>1, <2>3
<1> QED BY <1>1, <1>2, <1>3, <1>4, <1>5

\* An agent goes down with its worker, or after it, and serves again only once
\* recovery has left nothing open.
LEMMA RestartOwns ==
  ASSUME AgentInv, OwnedInv,
         Exit \/ Restart \/ BeginRecovery \/ RecoverOperation \/ Serve \/ Kill
  PROVE  OwnedInv'
<1> USE DEF OwnedInv, Owned, AgentInv, LockInv, host, call, Proceed
<1>1. CASE Exit \/ Restart \/ BeginRecovery
  BY <1>1 DEF Exit, Restart, BeginRecovery
<1>2. CASE RecoverOperation
  <2>1. lock = "rpc" /\ UNCHANGED <<rpc, lock>> /\ rpc = "recovering"
    BY <1>2 DEF RecoverOperation, Frame
  <2> QED BY <2>1
<1>3. CASE Serve
  BY <1>3 DEF Serve
<1>4. CASE Kill
  <2>1. rpc' = "down" /\ lock' # "worker"
    BY <1>4 DEF Kill
  <2> QED BY <2>1
<1> QED BY <1>1, <1>2, <1>3, <1>4

\* A worker moves its own operation only, and has settled it when it ends.
LEMMA HolderOwns ==
  ASSUME AgentInv, OwnedInv, ~ Fault,
         HolderStep \/ WorkerEnds \/ HostCommand \/ HostCommandEnds
  PROVE  OwnedInv'
<1> USE DEF OwnedInv, Owned, AgentInv, LockInv, host, call
<1>1. CASE HolderStep
  <2>1. PICK o \in Operation :
          /\ holder = o
          /\ lock = "worker" =>
               Commit(o) \/ Abort(o) \/ (phase[o] = "committed" /\ Mutate(o))
               \/ (phase[o] = "committed" /\ Finish(o)) \/ Block(o)
          /\ lock = "host" => phase[o] = "blocked" /\ (Mutate(o) \/ Finish(o))
    BY <1>1 DEF HolderStep
  <2>2. lock \in {"worker", "host"}
    BY <2>1, AgentAssumption DEF AgentTypeOK
  <2>3. /\ \A x \in Operation \ {o} : phase'[x] = phase[x]
        /\ lock = "host" => phase'[o] \in {"blocked", "finished"}
        /\ holder' = holder
    BY <2>1, <2>2 DEF Commit, Abort, Mutate, Finish, Block, Moves, AgentTypeOK, TypeOK
  <2>4. UNCHANGED <<rpc, lock, created>>
    BY <1>1 DEF HolderStep, Frame
  <2> QED BY <2>1, <2>2, <2>3, <2>4
<1>2. CASE WorkerEnds
  BY <1>2 DEF WorkerEnds, WorkerDone, Unlock
<1>3. CASE HostCommand
  BY <1>3 DEF HostCommand, Take
<1>4. CASE HostCommandEnds
  BY <1>4 DEF HostCommandEnds, Unlock
<1> QED BY <1>1, <1>2, <1>3, <1>4

\* Every step keeps the invariant, unless a write or a thread start fails.
LEMMA OwnedStep ==
  /\ AgentInv /\ (budget.faults = MaxFaults => OwnedInv) /\ [AgentNext]_avars
  => (budget.faults = MaxFaults => OwnedInv)'
<1> SUFFICES ASSUME AgentInv, budget.faults = MaxFaults => OwnedInv, [AgentNext]_avars,
                    budget'.faults = MaxFaults
             PROVE  OwnedInv'
  OBVIOUS
<1>1. OwnedInv /\ ~ Fault
  BY StillFaultless
<1>2. CASE UNCHANGED <<phase, holder, lock, rpc, created>>
  BY <1>1, <1>2 DEF OwnedInv, Owned
<1>3. CASE (\E p \in Plan : RequestApply(p)) \/ RequestRollback
  BY <1>1, <1>3 DEF RequestApply, RequestRollback, Proceed, host, OwnedInv, Owned
<1>4. CASE Handler
  BY <1>1, <1>4, RequestOwns, RestartOwns DEF Handler
<1>5. CASE HolderStep \/ WorkerEnds \/ HostCommand \/ HostCommandEnds
  BY <1>1, <1>5, HolderOwns
<1>6. CASE Kill
  BY <1>1, <1>6, RestartOwns
<1> QED
  BY <1>2, <1>3, <1>4, <1>5, <1>6 DEF AgentNext, avars, host, call, PlanUpdate, Expire

\* As long as no write and no thread start has failed, an operation that is neither
\* settled nor blocked belongs to the running worker, to the request that just
\* created it or to a recovery to come, whatever was killed or hung up.
THEOREM OpenOperationsAreOwned == AgentSpec => []OpenIsOwned
<1>1. AgentInit => OwnedInv
  BY DEF AgentInit, Init, OwnedInv
<1>2. (budget.faults = MaxFaults => OwnedInv) => OpenIsOwned
  BY DEF OwnedInv, Owned, OpenIsOwned
<1> QED
  BY <1>1, <1>2, OwnedStep, AgentInvariance, PTL DEF AgentSpec
=============================================================================
