----------------------------- MODULE UpdateAgent -----------------------------
(* The RPC side of the Update Agent: one thread that plans, admits and        *)
(* answers requests (updater/agent.py, plans.py, server.py), the background   *)
(* worker it hands the update lock to, and the host command line that takes   *)
(* the same lock.  What a worker or reconcile does to the host is abstracted  *)
(* to a step of HostMutation, which UpdateExecutor implements.                *)
EXTENDS HostMutation, Naturals, FiniteSets

CONSTANTS
  Plan,        \* ids of stored update plans
  MaxFaults,   \* bound: failed durable writes and failed thread starts
  MaxCrashes   \* bound: killed agents and clients that hang up

ASSUME AgentAssumption ==
  None \notin Plan /\ None \notin Operation /\ MaxFaults \in Nat /\ MaxCrashes \in Nat

VARIABLES
  plans,    \* the plan store
  planOf,   \* metadata.planId of each operation
  rpc,      \* the next step of the RPC thread
  request,  \* the plan it applies, None for a rollback
  created,  \* the operation it created
  lock,     \* who holds the update lock
  budget    \* remaining faults and crashes

host == <<phase, holder, world>>
call == <<request, created>>
avars == <<host, plans, planOf, rpc, call, lock, budget>>

Absent == [stored |-> FALSE]

PlanRecord ==
  [stored : {TRUE}, context : World, expired : BOOLEAN, consumed : BOOLEAN]

Stage ==
  {"down", "starting", "recovering", "idle", "check", "lock", "recheck", "consume",
   "create", "launch", "not_started", "unwind", "reply", "closing"}

AgentTypeOK ==
  /\ TypeOK
  /\ plans \in [Plan -> PlanRecord \cup {Absent}]
  /\ planOf \in [Operation -> Plan \cup {None}]
  /\ rpc \in Stage
  /\ request \in Plan \cup {None}
  /\ created \in Operation \cup {None}
  /\ lock \in {"free", "rpc", "worker", "host"}
  /\ budget \in [faults : 0..MaxFaults, crashes : 0..MaxCrashes]

AgentInit ==
  /\ Init
  /\ plans = [p \in Plan |-> Absent]
  /\ planOf = [o \in Operation |-> None]
  /\ rpc = "idle"
  /\ request = None
  /\ created = None
  /\ lock = "free"
  /\ budget = [faults |-> MaxFaults, crashes |-> MaxCrashes]

Fault == budget.faults > 0 /\ budget' = [budget EXCEPT !.faults = @ - 1]
Crash == budget.crashes > 0 /\ budget' = [budget EXCEPT !.crashes = @ - 1]

-----------------------------------------------------------------------------
(* Plans.                                                                    *)

\* plan_update binds the plan to the identity of the present context.
PlanUpdate(p) ==
  /\ rpc = "idle" /\ ~ Blocked
  /\ plans[p] = Absent
  /\ plans' = [plans EXCEPT ![p] = [stored |-> TRUE, context |-> world,
                                    expired |-> FALSE, consumed |-> FALSE]]
  /\ UNCHANGED <<host, planOf, rpc, call, lock, budget>>

Expire(p) ==
  /\ plans[p].stored /\ ~ plans[p].expired
  /\ plans' = [plans EXCEPT ![p].expired = TRUE]
  /\ UNCHANGED <<host, planOf, rpc, call, lock, budget>>

-----------------------------------------------------------------------------
(* One request.                                                              *)

Proceed(from, to) == rpc = from /\ rpc' = to

\* Bound: a request is made while an operation id is left for it.
IdLeft == \E o \in Operation : phase[o] = "new"

RequestApply(p) ==
  /\ IdLeft /\ Proceed("idle", "check")
  /\ request' = p /\ created' = None
  /\ UNCHANGED <<host, plans, planOf, lock, budget>>

RequestRollback ==
  /\ IdLeft /\ Proceed("idle", "lock")
  /\ request' = None /\ created' = None
  /\ UNCHANGED <<host, plans, planOf, lock, budget>>

Usable(p) == plans[p].stored /\ ~ plans[p].expired

\* What apply_update verifies before it takes the lock; the confirmation, the
\* plan's verdict and the release binding may refuse it as well.
CheckPlan ==
  /\ rpc = "check"
  /\ \/ ~ Blocked /\ Usable(request) /\ plans[request].context = world /\ rpc' = "lock"
     \/ rpc' = "reply"
  /\ UNCHANGED <<host, plans, planOf, call, lock, budget>>

\* Mutant: a record lock, which does not exclude a thread of the same process.
MutantAcquireLock ==
  /\ rpc = "lock"
  /\ IF lock \in {"free", "worker"} THEN rpc' = "recheck" /\ lock' = "rpc"
                                    ELSE rpc' = "reply" /\ UNCHANGED lock
  /\ UNCHANGED <<host, plans, planOf, call, budget>>

AcquireLock ==
  /\ rpc = "lock"
  /\ IF lock = "free" THEN rpc' = "recheck" /\ lock' = "rpc"
                      ELSE rpc' = "reply" /\ UNCHANGED lock
  /\ UNCHANGED <<host, plans, planOf, call, budget>>

\* Mutant: the barrier is not read again once the lock is held.
MutantRecheck ==
  /\ rpc = "recheck"
  /\ \/ rpc' = IF request = None THEN "create" ELSE "consume"
     \/ request = None /\ rpc' = "unwind"
  /\ UNCHANGED <<host, plans, planOf, call, lock, budget>>

\* The barrier once more; a rollback may also find PREVIOUS missing or refused.
Recheck ==
  /\ rpc = "recheck"
  /\ \/ ~ Blocked /\ rpc' = IF request = None THEN "create" ELSE "consume"
     \/ (Blocked \/ request = None) /\ rpc' = "unwind"
  /\ UNCHANGED <<host, plans, planOf, call, lock, budget>>

\* Mutant: the plan store does not look at consumedAt.
MutantConsume ==
  /\ rpc = "consume"
  /\ LET written == [plans EXCEPT ![request].consumed = TRUE]
     IN  IF Usable(request)
           THEN \/ plans' = written /\ rpc' = "create" /\ UNCHANGED budget
                \/ plans' \in {plans, written} /\ rpc' = "unwind" /\ Fault
           ELSE rpc' = "unwind" /\ UNCHANGED <<plans, budget>>
  /\ UNCHANGED <<host, planOf, call, lock>>

Consume ==
  /\ rpc = "consume"
  /\ LET written == [plans EXCEPT ![request].consumed = TRUE]
     IN  IF Usable(request) /\ ~ plans[request].consumed
           THEN \/ plans' = written /\ rpc' = "create" /\ UNCHANGED budget
                \/ plans' \in {plans, written} /\ rpc' = "unwind" /\ Fault
           ELSE rpc' = "unwind" /\ UNCHANGED <<plans, budget>>
  /\ UNCHANGED <<host, planOf, call, lock>>

Create(o) ==
  /\ rpc = "create" /\ phase[o] = "new"
  /\ LET written == [phase EXCEPT ![o] = "prepared"]
     IN  \/ phase' = written /\ rpc' = "launch" /\ created' = o /\ UNCHANGED budget
         \/ phase' \in {phase, written} /\ rpc' = "unwind" /\ created' = created /\ Fault
  /\ planOf' = IF phase' = phase THEN planOf ELSE [planOf EXCEPT ![o] = request]
  /\ UNCHANGED <<holder, world, plans, request, lock>>

\* The worker thread takes over the lock, or its failed start releases it.
Launch ==
  /\ rpc = "launch"
  /\ \/ rpc' = "reply" /\ lock' = "worker" /\ holder' = created /\ UNCHANGED budget
     \/ rpc' = "not_started" /\ lock' = "free" /\ UNCHANGED holder /\ Fault
  /\ UNCHANGED <<phase, world, plans, planOf, call>>

NotStarted ==
  /\ Proceed("not_started", "reply")
  /\ LET written == [phase EXCEPT ![created] = "aborted"]
     IN  \/ phase' = written /\ UNCHANGED budget
         \/ phase' \in {phase, written} /\ Fault
  /\ UNCHANGED <<holder, world, plans, planOf, call, lock>>

\* Mutant: handed_off is set before the plan is consumed.
MutantUnwind ==
  /\ Proceed("unwind", "reply")
  /\ UNCHANGED <<host, plans, planOf, call, lock, budget>>

Unwind ==
  /\ Proceed("unwind", "reply")
  /\ lock' = "free"
  /\ UNCHANGED <<host, plans, planOf, call, budget>>

\* An answer nobody reads raises out of serve_forever, which closes the agent.
Reply ==
  /\ rpc = "reply"
  /\ \/ rpc' = "idle" /\ UNCHANGED budget
     \/ rpc' = "closing" /\ Crash
  /\ UNCHANGED <<host, plans, planOf, call, lock>>

\* close waits for the worker, and after its timeout the interpreter still does:
\* the worker is not a daemon thread.
Exit ==
  /\ Proceed("closing", "down")
  /\ lock # "worker"
  /\ UNCHANGED <<host, plans, planOf, call, lock, budget>>

-----------------------------------------------------------------------------
(* The worker, and the host command line.  Commands that change the host      *)
(* without an operation (config apply, initial adoption) are not modelled.    *)

Frame == UNCHANGED <<plans, planOf, rpc, call, lock, budget>>

\* What UpdateExecutor does to the operation of the lock's holder.
HolderStep ==
  /\ \E o \in Operation :
       /\ holder = o
       /\ lock = "worker" =>
            Commit(o) \/ Abort(o) \/ (phase[o] = "committed" /\ Mutate(o))
            \/ (phase[o] = "committed" /\ Finish(o)) \/ Block(o)
       /\ lock = "host" =>
            phase[o] = "blocked" /\ (Mutate(o) \/ Finish(o))
  /\ Frame

WorkerDone(o) == phase[o] \in {"aborted", "blocked", "finished"}

\* The cleanup of the worker; a journal that could not be written is let go.
WorkerEnds ==
  /\ lock = "worker" /\ lock' = "free" /\ Unlock
  /\ \/ WorkerDone(holder) /\ UNCHANGED budget
     \/ ~ WorkerDone(holder) /\ Fault
  /\ UNCHANGED <<plans, planOf, rpc, call>>

\* reconcile of a blocked operation, or a command that only holds the lock.
HostCommand ==
  /\ lock = "free" /\ lock' = "host"
  /\ \/ UNCHANGED host
     \/ \E o \in Operation : phase[o] = "blocked" /\ Take(o)
  /\ UNCHANGED <<plans, planOf, rpc, call, budget>>

HostCommandEnds ==
  /\ lock = "host" /\ lock' = "free" /\ Unlock
  /\ UNCHANGED <<plans, planOf, rpc, call, budget>>

-----------------------------------------------------------------------------
(* Crash, restart and recovery.                                              *)

Kill ==
  /\ rpc # "down" /\ rpc' = "down"
  /\ IF lock \in {"rpc", "worker"} THEN lock' = "free" /\ Unlock
                                   ELSE UNCHANGED <<lock, host>>
  /\ Crash
  /\ UNCHANGED <<plans, planOf, call>>

Restart ==
  /\ Proceed("down", "starting")
  /\ UNCHANGED <<host, plans, planOf, call, lock, budget>>

\* serve_forever tries again while another process holds the lock.
BeginRecovery ==
  /\ lock = "free" /\ lock' = "rpc"
  /\ Proceed("starting", "recovering")
  /\ UNCHANGED <<host, plans, planOf, call, budget>>

\* Mutant: recovery passes over what went beyond the application switch.
MutantRecoverOperation ==
  /\ rpc = "recovering"
  /\ \E o \in Operation : Abort(o)
  /\ Frame

RecoverOperation ==
  /\ rpc = "recovering"
  /\ \E o \in Operation : Abort(o) \/ Block(o)
  /\ Frame

Serve ==
  /\ Proceed("recovering", "idle")
  /\ \A o \in Operation : phase[o] \notin {"prepared", "committed"}
  /\ lock' = "free"
  /\ UNCHANGED <<host, plans, planOf, call, budget>>

-----------------------------------------------------------------------------

Handler ==
  \/ CheckPlan \/ AcquireLock \/ Recheck \/ Consume
  \/ (\E o \in Operation : Create(o))
  \/ Launch \/ NotStarted \/ Unwind \/ Reply \/ Exit
  \/ Restart \/ BeginRecovery \/ RecoverOperation \/ Serve

AgentNext ==
  \/ (\E p \in Plan : PlanUpdate(p) \/ Expire(p) \/ RequestApply(p))
  \/ RequestRollback \/ Handler
  \/ HolderStep \/ WorkerEnds \/ HostCommand \/ HostCommandEnds \/ Kill

AgentSpec == AgentInit /\ [][AgentNext]_avars

\* The worker settles its operation: every command it runs has a timeout.
WorkerSettling == HolderStep /\ lock = "worker" /\ UNCHANGED world

\* A request runs on and systemd restarts the agent; workers and commands end.
AgentFairSpec ==
  /\ AgentSpec
  /\ WF_avars(Handler)
  /\ WF_avars(WorkerSettling) /\ WF_avars(WorkerEnds)
  /\ WF_avars(HostCommandEnds)

-----------------------------------------------------------------------------
(* Properties.                                                               *)

\* A plan is used up before the operation it authorises exists, so whatever
\* crashes, fails or is retried, no plan is ever carried out twice.
PlanRunsOnce ==
  \A o \in Operation : planOf[o] # None =>
    /\ plans[planOf[o]].consumed
    /\ \A other \in Operation \ {o} : planOf[other] # planOf[o]

\* While no write fails, an operation that is neither settled nor blocked belongs
\* to the running worker, to the request in hand, or to a recovery to come.
OpenIsOwned ==
  budget.faults = MaxFaults => \A o \in Operation : phase[o] \in {"prepared", "committed"} =>
    \/ lock = "worker" /\ holder = o
    \/ rpc = "launch" /\ created = o
    \/ rpc \in {"down", "starting", "recovering"} /\ lock # "worker"

\* What UpdateExecutor and the requests do together is what the host was
\* promised: with the barrier read again under the lock, no operation begins
\* while another waits for manual recovery.
ImplementsHostMutation == Spec

\* An operation that comes out of a plan starts on the context the plan was made
\* for: "Update plan compatibility context is stale" (agent.py:619) is refused.
PlanMatchesContext ==
  [][\A o \in Operation :
       phase[o] = "new" /\ phase'[o] = "prepared" /\ request # None
         => plans[request].context = world]_avars

\* Whoever takes the update lock gives it back, on every path of every request.
LockReturns == []<>(lock = "free")

\* Once the host command line stays away, the agent comes back to serving from
\* wherever it is: a request, a close that waits for a worker, a crash.
ServesAgain == <>[](lock # "host") => (rpc # "idle" ~> rpc = "idle")
=============================================================================
