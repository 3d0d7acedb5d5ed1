------------------------ MODULE BackgroundOperations ------------------------
(* The manager of the agent's mutation workers (updater/background.py).      *)
(* Callers admit themselves, register a worker under the id of its operation *)
(* and start its thread; close waits until every admission and every worker  *)
(* has ended.  A critical section of the condition variable is one step; the *)
(* steps of callers, workers and the closing thread interleave.              *)

EXTENDS Naturals

CONSTANTS
  Caller,      \* threads that start a mutation; each brings one lock lease
  Direct,      \* the callers that do so outside mutation_start
  Operation,   \* operation ids; two callers may bring the same one
  None

ASSUME ManagerAssumption ==
  Direct \subseteq Caller /\ None \notin Operation

VARIABLES
  pc,         \* the next step of each caller
  id,         \* the operation id of the worker a caller starts
  admitted,   \* _admitted_threads: the callers inside mutation_start
  active,     \* _active: registered ids
  completed,  \* _completed: ids whose worker ended
  worker,     \* the thread a caller created
  released,   \* how often the cleanup of a caller released its lease
  closer      \* the thread that calls close

vars == <<pc, id, admitted, active, completed, worker, released, closer>>

TypeOK ==
  /\ pc \in [Caller -> {"outside", "inside", "register", "launch", "unregister",
                        "leave", "done"}]
  /\ id \in [Caller -> Operation \cup {None}]
  /\ admitted \in SUBSET Caller
  /\ active \in SUBSET Operation
  /\ completed \in SUBSET Operation
  /\ worker \in [Caller -> {"none", "running", "cleanup", "ended", "retired"}]
  /\ released \in [Caller -> 0..1]
  /\ closer \in {"open", "checking", "sleeping", "closed", "timed_out"}

Init ==
  /\ pc = [c \in Caller |-> "outside"]
  /\ id = [c \in Caller |-> None]
  /\ admitted = {}
  /\ active = {}
  /\ completed = {}
  /\ worker = [c \in Caller |-> "none"]
  /\ released = [c \in Caller |-> 0]
  /\ closer = "open"

closing == closer # "open"

Goto(c, label) == pc' = [pc EXCEPT ![c] = label]

\* condition.notify_all
Notify == closer' = IF closer = "sleeping" THEN "checking" ELSE closer

Cleanup(c) == released' = [released EXCEPT ![c] = @ + 1]

-----------------------------------------------------------------------------
(* A caller: mutation_start around start.                                    *)

Enter(c) ==
  /\ pc[c] = "outside" /\ c \notin Direct
  /\ IF closing
       THEN Goto(c, "done") /\ UNCHANGED admitted
       ELSE Goto(c, "inside") /\ admitted' = admitted \cup {c}
  /\ UNCHANGED <<id, active, completed, worker, released, closer>>

\* Create the thread object, or fail to and clean up.
Create(c, o) ==
  /\ pc[c] = IF c \in Direct THEN "outside" ELSE "inside"
  /\ id' = [id EXCEPT ![c] = o]
  /\ \/ Goto(c, "register") /\ UNCHANGED released
     \/ Goto(c, "leave") /\ Cleanup(c)
  /\ UNCHANGED <<admitted, active, completed, worker, closer>>

\* Mutant: an id is not looked up before its worker is registered.
MutantRegister(c) ==
  /\ pc[c] = "register"
  /\ IF closing /\ c \notin admitted
       THEN Goto(c, "leave") /\ Cleanup(c) /\ UNCHANGED active
       ELSE Goto(c, "launch") /\ active' = active \cup {id[c]} /\ UNCHANGED released
  /\ UNCHANGED <<id, admitted, completed, worker, closer>>

Register(c) ==
  /\ pc[c] = "register"
  /\ IF (closing /\ c \notin admitted) \/ id[c] \in active \cup completed
       THEN Goto(c, "leave") /\ Cleanup(c) /\ UNCHANGED active
       ELSE Goto(c, "launch") /\ active' = active \cup {id[c]} /\ UNCHANGED released
  /\ UNCHANGED <<id, admitted, completed, worker, closer>>

\* Mutant: a thread that does not start keeps its lease.
MutantLaunch(c) ==
  /\ pc[c] = "launch"
  /\ \/ worker' = [worker EXCEPT ![c] = "running"] /\ Goto(c, "leave")
     \/ Goto(c, "unregister") /\ UNCHANGED worker
  /\ UNCHANGED <<id, admitted, active, completed, released, closer>>

Launch(c) ==
  /\ pc[c] = "launch"
  /\ \/ /\ worker' = [worker EXCEPT ![c] = "running"]
        /\ Goto(c, "leave")
        /\ UNCHANGED released
     \/ Goto(c, "unregister") /\ Cleanup(c) /\ UNCHANGED worker
  /\ UNCHANGED <<id, admitted, active, completed, closer>>

\* Mutant: the waiting thread is not notified.
MutantUnregister(c) ==
  /\ pc[c] = "unregister"
  /\ active' = active \ {id[c]}
  /\ Goto(c, "leave")
  /\ UNCHANGED <<id, admitted, completed, worker, released, closer>>

Unregister(c) ==
  /\ pc[c] = "unregister"
  /\ active' = active \ {id[c]}
  /\ Goto(c, "leave")
  /\ Notify
  /\ UNCHANGED <<id, admitted, completed, worker, released>>

Leave(c) ==
  /\ pc[c] = "leave"
  /\ admitted' = admitted \ {c}
  /\ Goto(c, "done")
  /\ IF c \in Direct THEN UNCHANGED closer ELSE Notify
  /\ UNCHANGED <<id, active, completed, worker, released>>

-----------------------------------------------------------------------------
(* run_owned_worker: the target, its cleanup, then the completion.           *)

WorkerMoves(c, from, to) ==
  /\ worker[c] = from
  /\ worker' = [worker EXCEPT ![c] = to]

EndTarget(c) ==
  /\ WorkerMoves(c, "running", "cleanup")
  /\ UNCHANGED <<pc, id, admitted, active, completed, released, closer>>

CleanUp(c) ==
  /\ WorkerMoves(c, "cleanup", "ended")
  /\ Cleanup(c)
  /\ UNCHANGED <<pc, id, admitted, active, completed, closer>>

Retire(c) ==
  /\ WorkerMoves(c, "ended", "retired")
  /\ active' = active \ {id[c]}
  /\ completed' = completed \cup {id[c]}
  /\ Notify
  /\ UNCHANGED <<pc, id, admitted, released>>

-----------------------------------------------------------------------------
(* close.                                                                    *)

BeginClose ==
  /\ closer = "open"
  /\ closer' = "checking"
  /\ UNCHANGED <<pc, id, admitted, active, completed, worker, released>>

\* Mutant: close waits for the workers but not for the admissions.
MutantCheckClose ==
  /\ closer = "checking"
  /\ closer' = IF active = {} THEN "closed" ELSE "sleeping"
  /\ UNCHANGED <<pc, id, admitted, active, completed, worker, released>>

CheckClose ==
  /\ closer = "checking"
  /\ closer' = IF active = {} /\ admitted = {} THEN "closed" ELSE "sleeping"
  /\ UNCHANGED <<pc, id, admitted, active, completed, worker, released>>

\* It may, when close was given a timeout.
CloseTimeout ==
  /\ closer = "sleeping" /\ closer' = "timed_out"
  /\ UNCHANGED <<pc, id, admitted, active, completed, worker, released>>

-----------------------------------------------------------------------------

CallerStep(c) ==
  \/ Enter(c) \/ \E o \in Operation : Create(c, o)
  \/ Register(c) \/ Launch(c) \/ Unregister(c) \/ Leave(c)

WorkerStep(c) == EndTarget(c) \/ CleanUp(c) \/ Retire(c)

CloseStep == BeginClose \/ CheckClose \/ CloseTimeout

Next == (\E c \in Caller : CallerStep(c) \/ WorkerStep(c)) \/ CloseStep

Spec == Init /\ [][Next]_vars

\* Threads run on; every command a worker waits for has a timeout.
FairSpec ==
  /\ Spec
  /\ \A c \in Caller : WF_vars(CallerStep(c)) /\ WF_vars(WorkerStep(c))
  /\ WF_vars(CheckClose)

-----------------------------------------------------------------------------

\* When close has returned no worker runs, and none will: admissions that came
\* first were waited for, later ones are refused.
ClosedMeansQuiet ==
  closer = "closed" => \A c \in Caller : worker[c] \in {"none", "retired"}

\* The lock lease of a caller is released exactly once on every path: by its
\* worker, or by the failed or rejected start; and never while the worker runs.
LeaseReleasedOnce ==
  \A c \in Caller :
    /\ worker[c] \in {"running", "cleanup"} => released[c] = 0
    /\ (pc[c] = "done" /\ id[c] # None /\ worker[c] \in {"none", "ended", "retired"})
         => released[c] = 1

\* Completion is announced only after the lock was released, and one operation
\* id never has two workers.
CompletionFollowsCleanup ==
  /\ \A o \in completed : \E c \in Caller :
       id[c] = o /\ worker[c] = "retired" /\ released[c] = 1
  /\ \A c, d \in Caller :
       (c # d /\ id[c] = id[d]) => worker[c] = "none" \/ worker[d] = "none"

\* A close ends even if its timeout never does: no wake-up of its condition is
\* lost.  (CloseTimeout is not fair.)
CloseReturns == closing ~> closer \in {"closed", "timed_out"}
=============================================================================
