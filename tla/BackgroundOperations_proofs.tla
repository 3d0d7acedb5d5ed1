--------------------- MODULE BackgroundOperations_proofs ---------------------
(* Proofs about BackgroundOperations for every set of callers and ids.       *)
EXTENDS BackgroundOperations, TLAPS

Registered(c) ==
  pc[c] \in {"launch", "unregister"} \/ worker[c] \in {"running", "cleanup", "ended"}

\* A registered worker is in _active under an id of its own.
OwnershipInv ==
  /\ \A c \in Caller : Registered(c) => id[c] \in active
  /\ \A c, d \in Caller : Registered(c) /\ Registered(d) /\ id[c] = id[d] => c = d

\* Where a caller is, whether it is admitted and what it created agree.
ProgressInv ==
  \A c \in Caller :
    /\ pc[c] \in {"inside", "register", "launch", "unregister", "leave"} /\ c \notin Direct
         => c \in admitted
    /\ pc[c] \notin {"leave", "done"} => worker[c] = "none"

\* After close nothing is registered and nobody can be admitted.
QuietInv == closer = "closed" => active = {} /\ admitted = {}

Lease(c) ==
  /\ pc[c] \in {"outside", "inside", "register", "launch"} => released[c] = 0
  /\ pc[c] = "unregister" => released[c] = 1
  /\ worker[c] \in {"running", "cleanup"} => released[c] = 0
  /\ worker[c] \in {"ended", "retired"} => released[c] = 1
  /\ pc[c] \in {"leave", "done"} /\ worker[c] = "none" /\ id[c] # None
       => released[c] = 1
  /\ pc[c] \in {"outside", "inside"} => id[c] = None
  /\ pc[c] \in {"register", "launch", "unregister", "leave"} => id[c] # None

LeaseInv == \A c \in Caller : Lease(c)

IInv == TypeOK /\ OwnershipInv /\ ProgressInv /\ QuietInv /\ LeaseInv

-----------------------------------------------------------------------------

\* The initial state satisfies the invariant.
LEMMA InitInv == Init => IInv
<1> SUFFICES ASSUME Init PROVE IInv
  OBVIOUS
<1>1. TypeOK
  BY DEF Init, TypeOK
<1>2. OwnershipInv
  BY DEF Init, OwnershipInv, Registered
<1>3. ProgressInv
  BY DEF Init, ProgressInv
<1>4. QuietInv /\ LeaseInv
  BY DEF Init, QuietInv, LeaseInv, Lease
<1> QED BY <1>1, <1>2, <1>3, <1>4 DEF IInv

\* One step of a caller.
LEMMA CallerStepInv ==
  ASSUME IInv, NEW c \in Caller, CallerStep(c)
  PROVE  IInv'
<1> USE DEF IInv, TypeOK, Goto, Cleanup, Notify, closing
<1>1. CASE Enter(c)
  <2>1. TypeOK'
    BY <1>1 DEF Enter
  <2>2. OwnershipInv'
    BY <1>1 DEF Enter, OwnershipInv, Registered, ProgressInv, QuietInv
  <2>3. ProgressInv'
    BY <1>1 DEF Enter, ProgressInv
  <2>4. QuietInv'
    BY <1>1 DEF Enter, QuietInv, OwnershipInv, Registered, ProgressInv
  <2>5. LeaseInv'
    <3>1. Lease(c)'
      BY <1>1 DEF Enter, LeaseInv, Lease, ProgressInv
    <3>2. \A e \in Caller \ {c} : Lease(e)'
      BY <1>1 DEF Enter, LeaseInv, Lease
    <3> QED BY <3>1, <3>2 DEF LeaseInv
  <2> QED BY <2>1, <2>2, <2>3, <2>4, <2>5
<1>2. ASSUME NEW o \in Operation, Create(c, o) PROVE IInv'
  <2>1. TypeOK'
    BY <1>2, ManagerAssumption DEF Create, LeaseInv, Lease, ProgressInv
  <2>2. OwnershipInv'
    BY <1>2, ManagerAssumption DEF Create, OwnershipInv, Registered, ProgressInv, QuietInv
  <2>3. ProgressInv'
    BY <1>2, ManagerAssumption DEF Create, ProgressInv
  <2>4. QuietInv'
    BY <1>2, ManagerAssumption DEF Create, QuietInv, OwnershipInv, Registered, ProgressInv
  <2>5. LeaseInv'
    <3>1. Lease(c)'
      BY <1>2, ManagerAssumption DEF Create, LeaseInv, Lease, ProgressInv
    <3>2. \A e \in Caller \ {c} : Lease(e)'
      BY <1>2 DEF Create, LeaseInv, Lease
    <3> QED BY <3>1, <3>2 DEF LeaseInv
  <2> QED BY <2>1, <2>2, <2>3, <2>4, <2>5
<1>3. CASE Register(c)
  <2>1. TypeOK'
    BY <1>3 DEF Register, LeaseInv, Lease, ProgressInv
  <2>2. OwnershipInv'
    BY <1>3 DEF Register, OwnershipInv, Registered, ProgressInv, QuietInv
  <2>3. ProgressInv'
    BY <1>3 DEF Register, ProgressInv
  <2>4. QuietInv'
    BY <1>3 DEF Register, QuietInv, OwnershipInv, Registered, ProgressInv
  <2>5. LeaseInv'
    <3>1. Lease(c)'
      BY <1>3 DEF Register, LeaseInv, Lease, ProgressInv
    <3>2. \A e \in Caller \ {c} : Lease(e)'
      BY <1>3 DEF Register, LeaseInv, Lease
    <3> QED BY <3>1, <3>2 DEF LeaseInv
  <2> QED BY <2>1, <2>2, <2>3, <2>4, <2>5
<1>4. CASE Launch(c)
  <2>1. TypeOK'
    BY <1>4 DEF Launch, LeaseInv, Lease, ProgressInv
  <2>2. OwnershipInv'
    BY <1>4 DEF Launch, OwnershipInv, Registered, ProgressInv, QuietInv
  <2>3. ProgressInv'
    BY <1>4 DEF Launch, ProgressInv
  <2>4. QuietInv'
    BY <1>4 DEF Launch, QuietInv, OwnershipInv, Registered, ProgressInv
  <2>5. LeaseInv'
    <3>1. Lease(c)'
      BY <1>4 DEF Launch, LeaseInv, Lease, ProgressInv
    <3>2. \A e \in Caller \ {c} : Lease(e)'
      BY <1>4 DEF Launch, LeaseInv, Lease
    <3> QED BY <3>1, <3>2 DEF LeaseInv
  <2> QED BY <2>1, <2>2, <2>3, <2>4, <2>5
<1>5. CASE Unregister(c)
  <2>1. TypeOK'
    BY <1>5 DEF Unregister
  <2>2. OwnershipInv'
    BY <1>5 DEF Unregister, OwnershipInv, Registered, ProgressInv, QuietInv
  <2>3. ProgressInv'
    BY <1>5 DEF Unregister, ProgressInv
  <2>4. QuietInv'
    BY <1>5 DEF Unregister, QuietInv, OwnershipInv, Registered, ProgressInv
  <2>5. LeaseInv'
    <3>1. Lease(c)'
      BY <1>5 DEF Unregister, LeaseInv, Lease, ProgressInv
    <3>2. \A e \in Caller \ {c} : Lease(e)'
      BY <1>5 DEF Unregister, LeaseInv, Lease
    <3> QED BY <3>1, <3>2 DEF LeaseInv
  <2> QED BY <2>1, <2>2, <2>3, <2>4, <2>5
<1>6. CASE Leave(c)
  <2>1. TypeOK'
    BY <1>6 DEF Leave
  <2>2. OwnershipInv'
    BY <1>6 DEF Leave, OwnershipInv, Registered, ProgressInv, QuietInv
  <2>3. ProgressInv'
    BY <1>6 DEF Leave, ProgressInv
  <2>4. QuietInv'
    BY <1>6 DEF Leave, QuietInv, OwnershipInv, Registered, ProgressInv
  <2>5. LeaseInv'
    <3>1. Lease(c)'
      BY <1>6 DEF Leave, LeaseInv, Lease, ProgressInv
    <3>2. \A e \in Caller \ {c} : Lease(e)'
      BY <1>6 DEF Leave, LeaseInv, Lease
    <3> QED BY <3>1, <3>2 DEF LeaseInv
  <2> QED BY <2>1, <2>2, <2>3, <2>4, <2>5
<1> QED BY <1>1, <1>2, <1>3, <1>4, <1>5, <1>6 DEF CallerStep

\* One step of a worker.
LEMMA WorkerStepInv ==
  ASSUME IInv, NEW c \in Caller, WorkerStep(c)
  PROVE  IInv'
<1> USE DEF IInv, TypeOK, Cleanup, Notify, WorkerMoves
<1>1. CASE EndTarget(c)
  <2>1. TypeOK'
    BY <1>1 DEF EndTarget
  <2>2. OwnershipInv'
    BY <1>1 DEF EndTarget, OwnershipInv, Registered, ProgressInv, QuietInv
  <2>3. ProgressInv'
    BY <1>1 DEF EndTarget, ProgressInv
  <2>4. QuietInv'
    BY <1>1 DEF EndTarget, QuietInv, OwnershipInv, Registered, ProgressInv
  <2>5. LeaseInv'
    <3>1. Lease(c)'
      BY <1>1 DEF EndTarget, LeaseInv, Lease, ProgressInv
    <3>2. \A e \in Caller \ {c} : Lease(e)'
      BY <1>1 DEF EndTarget, LeaseInv, Lease
    <3> QED BY <3>1, <3>2 DEF LeaseInv
  <2> QED BY <2>1, <2>2, <2>3, <2>4, <2>5
<1>2. CASE CleanUp(c)
  <2>1. TypeOK'
    BY <1>2 DEF CleanUp, LeaseInv, Lease, ProgressInv
  <2>2. OwnershipInv'
    BY <1>2 DEF CleanUp, OwnershipInv, Registered, ProgressInv, QuietInv
  <2>3. ProgressInv'
    BY <1>2 DEF CleanUp, ProgressInv
  <2>4. QuietInv'
    BY <1>2 DEF CleanUp, QuietInv, OwnershipInv, Registered, ProgressInv
  <2>5. LeaseInv'
    <3>1. Lease(c)'
      BY <1>2 DEF CleanUp, LeaseInv, Lease, ProgressInv
    <3>2. \A e \in Caller \ {c} : Lease(e)'
      BY <1>2 DEF CleanUp, LeaseInv, Lease
    <3> QED BY <3>1, <3>2 DEF LeaseInv
  <2> QED BY <2>1, <2>2, <2>3, <2>4, <2>5
<1>3. CASE Retire(c)
  <2>1. TypeOK'
    BY <1>3 DEF Retire, OwnershipInv, Registered
  <2>2. OwnershipInv'
    BY <1>3 DEF Retire, OwnershipInv, Registered, ProgressInv, QuietInv
  <2>3. ProgressInv'
    BY <1>3 DEF Retire, ProgressInv
  <2>4. QuietInv'
    BY <1>3 DEF Retire, QuietInv, OwnershipInv, Registered, ProgressInv
  <2>5. LeaseInv'
    <3>1. Lease(c)'
      BY <1>3 DEF Retire, LeaseInv, Lease, ProgressInv
    <3>2. \A e \in Caller \ {c} : Lease(e)'
      BY <1>3 DEF Retire, LeaseInv, Lease
    <3> QED BY <3>1, <3>2 DEF LeaseInv
  <2> QED BY <2>1, <2>2, <2>3, <2>4, <2>5
<1> QED BY <1>1, <1>2, <1>3 DEF WorkerStep

\* One step of the thread that closes the manager.
LEMMA CloseStepInv ==
  ASSUME IInv, CloseStep
  PROVE  IInv'
<1> USE DEF IInv, TypeOK
<1>1. CASE BeginClose
  <2>1. TypeOK'
    BY <1>1 DEF BeginClose
  <2>2. OwnershipInv'
    BY <1>1 DEF BeginClose, OwnershipInv, Registered, ProgressInv, QuietInv
  <2>3. ProgressInv'
    BY <1>1 DEF BeginClose, ProgressInv
  <2>4. QuietInv'
    BY <1>1 DEF BeginClose, QuietInv, OwnershipInv, Registered, ProgressInv
  <2>5. LeaseInv'
    BY <1>1 DEF BeginClose, LeaseInv, Lease
  <2> QED BY <2>1, <2>2, <2>3, <2>4, <2>5
<1>2. CASE CheckClose
  <2>1. TypeOK'
    BY <1>2 DEF CheckClose
  <2>2. OwnershipInv'
    BY <1>2 DEF CheckClose, OwnershipInv, Registered, ProgressInv, QuietInv
  <2>3. ProgressInv'
    BY <1>2 DEF CheckClose, ProgressInv
  <2>4. QuietInv'
    BY <1>2 DEF CheckClose, QuietInv, OwnershipInv, Registered, ProgressInv
  <2>5. LeaseInv'
    BY <1>2 DEF CheckClose, LeaseInv, Lease
  <2> QED BY <2>1, <2>2, <2>3, <2>4, <2>5
<1>3. CASE CloseTimeout
  <2>1. TypeOK'
    BY <1>3 DEF CloseTimeout
  <2>2. OwnershipInv'
    BY <1>3 DEF CloseTimeout, OwnershipInv, Registered, ProgressInv, QuietInv
  <2>3. ProgressInv'
    BY <1>3 DEF CloseTimeout, ProgressInv
  <2>4. QuietInv'
    BY <1>3 DEF CloseTimeout, QuietInv, OwnershipInv, Registered, ProgressInv
  <2>5. LeaseInv'
    BY <1>3 DEF CloseTimeout, LeaseInv, Lease
  <2> QED BY <2>1, <2>2, <2>3, <2>4, <2>5
<1> QED BY <1>1, <1>2, <1>3 DEF CloseStep

\* The conjuncts are inductive together.
THEOREM Invariance == Spec => []IInv
<1>1. Init => IInv
  BY InitInv
<1>2. IInv /\ [Next]_vars => IInv'
  <2> SUFFICES ASSUME IInv, [Next]_vars PROVE IInv'
    OBVIOUS
  <2>1. CASE UNCHANGED vars
    BY <2>1 DEF vars, IInv, TypeOK, OwnershipInv, Registered, ProgressInv, QuietInv,
                LeaseInv, Lease
  <2>2. CASE Next
    BY <2>2, CallerStepInv, WorkerStepInv, CloseStepInv DEF Next
  <2> QED BY <2>1, <2>2
<1> QED BY <1>1, <1>2, PTL DEF Spec

\* When BackgroundOperationManager.close has returned, no worker of any caller
\* runs or will ever run.
THEOREM CloseIsFinal == Spec => []ClosedMeansQuiet
<1>1. IInv => ClosedMeansQuiet
  BY DEF IInv, TypeOK, OwnershipInv, Registered, QuietInv, ClosedMeansQuiet
<1> QED BY <1>1, Invariance, PTL

\* Every path through start releases the lock lease exactly once, and no path
\* releases it under a running worker.
THEOREM LeaseIsReleasedOnce == Spec => []LeaseReleasedOnce
<1>1. IInv => LeaseReleasedOnce
  BY DEF IInv, TypeOK, LeaseInv, Lease, LeaseReleasedOnce
<1> QED BY <1>1, Invariance, PTL
\* Every reachable state of the manager is well typed; in particular no lease is
\* ever released a second time.
THEOREM ManagerTypeCorrect == Spec => []TypeOK
<1>1. IInv => TypeOK
  BY DEF IInv
<1> QED BY <1>1, Invariance, PTL

-----------------------------------------------------------------------------
(* Completion.                                                               *)

\* The completed ids are those of the retired workers, one worker each, and a
\* registered worker has none of them.
CompletionInv ==
  /\ \A o \in completed : \E c \in Caller : id[c] = o /\ worker[c] = "retired"
  /\ \A c \in Caller : worker[c] = "retired" => id[c] \in completed
  /\ \A c \in Caller : Registered(c) => id[c] \notin completed
  /\ \A c, d \in Caller :
       worker[c] = "retired" /\ worker[d] = "retired" /\ id[c] = id[d] => c = d

\* A worker retires once, under an id that is its own; nothing else adds a
\* completion, and no completed id is registered again.
LEMMA CompletionStep == IInv /\ CompletionInv /\ [Next]_vars => CompletionInv'
<1> SUFFICES ASSUME IInv, CompletionInv, [Next]_vars PROVE CompletionInv'
  OBVIOUS
<1> USE DEF IInv, TypeOK, OwnershipInv, ProgressInv, Registered, CompletionInv, Goto
<1>1. CASE UNCHANGED vars \/ CloseStep
  BY <1>1 DEF vars, CloseStep, BeginClose, CheckClose, CloseTimeout
<1>2. ASSUME NEW c \in Caller, CallerStep(c) PROVE CompletionInv'
  <2>1. CASE Enter(c)
    BY <1>2, <2>1 DEF Enter
  <2>2. ASSUME NEW o \in Operation, Create(c, o) PROVE CompletionInv'
    BY <1>2, <2>2, ManagerAssumption DEF Create
  <2>3. CASE Register(c)
    BY <1>2, <2>3 DEF Register
  <2>4. CASE Launch(c)
    BY <1>2, <2>4 DEF Launch
  <2>5. CASE Unregister(c)
    BY <1>2, <2>5 DEF Unregister
  <2>6. CASE Leave(c)
    BY <1>2, <2>6 DEF Leave
  <2> QED BY <1>2, <2>1, <2>2, <2>3, <2>4, <2>5, <2>6 DEF CallerStep
<1>3. ASSUME NEW c \in Caller, WorkerStep(c) PROVE CompletionInv'
  <2>1. CASE EndTarget(c)
    BY <1>3, <2>1 DEF EndTarget, WorkerMoves
  <2>2. CASE CleanUp(c)
    BY <1>3, <2>2 DEF CleanUp, WorkerMoves
  <2>3. CASE Retire(c)
    BY <1>3, <2>3 DEF Retire, WorkerMoves
  <2> QED BY <1>3, <2>1, <2>2, <2>3 DEF WorkerStep
<1> QED BY <1>1, <1>2, <1>3 DEF Next

\* wait and the server hear of a completion only after the worker's cleanup
\* released the lock, and no operation id ever has two workers.
THEOREM CompletionIsLast == Spec => []CompletionFollowsCleanup
<1>1. Init => CompletionInv
  BY DEF Init, CompletionInv, Registered
<1>2. IInv /\ CompletionInv => CompletionFollowsCleanup
  BY DEF IInv, TypeOK, OwnershipInv, Registered, LeaseInv, Lease, CompletionInv,
         CompletionFollowsCleanup
<1> QED BY <1>1, <1>2, CompletionStep, Invariance, PTL DEF Spec
=============================================================================
