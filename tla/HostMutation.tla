---------------------------- MODULE HostMutation ----------------------------
(* What the host updater promises of an operation, whatever fails: one holder *)
(* of the update lock at a time, a host that only a committed or a blocked    *)
(* operation touches, an aborted operation that touched nothing, and nobody   *)
(* who starts while an operation waits for manual recovery.                   *)

CONSTANTS Operation, World, None

VARIABLES
  phase,    \* of each operation
  holder,   \* the operation the holder of the lock works on
  world     \* the host: releases in place, live contracts, running services

vars == <<phase, holder, world>>

Phase == {"new", "prepared", "committed", "blocked", "aborted", "finished"}

Blocked == \E o \in Operation : phase[o] = "blocked"

TypeOK ==
  /\ phase \in [Operation -> Phase]
  /\ holder \in Operation \cup {None}
  /\ world \in World

Init ==
  /\ phase = [o \in Operation |-> "new"]
  /\ holder = None
  /\ world \in World

Moves(o, from, to) ==
  /\ phase[o] = from
  /\ phase' = [phase EXCEPT ![o] = to]

\* An operation is created, with or without the worker that will run it.
Begin(o) ==
  /\ holder = None /\ ~ Blocked
  /\ \/ Moves(o, "new", "prepared") /\ holder' \in {None, o}
     \/ Moves(o, "new", "aborted") /\ holder' = None
  /\ UNCHANGED world

\* It aborts in the hands of its worker, when the agent finds it at start, or
\* because its worker never started: nothing was touched, so no lock is needed.
Abort(o) ==
  /\ Moves(o, "prepared", "aborted")
  /\ UNCHANGED <<holder, world>>

Commit(o) ==
  /\ holder = o
  /\ Moves(o, "prepared", "committed")
  /\ UNCHANGED <<holder, world>>

Mutate(o) ==
  /\ holder = o /\ phase[o] \in {"committed", "blocked"}
  /\ world' \in World
  /\ UNCHANGED <<phase, holder>>

Finish(o) ==
  /\ holder = o
  /\ Moves(o, "committed", "finished") \/ Moves(o, "blocked", "finished")
  /\ UNCHANGED <<holder, world>>

\* Only a committed operation ever raises the barrier.
Block(o) ==
  /\ holder \in {None, o}
  /\ Moves(o, "committed", "blocked")
  /\ UNCHANGED <<holder, world>>

\* A worker or reconcile takes up an operation that is at rest.
Take(o) ==
  /\ holder = None /\ phase[o] \in {"prepared", "blocked"}
  /\ holder' = o
  /\ UNCHANGED <<phase, world>>

\* The end of the holder, be it regular or a crash.
Unlock ==
  /\ holder' = None
  /\ UNCHANGED <<phase, world>>

Next ==
  \/ Unlock
  \/ \E o \in Operation :
       \/ Begin(o) \/ Abort(o) \/ Commit(o) \/ Mutate(o)
       \/ Finish(o) \/ Block(o) \/ Take(o)

Spec == Init /\ [][Next]_vars
=============================================================================
