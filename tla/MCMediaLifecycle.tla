-------------------------- MODULE MCMediaLifecycle --------------------------
(* TLC instance of MediaLifecycle: two backends with room for Limit uploads,  *)
(* and either two uploads side by side with one fault, or one upload beside   *)
(* the inventory with two.                                                    *)
EXTENDS MediaLifecycle

CONSTANTS FirstBackend, SecondBackend

MCPriority == <<FirstBackend, SecondBackend>>

Symmetry ==
  Permutations(Upload \ Legacy) \cup Permutations(Worker) \cup Permutations(Key)
    \cup Permutations(Entry)

\* The state constraint: a second upload, the inventory and a second fault
\* do not come together in one behaviour.
OneUpload == Cardinality({u \in Upload \ Legacy : receipt[u].status # "none"}) <= 1
MCBound == OneUpload \/ (backfill.left = MaxBackfills /\ budget + 1 >= MaxFaults)
=============================================================================
