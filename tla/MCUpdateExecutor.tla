-------------------------- MODULE MCUpdateExecutor --------------------------
(* Small instances of UpdateExecutor for TLC.                                *)
EXTENDS UpdateExecutor, TLC

CONSTANTS o1, o2, v1, v2, c1, c2, p1

\* Releases 1 and 2 know only database v1, release 3 migrates to v2 and still
\* accepts v1, release 4 adds a migration within v2.  Release 2 introduces
\* configuration c2.  Releases 1 and 3 alone support the plugin generation p1.
MCManifest ==
  [r \in 1..4 |->
    [database |-> IF r < 3 THEN v1 ELSE v2,
     databaseAccepts |-> CASE r < 3 -> {v1} [] r = 3 -> {v1, v2} [] OTHER -> {v2},
     policy |-> IF r < 3 THEN "none" ELSE "additive-backward-compatible",
     migrations |-> CASE r < 3 -> {1} [] r = 3 -> {1, 2, 3} [] OTHER -> {1, 2, 3, 4},
     configuration |-> IF r = 1 THEN c1 ELSE c2,
     configurationAccepts |-> IF r = 4 THEN {c2} ELSE {c1, c2},
     supportedApis |-> IF r \in {1, 3} THEN PluginApi ELSE {}]]

MCSchema == [c \in {v1, v2} |-> IF c = v1 THEN {1} ELSE {1, 2, 3}]

\* The hypothesis of the theorems about contracts holds of these releases.
ASSUME InstanceAssumption == ContractsExtend

MCRelease == 1..4
MCMigration == 1..4
MCAdopted == {1, 3}

MCSymmetry == Permutations(Operation)
=============================================================================
