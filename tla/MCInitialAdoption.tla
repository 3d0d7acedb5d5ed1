-------------------------- MODULE MCInitialAdoption --------------------------
(* Small instances of InitialAdoption for TLC.                                *)
EXTENDS InitialAdoption, TLC

CONSTANTS o1, o2, a, b, v1, v2, c1, p1

\* Releases 1 and 2 share a database contract, release 3 migrates to the next
\* one and still accepts theirs; release 2 supports no plugin.
MCRelease == 1..3
MCManifest ==
  [r \in MCRelease |->
    [database |-> IF r = 3 THEN v2 ELSE v1,
     databaseAccepts |-> IF r = 3 THEN {v1, v2} ELSE {v1},
     policy |-> IF r = 3 THEN "additive-backward-compatible" ELSE "none",
     migrations |-> {},
     configuration |-> c1, configurationAccepts |-> {c1},
     supportedApis |-> IF r = 2 THEN {} ELSE {p1}]]

\* No property of an adoption is about the migrations behind a contract.
MCSchema == [c \in {v1, v2} |-> {}]

MCSymmetry == Permutations(Operation) \cup Permutations(Command)
=============================================================================
