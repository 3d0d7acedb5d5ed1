---------------------------- MODULE MCUpdateAgent ----------------------------
(* Small instances of UpdateAgent for TLC.                                   *)
EXTENDS UpdateAgent, TLC

CONSTANTS o1, o2, p1, p2, w1, w2

\* Operations and plans are interchangeable; worlds are as well.
MCSymmetry == Permutations(Operation) \cup Permutations(Plan) \cup Permutations(World)
=============================================================================
