------------------------ MODULE MCReleasePublication ------------------------
(* TLC instance of ReleasePublication: one step of each kind that matters,    *)
(* and either two jobs at once or one job, retries and a change by others.    *)
EXTENDS ReleasePublication, TLC

MCKinds == <<"attestation", "draft", "asset", "publish">>
MCBounds == {[attempts |-> 1, meddling |-> 0, overlap |-> TRUE],
             [attempts |-> 2, meddling |-> 1, overlap |-> FALSE]}
MCSymmetry == Permutations(Controller)
=============================================================================
