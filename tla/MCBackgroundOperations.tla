----------------------- MODULE MCBackgroundOperations -----------------------
(* Small instances of BackgroundOperations for TLC.                          *)
EXTENDS BackgroundOperations

CONSTANTS a, b, d, o1, o2

=============================================================================
