--------------------------- MODULE MCBackupBarrier ---------------------------
(* TLC instance of BackupBarrier, and with it of ConfigurationChange. *)
EXTENDS BackupBarrier
=============================================================================
