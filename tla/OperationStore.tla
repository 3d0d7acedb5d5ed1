--------------------------- MODULE OperationStore ---------------------------
(* The durable journal of the host updater: one record per operation, its    *)
(* status automaton and its recovery receipt (updater/state.py).             *)
EXTENDS ReleaseCompatibility

CONSTANT None             \* an absent JSON value

Kind == {"apply_update", "rollback_previous"}

Transitions ==
  [ idle                     |-> {"preflight", "failed_pre_switch"},
    preflight                |-> {"fetching", "failed_pre_switch"},
    fetching                 |-> {"verifying", "failed_pre_switch"},
    verifying                |-> {"backup", "pulling", "adopting", "failed_pre_switch"},
    backup                   |-> {"pulling", "failed_pre_switch"},
    pulling                  |-> {"migrating", "bootstrapping", "switching",
                                  "failed_pre_switch"},
    migrating                |-> {"bootstrapping", "manual_recovery_required"},
    bootstrapping            |-> {"switching", "manual_recovery_required"},
    switching                |-> {"verifying_health", "rolling_back",
                                  "failed_post_switch", "manual_recovery_required"},
    verifying_health         |-> {"succeeded", "rolling_back", "rolled_back",
                                  "failed_post_switch", "manual_recovery_required"},
    rolling_back             |-> {"rolled_back", "manual_recovery_required"},
    adopting                 |-> {"succeeded", "manual_recovery_required"},
    manual_recovery_required |-> {"reconciled"},
    succeeded                |-> {},
    failed_pre_switch        |-> {},
    failed_post_switch       |-> {},
    rolled_back              |-> {},
    reconciled               |-> {} ]

Status == DOMAIN Transitions

TerminalStates ==
  {"succeeded", "failed_pre_switch", "failed_post_switch", "rolled_back",
   "manual_recovery_required", "reconciled"}

PreSwitchRecovery ==
  {"idle", "preflight", "fetching", "verifying", "backup", "pulling"}

-----------------------------------------------------------------------------
(* Records. A record that does not exist yet has the status "absent".        *)

DatabaseTransition == [before : DatabaseContract, after : DatabaseContract]
ConfigurationTransition ==
  [before : ConfigurationContract, after : ConfigurationContract]

\* bound says that the recovery receipt with the exact target manifest exists;
\* database and configuration are its pending contract transitions.
Record ==
  [kind : Kind, target : Release, status : Status \cup {"absent"}, bound : BOOLEAN,
   database : DatabaseTransition \cup {None},
   configuration : ConfigurationTransition \cup {None}]

ASSUME NoneAssumption == None \notin DatabaseTransition \cup ConfigurationTransition

NewRecord(kind, target) ==
  [kind |-> kind, target |-> target, status |-> "idle", bound |-> FALSE,
   database |-> None, configuration |-> None]

CanEnter(record, status) ==
  record.status \in Status /\ status \in Transitions[record.status]

Incomplete(record) == record.status \in Status \ TerminalStates

\* recover_incomplete: what an interrupted operation becomes at the next start.
RecoveredStatus(record) ==
  IF record.status \in PreSwitchRecovery
    THEN "failed_pre_switch"
    ELSE "manual_recovery_required"
=============================================================================
