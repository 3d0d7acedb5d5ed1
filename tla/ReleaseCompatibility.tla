------------------------ MODULE ReleaseCompatibility ------------------------
(* Immutable release manifests and the pure compatibility decision the host  *)
(* updater takes before it replaces the application (updater/compatibility). *)
EXTENDS Naturals

CONSTANTS
  Release,                \* verified immutable releases, numbered in version order
  DatabaseContract,       \* ids such as animemo-db-v1
  ConfigurationContract,  \* ids such as animemo-config-v1
  PluginApi,              \* Plugin SDK API generations
  Migration,              \* names that showmigrations reports
  Manifest,               \* the compatibility part of each release's manifest
  Schema                  \* the migrations that give a database contract its meaning

MigrationPolicy == {"none", "additive-backward-compatible", "breaking-blocked"}

ManifestType ==
  [database : DatabaseContract, databaseAccepts : SUBSET DatabaseContract,
   policy : MigrationPolicy, migrations : SUBSET Migration,
   configuration : ConfigurationContract,
   configurationAccepts : SUBSET ConfigurationContract,
   supportedApis : SUBSET PluginApi]

ASSUME ReleaseAssumption == Release \subseteq Nat
ASSUME SchemaAssumption  == Schema \in [DatabaseContract -> SUBSET Migration]

\* What validate_manifest enforces on every manifest that reaches a slot or a
\* plan; the migrations a release carries include those of its contract.
ASSUME ManifestAssumption ==
  /\ Manifest \in [Release -> ManifestType]
  /\ \A r \in Release :
       /\ Manifest[r].database \in Manifest[r].databaseAccepts
       /\ Manifest[r].configuration \in Manifest[r].configurationAccepts
       /\ Schema[Manifest[r].database] \subseteq Manifest[r].migrations

MigrationRequired(r) == Manifest[r].policy # "none"

-----------------------------------------------------------------------------
(* plan_switch.                                                              *)

RuntimeContracts ==
  [database : DatabaseContract, configuration : ConfigurationContract,
   plugins : SUBSET PluginApi]

\* No reason blocks the switch of an instance with these live contracts.
PlanAllowed(contracts, target) ==
  /\ contracts.database \in Manifest[target].databaseAccepts
  /\ contracts.configuration \in Manifest[target].configurationAccepts
  /\ contracts.plugins \subseteq Manifest[target].supportedApis
  /\ Manifest[target].policy # "breaking-blocked"

\* The decision shown to staff: current is the release of the planning context.
PlanDecision(contracts, current, target) ==
  CASE PlanAllowed(contracts, target) /\ target < current      -> "application_rollback"
    [] PlanAllowed(contracts, target) /\ ~ (target < current)  -> "safe_switch"
    [] ~ PlanAllowed(contracts, target) /\ target < current    -> "unsafe_downgrade"
    [] OTHER                                                   -> "blocked"

-----------------------------------------------------------------------------
(* The physical database: the set of applied migrations.                     *)

ContractMigrations == UNION {Schema[c] : c \in DatabaseContract}

\* The applied migrations are exactly those contract c stands for.
Describes(c, applied) == applied \cap ContractMigrations = Schema[c]

\* What the word "additive" in a release's migration policy promises and nothing in
\* the host checks: the migrations of a release describe its contract; one that
\* migrates accepts only contracts its own extends, one that does not finds what it
\* needs.
ContractsExtend ==
  \A r \in Release :
    /\ Describes(Manifest[r].database, Manifest[r].migrations)
    /\ \A c \in Manifest[r].databaseAccepts :
         IF MigrationRequired(r) THEN Schema[c] \subseteq Schema[Manifest[r].database]
                                 ELSE Schema[Manifest[r].database] \subseteq Schema[c]

\* An application tolerates a schema that one of its accepted contracts covers.
Tolerates(r, applied) ==
  \E c \in Manifest[r].databaseAccepts : applied \cap ContractMigrations \subseteq Schema[c]

\* inspect_database_transition compares the read-only migration snapshots that
\* the current and the target image report.
DatabaseTransitionOutcome(current, target, applied) ==
  LET known  == Manifest[current].migrations
      wanted == Manifest[target].migrations
      fresh  == wanted \ known
  IN  CASE ~ (known \subseteq wanted)  -> "indeterminate"
        [] (known \subseteq wanted) /\ (wanted \subseteq applied) -> "target"
        [] /\ known \subseteq wanted /\ known \subseteq applied
           /\ fresh # {} /\ fresh \cap applied = {}               -> "current"
        [] OTHER -> "indeterminate"
=============================================================================
