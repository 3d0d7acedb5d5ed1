SPECIFICATION FairSpec
CONSTANTS
  o1 = o1
  o2 = o2
  v1 = v1
  v2 = v2
  c1 = c1
  c2 = c2
  p1 = p1
  None = None
  Stopped = Stopped
  Partial = Partial
  Operation = {o1, o2}
  Release <- MCRelease
  DatabaseContract = {v1, v2}
  ConfigurationContract = {c1, c2}
  PluginApi = {p1}
  Migration <- MCMigration
  Manifest <- MCManifest
  Schema <- MCSchema
  Adopted <- MCAdopted
  MaxFaults = 0
  MaxCrashes = 2
  JobsOutliveClient = TRUE
INVARIANTS
  CurrentIsRunning
PROPERTIES
  WorkerSettles
  RollbackKeepsContracts
CHECK_DEADLOCK FALSE
