SPECIFICATION Spec
CONSTANTS
  o1 = o1
  o2 = o2
  v1 = v1
  v2 = v2
  c1 = c1
  c2 = c2
  p1 = p1
  None = None
  Stopped = Stopped
  Partial = Partial
  Operation = {o1, o2}
  Release <- MCRelease
  DatabaseContract = {v1, v2}
  ConfigurationContract = {c1, c2}
  PluginApi = {}
  Migration <- MCMigration
  Manifest <- MCManifest
  Schema <- MCSchema
  Adopted <- MCAdopted
  MaxFaults = 0
  MaxCrashes = 0
  JobsOutliveClient = TRUE
SYMMETRY MCSymmetry
INVARIANTS
  NoIncompatibleWriter
CHECK_DEADLOCK FALSE
