SPECIFICATION AdoptionSpec
CONSTANTS
  o1 = o1
  o2 = o2
  a = a
  b = b
  v1 = v1
  v2 = v2
  c1 = c1
  p1 = p1
  None = None
  Operation = {o1, o2}
  Command = {a, b}
  Release <- MCRelease
  DatabaseContract = {v1, v2}
  ConfigurationContract = {c1}
  PluginApi = {p1}
  Migration = {}
  Manifest <- MCManifest
  Schema <- MCSchema
  NeedsLocator = TRUE
  MaxFaults = 1
  MaxKills = 1
SYMMETRY MCSymmetry
INVARIANT BarrierCanBeLifted
