SPECIFICATION BackupSpec
CONSTANTS
  Manager = {m1, m2}
  Nobody = Nobody
  Guest = {"backup"}
  MaxRevision = 2
  MaxRelease = 1
  MaxFaults = 2
  MaxUploads = 1
CHECK_DEADLOCK FALSE
INVARIANTS
  ResultIsTrue
  HalfDoneIsOnRecord
  BundleIsOfOneMoment
  BackupReportIsTrue
PROPERTIES
  MisalignedIsFrozen
  PlanFitsHost
  LockComesBack
