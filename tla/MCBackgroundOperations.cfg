SPECIFICATION FairSpec
CONSTANTS
  a = a
  b = b
  d = d
  o1 = o1
  o2 = o2
  None = None
  Caller = {a, b, d}
  Direct = {d}
  Operation = {o1, o2}
INVARIANTS
  ClosedMeansQuiet
  LeaseReleasedOnce
  CompletionFollowsCleanup
PROPERTIES
  CloseReturns
CHECK_DEADLOCK FALSE
