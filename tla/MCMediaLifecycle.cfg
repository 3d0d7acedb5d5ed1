SPECIFICATION MediaSpec
CONSTANTS
  Upload = {old, u1, u2}
  Legacy = {old}
  Entry = {e1}
  Worker = {w1, w2}
  Key = {k1, k2}
  FirstBackend = b1
  SecondBackend = b2
  Priority <- MCPriority
  Limit = 1
  Quota = 1
  Nothing = Nothing
  MaxFaults = 2
  MaxBackfills = 1
CONSTRAINT MCBound
SYMMETRY Symmetry
INVARIANTS
  ReferencedBytesExist
  OpenGateKnowsHolders
  SomeoneProceeds
  BytesAccounted
  WithinLimit
PROPERTIES
  BytesLeaveUnused
  GrowsWithinQuota
