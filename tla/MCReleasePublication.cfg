SPECIFICATION PublicationSpec
CONSTANTS
  Controller = {c1, c2}
  Kinds <- MCKinds
  Bounds <- MCBounds
SYMMETRY MCSymmetry
CHECK_DEADLOCK FALSE
INVARIANTS
  RequestsOnRecord
  PublishedInOrder
PROPERTIES
  FreezeHolds
  CompleteIsReadBack
