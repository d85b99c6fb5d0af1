SPECIFICATION Spec
CONSTANTS
  Order <- MCOrder
  Slot = {s1, s2, s3}
  NULL = NULL
INVARIANTS
  TypeOK
  SlotsAccounted
PROPERTIES
  ImplementsFifo
