SPECIFICATION Spec
CONSTANTS
  Total = 12
  Kernel = 3
  Entries = 5
  Pages <- OneTable
  NULL = NULL
INVARIANTS
  TypeOK
  Accounted
  IdentityMapped
PROPERTIES
  OneAtATime
