SPECIFICATION FairSpec
CONSTANTS
  Callers = {c1}
  Sizes <- SomeSizes
  HeapBytes = 84
  Word = 256
  NULL = NULL
INVARIANTS
  TypeOK
  Disjoint
  Tiled
PROPERTIES
  CallsReturn
  ImplementsAllocator
