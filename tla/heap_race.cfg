SPECIFICATION Spec
CONSTANTS
  Callers = {c1, c2}
  Sizes <- SmallSizes
  HeapBytes = 64
  Word = 256
  NULL = NULL
INVARIANTS
  Disjoint
