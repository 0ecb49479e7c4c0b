SPECIFICATION Spec
CONSTANTS
  LastCluster = 5
  OnDevice = {2, 3, 4}
  Sector = 2
  SectorsPerCluster = 2
  empty = empty
  full = full
  h1 = h1
  h2 = h2
  Files = {empty, full}
  Handles = {h1, h2}
  ReadOnly = {}
  Volumes <- MCVolumes
  Junk = Junk
  FREE = FREE
  EOC = EOC
  NONE = NONE
  Modes = {{"read"}, {"read", "write"}}
  Lengths = {3}
  Positions = {9}
  MaxWrites = 2
SYMMETRY Symmetry
INVARIANTS TypeOK ChainsSound Covered
PROPERTIES OnlyOverlapLoses OnlyDroppedLeak ImplementsStore
