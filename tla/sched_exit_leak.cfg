SPECIFICATION FairSpec
CONSTANTS
  t1 = t1
  t2 = t2
  t3 = t3
  k1 = k1
  k2 = k2
  k3 = k3
  Threads = {t1, t2, t3}
  Mutexes = {}
  Sems = {}
  StackMem = {k1, k2, k3}
  Fits <- OwnBlock
  Boot = Boot
  NULL = NULL
  Creators <- BootAlone
  Resident = {}
  NeedResident = FALSE
  SemInit <- NoTokens
  MaxPosts = 0
CHECK_DEADLOCK FALSE
PROPERTIES ExitFreesStack
