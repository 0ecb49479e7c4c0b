SPECIFICATION Spec
CONSTANTS
  t1 = t1
  t2 = t2
  t3 = t3
  k1 = k1
  k2 = k2
  k3 = k3
  Threads = {t1, t2, t3}
  Mutexes = {m1}
  Sems = {s1}
  StackMem = {k1, k2, k3}
  Fits <- SharedBlock
  Boot = Boot
  NULL = NULL
  Creators <- BootAndResident
  Resident = {t1}
  NeedResident = TRUE
  SemInit <- OneToken
  MaxPosts = 1
CHECK_DEADLOCK FALSE
INVARIANTS
  TypeOK
  QueueIntegrity
  MutualExclusion
  LockAccounted
  TokensConserved
  NoLostWakeup
  StackExclusive
PROPERTIES
  ZombieNeverReturns
  NeverOvertaken
  ImplementsSync
