SPECIFICATION FairSpec
CONSTANTS
  t1 = t1
  t2 = t2
  t3 = t3
  Threads = {t1, t2, t3}
  Mutexes = {1}
  BasePri <- ThreePri
  BASEPRI_DEFAULT = 2
  MAXPRI_PROMOTE = 3
  None = None
INVARIANTS MutualExclusion InterlockExclusive WaitersExact NoLostWakeup HolderBoosted PromotionsExact
PROPERTIES WaiterServed
