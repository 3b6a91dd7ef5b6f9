SPECIFICATION FairSpec
CONSTANTS
  t1 = t1
  t2 = t2
  t3 = t3
  Threads = {t1, t2, t3}
  WriteWaiterMax = 3
  ReadOwnerMax = 3
INVARIANTS MutualExclusion WordAccounts NoLostWakeup
PROPERTIES RefinesRWLock WriterProgress ReaderProgress
