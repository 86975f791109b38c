SPECIFICATION FairCacheSpec
CONSTANTS
  t1 = t1
  t2 = t2
  Threads = {t1, t2}
  Frequency = 1
PROPERTY StoreReturns
