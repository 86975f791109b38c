SPECIFICATION FairSpec
CONSTANTS
  t1 = t1
  t2 = t2
  t3 = t3
  Threads <- MCThreads
  Used = {"Read", "Flush", "Seek", "Size", "Get", "Write"}
INVARIANT MutualExclusion
CHECK_DEADLOCK FALSE
