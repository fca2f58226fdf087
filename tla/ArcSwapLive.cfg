SPECIFICATION FairSpec
CONSTANTS
  Threads = {t1, t2}
  Refs = {r1, r2, r3}
  Vals <- MCVals
  Fns <- MCInc
  MaxDepth = 1
PROPERTY LockFree
