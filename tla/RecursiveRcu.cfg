SPECIFICATION ClientSpec
CONSTANTS
  Threads = {t1, t2}
  Limit = 3
  Refs <- MCRefs
  Vals <- MCVals
  Fns <- MCFns
  MaxDepth = 2
INVARIANTS ClientTypeOK NoLostIncrement CountsToLimit
PROPERTIES ImplementsCounter AllReturn
