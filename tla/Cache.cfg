SPECIFICATION CacheSpec
CONSTANTS
  t1 = t1
  t2 = t2
  a = a
  b = b
  c = c
  own = own
  shared = shared
  Threads = {t1, t2}
  Vals = {a, b, c}
  Fns <- MCFns
  Caches = {own, shared}
  Users <- MCUsers
INVARIANTS CacheTypeOK FreshResult SoleUserFresh
SYMMETRY Symmetry
VIEW View
