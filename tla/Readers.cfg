SPECIFICATION ReadersSpec
CONSTANTS
  p = p
  q = q
  v = v
  w = w
  null = null
  Storages = {p, q}
  Contents = {v, w}
  Opaque = {w}
  MaxMoments = 4
SYMMETRY Swapped
INVARIANTS EqualsOfAMoment RoundTrip
