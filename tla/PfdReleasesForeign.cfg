SPECIFICATION FpSpec
CONSTANTS
  d1 = d1
  d2 = d2
  m1 = m1
  m2 = m2
  None = None
  Dbns = {d1, d2}
  Slots = {s1}
  Bios = {b1, b2}
  CacheMode = "WRITE_BACK"
  Faults = {}
  MaxCrashes = 0
  Metas = {m1}
  IndexOf <- Shared
  Prefetchers = {p1}
SYMMETRY FpSymmetry
CHECK_DEADLOCK FALSE
INVARIANT VerifyHolds
