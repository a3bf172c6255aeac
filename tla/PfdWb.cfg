SPECIFICATION FpSpec
CONSTANTS
  d1 = d1
  d2 = d2
  m1 = m1
  m2 = m2
  None = None
  Dbns = {d1, d2}
  Slots = {s1, s2}
  Bios = {b1, b2}
  CacheMode = "WRITE_BACK"
  Faults = {"pjob_alloc"}
  MaxCrashes = 1
  Metas = {m1, m2}
  IndexOf <- Separate
  Prefetchers = {p1}
SYMMETRY FpSymmetry
CHECK_DEADLOCK FALSE
INVARIANTS Durable VerifyHolds
