SPECIFICATION PfdFairSpec
CONSTANTS
  d1 = d1
  d2 = d2
  m1 = m1
  Metas = {m1}
  Dbns = {d1, d2}
  IndexOf <- Colliding
  Slots = {s1, s2}
  Readers = {r1, r2}
  Prefetchers = {p1, p2}
  Data = {d1, d2}
  NoData = NoData
  NoBlock = NoBlock
  MayInterrupt = TRUE
  IoMayFail = TRUE
INVARIANTS PfdIInv CopiesItsBlock
PROPERTIES HeldStaysPut ReadsReturn
