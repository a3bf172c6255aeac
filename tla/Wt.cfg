CONSTANTS
  Size = 2
  Assoc = 2
  d1 = d1
  d2 = d2
  d3 = d3
  Dbns = {d1, d2, d3}
  SetOfDbn <- MCSetOfDbn
  Bios = {b1, b2}
  None = None
  write_around_mode = FALSE
  Faults = {"job_alloc", "disk", "ssd"}
SPECIFICATION FairSpec
INVARIANTS OneOwner OnlyWakeUpsRemain 
PROPERTIES EveryBioEnds
