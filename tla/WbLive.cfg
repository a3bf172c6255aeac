SPECIFICATION FairSpec
CONSTANTS
  Slots = {s1, s2}
  Dbns = {d1, d2}
  Bios = {b1, b2}
  None = None
  CacheMode = "WRITE_BACK"
  Faults = {"ssd_read", "ssd_write", "disk_read", "disk_write", "job_alloc", "pjob_alloc", "md_write", "md_alloc"}
  MaxCrashes = 1
PROPERTIES EveryBioEnds StableDuringWriteback
CHECK_DEADLOCK FALSE
INVARIANTS IInv ReadsCurrentIfReliable
