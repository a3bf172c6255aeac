SPECIFICATION Spec
CONSTANTS
  Slots = {s1, s2}
  Dbns = {d1, d2}
  Bios = {b1, b2, b3}
  None = None
  CacheMode = "WRITE_THROUGH"
  Faults = {"ssd_read", "ssd_write", "disk_read", "disk_write", "job_alloc", "pjob_alloc"}
  MaxCrashes = 1
SYMMETRY Symmetry
INVARIANTS SetPartition PendingInProgress ReadsCurrent CleanAgreesWithDisk
CHECK_DEADLOCK FALSE
