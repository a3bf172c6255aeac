CONSTANTS
  Size = 2
  Assoc = 2
  Dbns <- MCDbns
  SetOfDbn <- MCSetOfDbn
  None = None
  dirty_thresh_set = 1
  max_clean_ios_set = 1
  max_clean_ios_total = 1
  Faults = {"job_alloc", "diskclean_alloc", "io", "copy", "md_write", "store"}
SPECIFICATION FairSpec
INVARIANTS CountersExact FallowIsDirtyAndIdle CacheIsCurrent Durable HeaderIsTrue
PROPERTIES RemovalEnds
