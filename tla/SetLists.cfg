CONSTANTS
  d1 = d1
  d2 = d2
  d3 = d3
  d4 = d4
  Assoc = 3
  Dbns <- MCDbns
  Buckets = {"left", "right"}
  BucketOf <- MCBucketOf
  Null = Null
  HotPcts = {34, 67, 100}
  PromoteThresh = 2
  Policies = {"FIFO", "LRU"}
SYMMETRY MCSymmetry
SPECIFICATION Spec
INVARIANTS LruListsLinked EveryBlockIsFound HotListKeepsItsSize
PROPERTIES WarmBlocksGoFirst ImplementsBlockOrder
