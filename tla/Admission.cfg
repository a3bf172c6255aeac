CONSTANTS
  p1 = p1
  p2 = p2
  p3 = p3
  Pids <- MCPids
  Threads <- MCThreads
  Tgid <- MCTgid
  max_pids = 1
  pid_expiry_secs = 1
  skip_seq_thresh = 1
  Depth = 2
  MaxBlock = 2
SPECIFICATION FairSpec
INVARIANTS PidListsBounded FlowIsBacked SequentialIsSkipped
PROPERTIES ExpiredUnlessPostponed
